------------------------------ MODULE Dashboard ------------------------------
(***************************************************************************)
(* get_dashboard_stats beside the rollup jobs: a request reads the clock,  *)
(* answers from the in-process cache if it can, and otherwise adds the     *)
(* hourly rows of the window's full hours to raw counts of its two edges,  *)
(* in SELECTs that see what is committed by then, and caches the sum.      *)
(*                                                                         *)
(* A request for one hour or less is one SELECT of raw events, which the   *)
(* cache does not see; it is not represented.                              *)
(***************************************************************************)
EXTENDS Rollups

CONSTANTS
  Viewers,  \* requests at a time
  LastAsk   \* bound on the clock of a request that reads the tables

VARIABLES
  view,   \* [Viewers -> request]
  cache   \* _stats_cache, per length of the window, under the key of this hour

dash == <<view, cache>>

Widths == 2 .. Window

\* A request: the hours asked for, the clock when asked, the clock its answer is
\* for, the sum so far, and, for stating, the least it should come to.
NoView == [stage |-> "off", w |-> 0, asked |-> 0, at |-> 0, total |-> 0, floor |-> 0]
NoEntry == [live |-> FALSE, at |-> 0, total |-> 0, floor |-> 0]

DashInit ==
  /\ Init
  /\ view = [v \in Viewers |-> NoView]
  /\ cache = [w \in Widths |-> NoEntry]

-----------------------------------------------------------------------------
(* The window that ends at time t *)

WindowStart(t, w) == t - 2 * w

\* The first hour that lies in the window as a whole.
FullStart(t, w) == HourOf(WindowStart(t, w)) + (WindowStart(t, w) % 2)
FullHours(t, w) == FullStart(t, w) .. HourOf(t) - 1

\* _raw_edge_aggregate
Raw(from, to) == SumFunctionOnSet(PerTick, from .. to - 1)
RolledUp(H) == SumFunctionOnSet(Hourly("node"), H) + SumFunctionOnSet(Hourly("null"), H)

-----------------------------------------------------------------------------
(* A request *)

Idle(v) == view[v].stage \in {"off", "shown"}

\* There is no entry of this key, or it is past its _STATS_CACHE_TTL.
Ask(v, w) ==
  /\ Idle(v) /\ now <= LastAsk
  /\ view' = [view EXCEPT ![v] = [stage |-> "asked", w |-> w, asked |-> now, at |-> now,
                                  total |-> 0, floor |-> 0]]
  /\ cache' = [cache EXCEPT ![w] = NoEntry]
  /\ UNCHANGED vars

\* A younger entry is the answer.
AskCached(v, w) ==
  LET e == cache[w] IN
  /\ Idle(v) /\ e.live
  /\ view' = [view EXCEPT ![v] = [stage |-> "shown", w |-> w, asked |-> now, at |-> e.at,
                                  total |-> e.total, floor |-> e.floor]]
  /\ UNCHANGED <<vars, cache>>

\* rollup_row.  If the full hours are all rolled up, the events of the window
\* that are stored by now will be in the answer.
ReadRollups(v) ==
  LET q == view[v]
      H == FullHours(q.at, q.w)
  IN
  /\ q.stage = "asked"
  /\ view' = [view EXCEPT ![v].stage = "rolled", ![v].total = RolledUp(H),
               ![v].floor = IF H \subseteq clean THEN Raw(WindowStart(q.at, q.w), q.at) ELSE 0]
  /\ UNCHANGED <<vars, cache>>

ReadStartEdge(v) ==
  LET q == view[v] IN
  /\ q.stage = "rolled"
  /\ view' = [view EXCEPT ![v].stage = "edged",
               ![v].total = @ + Raw(WindowStart(q.at, q.w), 2 * FullStart(q.at, q.w))]
  /\ UNCHANGED <<vars, cache>>

\* The answer is given and cached, under the key of the hour it is for.
ReadCurrentEdge(v) ==
  LET q == view[v]
      total == q.total + Raw(2 * HourOf(q.at), q.at)
      e == [live |-> TRUE, at |-> q.at, total |-> total, floor |-> q.floor]
  IN
  /\ q.stage = "edged"
  /\ view' = [view EXCEPT ![v].stage = "shown", ![v].total = total]
  /\ cache' = IF HourOf(q.at) = HourOf(now) THEN [cache EXCEPT ![q.w] = e] ELSE cache
  /\ UNCHANGED vars

\* A SELECT fails, or the process restarts.
RequestFails(v) ==
  /\ ~Idle(v)
  /\ view' = [view EXCEPT ![v] = NoView]
  /\ UNCHANGED <<vars, cache>>

\* Mutant: the key of an entry does not name the hour.
StillKeyedAlways(e) == TRUE
\* _cache_key has the hour of the clock in it.
StillKeyed(e) == HourOf(e.at) = HourOf(now + 1)

\* Half an hour passes, in which no request lives through a second one.
DashTick ==
  /\ Tick
  /\ \A v \in Viewers : ~Idle(v) => view[v].asked = now
  /\ view' = [v \in Viewers |-> IF Idle(v) THEN NoView ELSE view[v]]
  /\ cache' = [w \in Widths |-> IF StillKeyed(cache[w]) THEN cache[w] ELSE NoEntry]

DashNext ==
  \/ \E r \in Runs : Start(r) /\ UNCHANGED dash
  \/ \E r \in Runs : RunStep(r) /\ UNCHANGED dash
  \/ StoreEvent /\ UNCHANGED dash
  \/ DeleteNode /\ UNCHANGED dash
  \/ (RetainEvents \/ RetainRollups \/ RetentionFails) /\ UNCHANGED dash
  \/ DashTick
  \/ \E v \in Viewers : \E w \in Widths : Ask(v, w) \/ AskCached(v, w)
  \/ \E v \in Viewers : ReadRollups(v) \/ ReadStartEdge(v) \/ ReadCurrentEdge(v) \/ RequestFails(v)

DashSpec == DashInit /\ [][DashNext]_<<vars, dash>>

-----------------------------------------------------------------------------
(* Properties *)

\* No full hour of the window was hit by overlapping runs or by retention, and
\* its start is not past retention.
Sound(q) ==
  /\ \A h \in FullHours(q.at, q.w) : <<"hourly", h>> \notin excused
  /\ WindowStart(q.at, q.w) >= Cutoff(EventDays)

(***************************************************************************)
(* What the dashboard shows, fresh or from the cache, is for a window of   *)
(* the hour it was asked in.  It counts no event twice, in a rollup and as *)
(* a raw edge or in two rollups, although its SELECTs see different states *)
(* of the tables; and if the full hours were rolled up when it read the    *)
(* rows, it misses no event that was stored by then.                       *)
(***************************************************************************)
StatsHonest ==
  \A v \in Viewers :
    LET q == view[v] IN
    q.stage = "shown" =>
      /\ HourOf(q.at) = HourOf(q.asked)
      /\ Sound(q) => q.floor <= q.total /\ q.total <= Raw(WindowStart(q.at, q.w), q.at)
=============================================================================
