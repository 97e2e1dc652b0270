# PowerBlockade: TLA+ models and proofs

PowerBlockade is a multi-node DNS filter. A primary runs a recursor, an admin UI
(FastAPI, PostgreSQL, an in-process scheduler) and a dnstap-processor; each secondary
runs a recursor, a dnstap-processor and a sync-agent. This directory models the parts in
which several actors share state, checks the models with TLC on small instances, and
proves the main safety properties for all instances with TLAPS.

Paths below are relative to `src/`. `PROJECT.json` maps every definition to its lines.

## 1. Inventory

| Component | State it keeps | Operations | Interacts with |
|---|---|---|---|
| dnstap-processor (`dnstap-processor/`, Go) | protobuf channel, in-memory batch, bbolt bucket keyed by sequence number, counters and gauge | receive, flush, forward, delete, prune, open | recursor and dnsdist (frames), the primary's ingest endpoint |
| ingest and node API (`admin-ui/app/routers/node_sync.py`) | `nodes`, `dns_query_events`, `clients`, `node_metrics`, `node_commands` | register, heartbeat, ingest, metrics, config, commands | sync-agent, dnstap-processor, RPZ files |
| node registry (`routers/nodes.py`, `main.py`) | `nodes` rows, API keys | generate, delete, clear-error, force-sync, bootstrap | transition job, node API |
| scheduler (`services/scheduler.py`) | APScheduler jobs, advisory locks | blocklist update, schedule check, rollup, retention, transitions, local metrics, warming | every table |
| blocklists and RPZ (`routers/blocklists.py`, `services/blocklist_*.py`, `services/rpz.py`) | `blocklists`, `blocklist_entries`, `manual_entries`, two RPZ files | add, toggle, delete, apply, update job, schedule job | reloader, config endpoint |
| emergency controls (`routers/blocking.py`) | `blocking_state` setting, the zone file | disable, pause, enable | the RPZ writers |
| sync-agent (`sync-agent/agent.py`) | last version, last sync time, the secondary's files, SQLite metrics buffer | register, heartbeat, push metrics, sync, poll commands | node API, secondary's recursor |
| command queue (`node_sync.py`, `agent.py`) | `node_commands` rows | queue, claim, report | agent, recursor API |
| cache warming and boot burst (`services/precache.py`, `services/boot_burst.py`) | the TTL of every warmed pair, pacers, counters, last result | boot thread, periodic job, button | recursor, advisory lock, settings |
| rollups and retention (`services/rollups.py`, `services/retention.py`) | `query_rollups`, `dns_query_events` | hourly and daily rollup, deletion of old rows, dashboard sums | ingest, node deletion |
| reloader (`recursor-reloader/reloader.sh`) | the watched directory, a debounce | watch, reload | RPZ files, recursor |
| update CLI (`scripts/pb`) | state file, image tags | update, rollback | Docker |
| audit and rollback (`routers/audit.py`, `services/config_audit.py`) | `config_changes` | record, roll back | settings, lists, zones |
| node packages, analytics pages, prober, sessions, dashboards | no shared protocol state | | |

### Where it is hard

- *Concurrency.* The handlers run in a thread pool, jobs in the scheduler's threads, all
  against one database and the same two files; the ORM writes back only changed columns.
  In the Go processor receivers run beside a main loop that blocks for up to 5 s in a POST.
- *Failure.* Processor and agent can stop anywhere; answers are lost after commits; a
  download, a file read, a transaction or one file of several can fail.
- *Ordering.* Files are written before the transaction they describe is committed; a
  version is read before the bundle it names, and both from two files.
- *Time.* Ages, pauses, schedules, due lists and sync intervals only act when some job
  looks at them.

### What makes each component correct

| Component | Correctness |
|---|---|
| event path | a buffered event is not lost, not stored twice, stored in order, and stored in the end; the counters account for every event |
| node lifecycle | a node is pending until it is heard of, demoted only and always when overdue, and active again when it is heard of |
| RPZ publishing | files say what the database says after a quiet run; an allowed domain is not blocked again by a late writer; disable and pause mean what the page says |
| configuration sync | an unchanged version means unchanged files; files never go back; a secondary converges |
| command queue | a command is closed only after it was executed, in the end it is, and it is repeated only after a fault |
| metrics buffer | no sample is lost, samples are first stored in order, duplicates only after a fault, the buffer drains |
| boot burst | both pacers keep their distance, no pair is warmed by two workers, no send is missing from the counters, the burst ends |
| cache warming | the lock excludes burst and job and is given back, the shortest TTL wins, the reported result is true, top pairs are refreshed |
| rollups, retention, statistics | the rows of a complete hour count its events exactly, a day's rows are the sums of its hours, the dashboard counts nothing twice |

## 2. Modules

| Module | Models | Actions and the code they stand for |
|---|---|---|
| `EventLog` | abstract specification: a durable log | Accept, Store, GiveUp |
| `EventPipeline` | dnstap-processor and `/ingest`, composed | the cases of the `select` (TakeProtobuf, TakeDnstap, Tick, Prune), receiver goroutines (RecvProtobuf), the end of a POST (PostOk, PostFailed, DeleteFailed), the handler (Ingest, IngestFailed, LateIngest), Stop and Open |
| `NodeLifecycle` | `nodes` rows under four handlers, two jobs and the operator | Load (by Send* and, for the scrape of the local node, ScrapeLocal), Commit, Fail; NodeStateTransitionsJob, Restart; Generate, Delete; PowerOff, PowerOn, Pass |
| `RpzPublish` | the three writers of the RPZ files, the edit pages, the emergency controls | UpdateStart, ScheduleCheck, ApplyStart; Fetch, FetchFails; ReadLists, ReadAllow, ReadBlock, ReadEntries; WriteZone, WriteWhite, Commit, Fail; Blocklists*, Entries*; SetBlockingState, WriteEmergencyRpz, EmergencyFailed, BlockingEnable, PauseExpires; FallDue, WindowFlips |
| `ConfigSync` | the agent's loop against heartbeat and config handlers while files are written | Heartbeat, Decide, Fetch, Apply*, their failures, Restart, IntervalPasses; WriteZone, WriteWhite, EditForwardZones |
| `WarmPool` | abstract specification: what a burst promises | Settle, Close |
| `BootBurst` | `run_burst`: pacers, worker threads, retries, counters | Take, ReserveSlot, ReserveQname, Send, Succeed, FailAttempt, Retry for each worker; Finish, Tick |
| `Warming` | boot thread, periodic job and button around the TTL cache and the advisory lock, over the pool of `WarmPool` | Entry, Probe, BootLock, BootSelect, Burst*, BootUnlock; JobStart, JobEnd, JobUnlock; ManualStart, ManualEnd; PassObserve, PassRecord, PassFails; SessionLost, PairAges, SaveSettings, EventsArrive, Restart |
| `Rollups` | rollup runs, with and without the lock, ingest, node deletion, retention | Start, ReadDay, Lookup, Commit, Fail for each run; StoreEvent, DeleteNode, RetainEvents, RetainRollups, RetentionFails, Tick |
| `Dashboard` | `get_dashboard_stats` and its cache, beside `Rollups` | Ask, AskCached, ReadRollups, ReadStartEdge, ReadCurrentEdge, RequestFails; DashTick |
| `AgentQueues` | the sync-agent's loop with its metrics buffer and the node's command queue, composed | Scrape, Post, PostFails, EndPush, Poll, Execute, Report, EndCommands, Prune; Age, LateStore, ClearCache, LateReport, Crash |
| `MC*` | small values for the constants of the module of that name (`MCRollups`: of `Dashboard`) | |
| `*Proofs` | theorems and proofs about the module of that name (`RollupsProofs`: and `Dashboard`) | |

### Abstractions

- *Events* are names: the event id identifies an event, and its age is only "past
  `BUFFER_MAX_AGE`" or not. Whether it was blocked, its latency and its client are left
  out. An undecodable frame never becomes an event.
- A *POST* is the request, what the primary does with it, and its end at the client, as
  separate steps. Requests the client gave up on stay in `late` and may be committed at
  any later time. A failed `Peek` sends nothing and is covered by a tick that fails.
- A *node row* is its status and the age of `last_seen`, saturating above the last
  threshold, because the code only compares ages with thresholds. A handler loads the
  row in one step and commits in another; it writes the status only when the value it
  assigns differs from the one it loaded, as SQLAlchemy does. One request of each kind
  can be in flight per node.
- `heartbeat` subtracts a `last_seen` without time zone from a time with one. On the stale
  and offline branches that raises, so `Commit` is not enabled there and `Fail` is.
- *Lists* are sets of domains. Parsing is abstracted to the choice of a feed. `due` and
  `open` are the comparisons of `last_updated` and of the schedule window with the clock.
  Transactions are read committed: each SELECT of a run (lists, allow entries, block entries,
  the entries of each list) is a step of its own and sees what is committed by then, and
  `Visible` is what it sees after the run's own DELETE and INSERT. `manual_entries.domain` is
  unique, so a domain is allowed or blocked by hand, not both. Row locks between two writers are left out; a wait is a delay, and a
  deadlock that the database breaks is `Fail`.
- *Files* in `ConfigSync` are named by the write that produced them. The render puts a
  serial in every file, so equal contents mean the same write. A file that cannot be read
  is left out of a version (0) and of a bundle (the agent keeps its own).
  `writing` counts the publishers that have written the zone and not yet the whitelist; one
  that dies between the two is one whose second write never comes.
- One secondary is modelled in `ConfigSync`: agents share no state.
- *Times in `BootBurst`* are relative to the clock. A time that has passed by more than
  `Interval + MinInterval` is like any earlier one, so it stops there. A thread may run at any
  time after its wake-up. Jitter is any gap up to `Jitter`.
- `Warming` takes the workers as the abstract pool, which `BootBurst` implements. Pairs are
  ranks. `record_warmed_pair` is two steps, lookup and store, because no lock spans them.
  Whether an entry's age has passed its refresh threshold is a flag that time may set. DNS is
  a TTL or a failure.
- *`Rollups`* counts time in half-hours, which is enough to put a window's edge inside an
  hour. Rows keep their total; the other columns are filled by the same statements. Keys are
  the node, or NULL for events a deleted node left: the unique constraint does not bind the
  latter. A run is taken to end before the hour after the one it started in does. An event is
  stored some `Ages` after it happened. Sums are those of the community module Functions. A
  day is assumed to have more hours than the two that sum up the day before.
- *`Dashboard`*: a request is a lookup of the cache and, if that has nothing, three SELECTs, each
  of which sees what is committed by then. The cache has one entry for each length of the
  window, under a key with the hour in it. That 60 seconds have passed is a choice: an entry
  may be used or dropped at any time of its hour, which allows more than the code does. A
  request lives through at most one half-hour's end. Windows of an hour or less are one SELECT
  of raw events and are left out. `floor` is a history variable: the events of the window that
  were stored when the rows were read, provided that all full hours were rolled up by then.
- *`AgentQueues`* numbers samples and commands in the order they are made. A request the agent
  gives up on is lost, handled with only its answer lost, or handled later. `MaxFaults` bounds
  these and the crashes. A sample a week old has no request left under way.

Operators marked *Mutant* are plausible bugs of the definition that follows. They are
not part of a specification; each shows that some property depends on that definition.

## 3. Runs

Passing runs:

| Run | Checks | Instance |
|---|---|---|
| `event_pipeline` | OneRowPerEvent, StoredIsPrefix, CountersBalance, BufferedUntilStored, ImplementsEventLog | 3 events, 1 refused; batches of 2; channel of 1 |
| `event_pipeline_live` | EventuallyStored | 2 events, batches of 1 |
| `node_lifecycle` | PendingUntilContact, DemotedOnlyWhenOverdue, SilentNodeDemoted, ContactRevives | primary and one secondary, thresholds 0, 1, 2 |
| `rpz_publish` | AllowedStaysClear | update job and Apply, a block list and an allow list, 1 domain, allow entries |
| `rpz_schedule` | QuietPublish, AllowTakesEffect | schedule job and Apply, 1 list that downloads full or empty, allow and block entries, pause |
| `config_sync` | VersionMatchMeansInSync, NeverOlder, SecondaryConverges | 2 writes of each file, 1 zone, 1 edit |
| `boot_burst` | TypeOK, OneWorkerPerPair, SentAccounted, PacersSpaced, ImplementsPool, BurstEnds | 2 workers, 3 pairs of 2 qnames with a repetition, 2 retries, jitter |
| `warming` | TypeOK, OnePassAtATime, LockNotLeaked, ShortestTtlWins, ReportIsHonest, BootReports, TopPairsRefreshed | 2 pairs, 2 TTLs (one within the safety margin), 1 probe before the deadline, 1 query per pass |
| `rollups` | TypeOK, UniqueRows, HourlyExact, DailyHealed, StatsHonest | 2 runs, 2 events, days of 3 hours, the turn of an hour, 1 dashboard request at a time |
| `agent_queues` | TypeOK, NothingLost, RepeatsExplained, ClosedWasExecuted, FirstsInOrder, QueuesDrain | 3 samples in rounds of 2, 2 commands, 2 faults |

The type invariants of `EventPipeline`, `NodeLifecycle`, `RpzPublish` and `ConfigSync` are proved
for every instance (section 4) and are not run.

What the runs show:

- No interleaving of retries, crashes and late commits loses or doubles a buffered event.
- A node is demoted exactly when it should be, however requests overlap with the job.
- An undisturbed publisher leaves files that agree with the database while blocking is on. A
  domain that is allowed and out of the zone stays so once every run that will still write the
  zone has read its entry.
- The version check hides no change from a secondary, and a secondary converges to the last
  files and to the last list of forward zones that is not empty.
- The burst never plans two sends too close, whatever the order in which its workers ask; it
  settles each pair once, in the sense of `WarmPool`, and its summary misses no send.
- The burst and the job never hold the lock together, and only a session that was lost makes
  them overlap. The lock is free when no pass needs it, also after an exception.
- The rows of an hour are exact once a run that nothing overtook has read it, and stay
  so. A run that stops between the hour and the day is repaired by the run an hour later.
- The dashboard, fresh or cached, counts nothing twice and misses no event that was stored
  when it read the rows, provided that the full hours were rolled up.
- The metrics queue gives no sample up before its age does; the command queue closes no
  command that was not executed. Both may repeat work, at most once for each fault.

Two runs end in a violation, a disagreement between code and documentation:

- `node_lifecycle_heartbeat` refutes HeartbeatRevives. The heartbeat of a stale or offline
  node raises, so heartbeats alone never make it active again.
- `rpz_pause` refutes OffStaysEmpty. The page promises that with blocking disabled or paused all
  domains resolve (`templates/index.html:429,445`); `regenerate_rpz` and Apply do not look at
  `blocking_state`, and the next job fills the zone again.

### Seen while modelling

Not the subject of a run:

- The policy asks for quarantine, with a manual exit, of a node that returns after a long
  absence (`docs/NODE_LIFECYCLE_AND_QUARANTINE_POLICY.md:87,103,134-138,158-162`). Only
  heartbeat has such a branch, and there the subtraction raises first; register, metrics and
  ingest set `active` after any absence. The document itself lists the threshold as "Not
  implemented" (line 295), so this is not a finding; ContactRevives claims nothing of absences
  longer than the threshold.
- Nothing writes the zone when a pause ends.
- A run that read the allow entries (`scheduler.py:135`) before one was added, and the entries of
  the lists (`scheduler.py:142`) after, can block the domain again that another run cleared
  meanwhile. AllowedStaysClear therefore counts a domain as cleared only when every run under
  way has read the entry.
- A cached answer of the dashboard misses what was stored since it was computed, for up to 60
  seconds; `admin-ui/tests/test_rollups_service.py` expects so.
- An empty list of forward zones is not written by the agent (`agent.py:308`), so the last
  zone stays on the secondary after it is deleted (`docs/GETTING_STARTED.md:514`).
- `BUFFER_MAX_BYTES` is stored and never read. Pruning does not refresh the pending gauge
  (CountersBalance shows that it never understates).
- A handler that loaded `active` can leave a `stale` that the job wrote meanwhile next to a
  fresh `last_seen`.
- The advisory lock's id comes from `hash()`, which differs between processes: two admin-ui
  processes do not exclude each other, although the docstring at `scheduler.py:42` says so.
- When the session that holds the lock is lost, the unlock raises, and a burst that completed
  is reported as `skipped-lock`. ReportIsHonest is about bursts that kept their session.
- "Shortest TTL ever observed wins" (`precache.py:260`) fails for a pair that two passes
  record at the same moment. ShortestTtlWins leaves out exactly those pairs.
- The pacer's ceiling holds for planned slots. The wait for the qname comes after the
  slot, so sends of different qnames can bunch up.
- Pairs ranked below the ceiling of a pass can be left due for ever while the first ones keep
  expiring. TopPairsRefreshed is about the ranks within it.
- Events that arrive after their hour was rolled up are in no rollup until someone runs it
  again, and the dashboard misses the previous hour until five past.
- POST `/jobs/rollup` takes no lock. Next to the job it can add a second row for a NULL key,
  after which every later run of that hour raises MultipleResultsFound.
- Deleting a node deletes its rollups and keeps its events, with a NULL node.
- `retention_rollups_days = 1` deletes hourly rows of the day that the next daily run sums up.
- A command whose execution failed is closed all the same. `clear_cache` queues commands for
  active nodes only (`blocking.py:199`), so a stale secondary keeps its cache.
- The agent's own warming (`agent.py:234`) runs in its loop and delays heartbeats.

### Bounds

- Three events with batches of two give a full batch, a partial one, a backlog longer
  than a request and a refused event among accepted ones. A channel of one is full after
  one event. Longer backlogs repeat these situations at other keys. The liveness run has
  a backlog of two requests of one event each.
- Thresholds 0, 1, 2 are the smallest distinct ones, and ages go to 3, so every order of age
  and threshold occurs. The secondary and the primary's own node differ in what acts on them; two
  secondaries would not interact.
- One domain is enough for the RPZ properties: each is about one domain at a time, and the
  set operations act on each domain alone. Two lists are used where an allow list and a
  block list meet. Each run has two of the three writers, so that one can read while the other
  writes; the theorems cover all three. `rpz_pause` needs one writer.
- `MaxWrites = 2` lets a write fall between any two reads of a version or a bundle and leaves
  another for after it, and two publishers overlap.
- `rpz_schedule` has the request to pause and `rpz_pause` that to disable, the same action with
  another value.
- `boot_burst`: two workers and a pair listed twice can meet on a pair; two pairs of a qname
  meet in its pacer while a third passes; a slot, a qname wait and a backoff of different
  lengths give every order of wake-ups.
- `warming`: two pairs let one be raced and the other not. With one query per pass the second
  pair is below the ceiling. A burst of several pairs, and so a `partial` one, is beyond this
  instance; BurstReportHonest covers it, and the pool with three pairs is `boot_burst`.
- `rollups`: days of three hours are the smallest with both hours that sum up the day before
  and one that does not. The clock goes from the last half-hour of a day's first hour into its
  second. Events are stored two or four half-hours after they happened, which puts them in the
  raw edge at the start of the window, in its full hour, and in its current edge. Two runs
  overlap or follow each other. A request that reads the tables begins in the first half-hour
  (`LastAsk`) and may end in the next, and its cached answer may be asked for.
- `agent_queues`: three samples are more than a round of two; two faults let an answer be
  lost and the agent crash before it is repeated.

### Fairness

- `EventPipeline`: weak for Open (`restart: unless-stopped`) and PostFailed (the client's 5 s
  timeout). Strong for Tick, Ingest and PostOk: the ticker fires whenever the loop is free,
  and the primary is assumed not to be unreachable for ever.
- `NodeLifecycle`: weak for the transition job, which runs every minute. `HeartbeatSpec`
  adds that heartbeats are sent and served; `ContactRevives` states its own premise.
- `RpzPublish`: none. Edits are published by Apply, so `AllowTakesEffect` has its own premise:
  Apply writes the zone again and again. Nothing is assumed of the jobs.
- `ConfigSync`: weak for the loop (`restart: unless-stopped`) and the interval; strong for the
  steps of a sync. Nothing is assumed of the publishers, whose second write may never come.
  `ReadErrorsEnd` assumes that the primary's files do not fail to be read
  again and again for ever; without it a sync need never be complete.

- `BootBurst`: weak for each worker, the end of the pool and the clock. Every send has a 5 s
  timeout.
- `Warming`: weak for the steps of the boot thread and of a pass under way; every send and
  probe has a timeout. Strong for the start of the job with something to do: it fires every
  five minutes and finds the lock free again and again. BootReports has its own premise that
  the process is not restarted for ever. Nothing is assumed of the button.
- `AgentQueues`: weak for the loop, which swallows every exception and whose calls have
  timeouts. Faults are bounded, which stands for "the faults end".
- `Rollups` states no liveness: a run that fails is not repeated before the next hour.

Deadlock checking is on in every run.

## 4. Proofs

Each proof has the form Init => IInv, IInv /\ [Next]_vars => IInv', IInv => property, with
one step per action.

| Module | Inductive invariant | Theorems |
|---|---|---|
| `EventPipelineProofs` | TypeOK, KeysUpToSeq, SentIsPrefix, AckedIsStored, OneRowPerEvent | TypeCorrect, EventsStoredOnce, NoBufferedEventLost |
| | on top of it Fresh, Traced, LateIsPrefix, StoredIsPrefix | StoredInOrder, RefinesEventLog |
| | on top of it DownIsEmpty, CountersBalance | CountersAccount |
| `NodeLifecycleProofs` | TypeOK, PendingUntilContact, LoadedNotAhead, LocalSeen | TypeCorrect, PendingExactlyUntilContact, NoSpuriousDemotion |
| `RpzPublishProofs` | TypeOK, Undisturbed, QuietRest, QuietTables | TypeCorrect, QuietRunPublishes, AllowedNeverBlockedAgain |
| `ConfigSyncProofs` | TypeOK, Ordered | TypeCorrect, VersionCheckSound, FilesNeverOlder |
| `WarmingProofs` | TypeOK, LockHeld, ReportReady; TtlTracked on top of them | TypeCorrect, LockExcludes, LockGivenBack, BurstReportHonest, ShortestTtlKept |
| `BootBurstProofs` | TypeOK, AttemptsLeft, BusyPairs, HandedOut, ResultsKept, InFlightCounts | TypeCorrect, PairsNotShared, RefinesWarmPool |
| | SlotAhead for the pacer, SentAccounted, each on top of it | PacersKeepDistance, SendsAccounted |
| `AgentQueuesProofs` | Types, RoundOnly, AckedStored, NothingLost, Oldest, Executed | NoSampleLost, ClosedCommandsRan, SamplesFirstStoredInOrder |
| | on top of it Bounds, SamplesAccounted, CommandsAccounted | TypeCorrect, RepetitionsExplained |
| `RollupsProofs` | Types, Shape, and the bound of the stored events | TypeCorrect |
| | Types, Shape, Alone, Overlap, LookedFresh, UniqueRows | RowsUnique |
| | on top of it GotAtMost, GotExact, RecentRows, CleanExact | HoursExact |
| | on top of that RowsAtMost, DashTypes, ViewsOK, EntriesOK | DashboardReads, DashboardHonest |
| | on top of RowsUnique's: DayPositive, DayGot, HealedPast, WritesLater, HealedExact | DaysHealed |

Why the strengthenings are needed:

- `KeysUpToSeq`: without it PutBatch could overwrite a pending key. `Open` restores it because
  the sequence goes on from the last key. `SentIsPrefix`: Delete removes a range, which is
  what was sent only if the request was a prefix of the bucket. `AckedIsStored` connects the
  answer with the rows.
- `LoadedNotAhead`: a handler that does not write the status leaves whatever the row has by
  then. That it is not `pending` follows from what the handler loaded.
- `Undisturbed` says what an undisturbed run has read at each of its steps in terms of the
  current database, SELECT by SELECT, and `QuietRest` that nothing else is in flight when the
  files are clean. `QuietTables` is QuietPublish for the tables alone, without `blocking_state`,
  which changes without anyone writing the files.
- `Ordered`: as many zones are ahead of the whitelist as publishers are between their writes; version heard, then bundle fetched, then primary, in time order, file by file.
  It turns "the version is current" into "the bundle was current".
- `LockHeld`: a pass in the locked section has the lock or has lost its session. Mutual
  exclusion alone does not say who holds the lock. `ReportReady` carries, from the end of the
  pool to the unlock, that the status was computed from final outcomes. `TtlTracked` says
  where the shortest TTL is between the two steps of `record_warmed_pair`.
- `AckedStored`: rows are deleted because they were acknowledged, so acknowledged must mean
  stored. `Oldest`: every post, also one still under way, was made when all older samples
  were settled. `Executed`: a report under way is of a command that ran, and `RoundOnly` keeps
  `executed` from leaking into the next poll.

- `Fresh`, `Traced`: an event is in one place on its way to the disk, so it gets one key; only
  what was on disk is stored. `LateIsPrefix`: a request that was given up was a prefix of the
  bucket when it was sent, and what the bucket got or lost since keeps it one. That is why it
  may be committed at any time without leaving a gap.
- `HandedOut`: the pairs behind the pool's position are open and with nobody, those in front of
  it are settled or with one worker. `AttemptsLeft` says that a thread on its way to a send has
  one left. `SlotAhead`: the time at which the pacer's next slot is free is an interval
  after the last one given, also after the clock went past it.
- `SamplesAccounted`, `CommandsAccounted`: the rows of a sample together with its posts still
  under way are at most the faults, and one more once a post was acknowledged. While a sample
  is still to be posted again it has had no free one. Executions are counted in the same way,
  where the free one is about to be reported or has closed the command.
- `Alone` and `Overlap`: a run that nothing overtook in the phase of its hour is the only one,
  and the buckets of two runs under way are excused. From them `LookedFresh`: what an
  undisturbed run found is what its commit meets, so UPDATE and INSERT leave one row.
- `Shape`: a run began in this hour or the last. With a day of at least three hours
  its hour is out of retention's reach, so that what it counted (`GotAtMost`, `GotExact`) stays
  true until something overtakes it. `RecentRows`: a row of a recent hour stands for an event,
  so a run that counts nothing has no row to correct.
- `HealedPast`, `WritesLater`: when a day is healed, the clock is past its last hour and no run
  still under way writes one of its hours, other than in an excused bucket. `DayGot`: what a run
  has summed up is still the sum when it commits.

`RollupsProofs` needs facts about sums over finite sets that no installed library states. Its
first part derives them from the recursion by which Functions defines a sum, by induction over
the sizes of the subsets. The induction is stated with sets of numbers, because a theorem with
an operator for a parameter cannot be used. `Dashboard` adds steps that leave the tables alone, so
every theorem about `Spec` holds beside it (DashboardReads). For DashboardHonest the window is
split into raw edge, full hours and raw edge, and the events of the full hours are counted by
ticks and by hours. `ViewsOK` bounds what a request has summed up after each of its SELECTs, from
below by what was stored when it read the rows and from above by what is stored now: the events
of a window only grow while it is not past retention, so a later SELECT, a later request and the
cached entry (`EntriesOK`) keep both bounds.

Assumptions are those of the modules: a positive batch size, capacities and bounds that
are natural numbers, increasing thresholds, sets of lists that are subsets of the lists,
markers (`None`, `Never`) that are not data. TLC evaluates them in every run.

The strengthenings of `EventPipeline`, `BootBurst`, `AgentQueues` and `Rollups` hold in TLC on the
instances of their runs as well.

Only model-checked: the liveness properties (EventuallyStored, SilentNodeDemoted,
ContactRevives, AllowTakesEffect, SecondaryConverges, BurstEnds, BootReports,
TopPairsRefreshed, QueuesDrain). Liveness under fairness and ENABLED are outside of what the
prover does. Every invariant, action property and refinement that a passing run checks is also
a theorem.

## 5. Not modelled

- Lock ids of several admin-ui processes: `Warming` has one process; see above for `hash()`.
- Reloader: a shell loop around `inotifywait` and `rec_control`. What it does when events are
  dropped depends on those tools.
- Update CLI: a shell script that one operator runs. Its state is the Docker engine's.
- Audit rollback: each is one transaction of one request; planned, see below.
- Node packages: files rendered from a request. Analytics and query log: read-only queries.
- A secondary's own warming: it sends queries and keeps no state. It only delays the loop,
  which the models allow at any step.
- Retention of `node_metrics`, `backfill_hourly_rollups` (no caller), force-sync (a counter
  nobody reads).
- Row locks and deadlocks between writers: the database aborts one, which is `Fail`.
- Client names and groups, pages, sessions, CSRF, the prober: form handling, rendering and
  counters, without a protocol of their own.
- Dashboards, alert rules, compose files: data. Restart policies appear as fairness.
- The unsynchronised RPZ sets in the processor (`loadSets` is called by receivers and by the
  main loop): they decide only whether an event is marked blocked, which is left out.
- Errors of a node: nothing sets the status `error`, so clear-error has nothing to clear.

## 6. Plan

Written so far, in this order: event path, node lifecycle, RPZ publishing, configuration
sync; boot burst and warming, rollups and retention, the agent's queues. Next, most
important first:

1. Lemmas towards the liveness properties: the step facts from which they follow, as action
   properties (what an undisturbed round of the agent, or a tick of the processor, achieves).
2. `ConfigAudit`: rollback of one change against later changes of the same object.
3. Pure operators: the schedule window across midnight, version compatibility,
   classification of names against RPZ sets, checked against reference definitions.
