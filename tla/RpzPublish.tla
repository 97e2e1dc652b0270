----------------------------- MODULE RpzPublish -----------------------------
(***************************************************************************)
(* How the primary turns blocklists and manual entries into the two RPZ    *)
(* files the recursor serves, blocklist-combined.rpz and whitelist.rpz.    *)
(*                                                                         *)
(* Three writers run in threads of their own: the blocklist_update job,    *)
(* the blocklist_schedule job and the operator's Apply.  Each reads the    *)
(* database in several SELECTs, each of which sees what is committed by    *)
(* then (READ COMMITTED), writes one file, writes the other and commits;   *)
(* nothing orders the writers among each other, nor with the operator's    *)
(* edits and the emergency controls (disable, enable, pause).              *)
(***************************************************************************)
EXTENDS Naturals

CONSTANTS
  Writers,     \* the writers that run: "update", "schedule", "apply"
  Lists,       \* blocklist subscriptions
  AllowLists,  \* those with list_type "allow"
  AutoUpdated, \* those with update_frequency_hours > 0
  Scheduled,   \* those with schedule_enabled
  Domains,
  Feeds,       \* what a download of a list can parse to
  EntryTypes,  \* the entry types the operator edits: "allow", "block"
  Requests     \* the emergency requests: "disabled" (disable), "paused" (pause)

ASSUME WritersAssumption == Writers \subseteq {"update", "schedule", "apply"}
ASSUME ListsAssumption ==
  AllowLists \subseteq Lists /\ AutoUpdated \subseteq Lists /\ Scheduled \subseteq Lists
ASSUME FeedsAssumption == Feeds \subseteq SUBSET Domains
ASSUME OperatorAssumption ==
  EntryTypes \subseteq {"allow", "block"} /\ Requests \subseteq {"disabled", "paused"}

VARIABLES
  list,     \* the blocklists table: "none", "on", "off" or "deleted"
  entries,  \* blocklist_entries per list
  manual,   \* manual_entries: the allowed and the blocked domains
  due,      \* lists whose update_frequency_hours have passed
  open,     \* scheduled lists whose window the clock is in
  state,    \* blocking_state: "enabled", "disabled", "paused", or "expired" for
            \* a pause whose end has passed
  emergency,  \* a disable or pause request has set the state, not yet the file
  zone,     \* blocklist-combined.rpz
  white,    \* whitelist.rpz
  job,      \* the writers
  clean     \* history: the files were last written by an undisturbed writer and
            \* nothing was edited since

vars == <<list, entries, manual, due, open, state, emergency, zone, white, job,
          clean>>
config == <<list, entries, manual>>
files == <<zone, white>>

NoRows == [l \in Lists |-> {}]
Idle == [pc |-> "idle", left |-> {}, tried |-> {}, loaded |-> {}, got |-> NoRows,
         base |-> NoRows, blocked |-> {}, allow |-> {}, alone |-> FALSE]

\* A writer's run: its stage, the lists still to be downloaded or read, those it
\* has tried to download and those it has, what they parsed to, the rows it
\* deleted for them, and what it has collected to write.
Jobs == [pc : {"idle", "fetch", "lists", "allow", "block", "entries", "read", "zoned", "done"},
         left : SUBSET Lists, tried : SUBSET Lists, loaded : SUBSET Lists,
         got : [Lists -> SUBSET Domains], base : [Lists -> SUBSET Domains],
         blocked : SUBSET Domains, allow : SUBSET Domains,
         alone : BOOLEAN]          \* history: nothing disturbed the run so far

TypeOK ==
  /\ list \in [Lists -> {"none", "on", "off", "deleted"}]
  /\ entries \in [Lists -> SUBSET Domains]
  /\ manual \in [allow : SUBSET Domains, block : SUBSET Domains]
  /\ due \subseteq AutoUpdated
  /\ open \subseteq Scheduled
  /\ state \in {"enabled", "disabled", "paused", "expired"}
  /\ emergency \in BOOLEAN
  /\ zone \subseteq Domains
  /\ white \subseteq Domains
  /\ clean \in BOOLEAN
  /\ job \in [Writers -> Jobs]

Init ==
  /\ list = [l \in Lists |-> "none"]
  /\ entries = NoRows
  /\ manual = [allow |-> {}, block |-> {}]
  /\ due = {}
  /\ open = {}
  /\ state = "enabled"
  /\ emergency = FALSE
  /\ zone = {}
  /\ white = {}
  /\ job = [w \in Writers |-> Idle]
  /\ clean = FALSE

-----------------------------------------------------------------------------
(* What a transaction sees *)

Exists(l) == list[l] \in {"on", "off"}
Enabled == {l \in Lists : list[l] = "on"}

\* Entries of list l for the transaction of run j: its own rows, and rows others
\* committed after its DELETE.
Visible(l, j) ==
  IF l \in j.loaded THEN j.got[l] \cup (entries[l] \ j.base[l]) ELSE entries[l]

\* Mutant: the allowed domains are not subtracted.
EffectiveAll(blocked, allow) == blocked
Effective(blocked, allow) == blocked \ allow

-----------------------------------------------------------------------------
(* The writers *)

\* Nothing else that writes the files or the configuration is in flight.
NoOther(w) == ~emergency /\ \A v \in Writers \ {w} : job[v].pc = "idle"

\* A writer starts or the configuration is edited: no run in flight is alone.
Disturbed(j) == [j EXCEPT !.alone = FALSE]
DisturbAll == [v \in Writers |-> Disturbed(job[v])]

Start(w, pc, left) ==
  /\ w \in Writers /\ job[w].pc = "idle"
  /\ job' = [v \in Writers |->
       IF v = w THEN [Idle EXCEPT !.pc = pc, !.left = left,
                                  !.alone = NoOther(w) /\ pc # "done"]
       ELSE Disturbed(job[v])]
  /\ clean' = FALSE

\* A writer goes on to run j; the shared state is left alone.
Step(w, j) ==
  /\ job' = [job EXCEPT ![w] = j]
  /\ UNCHANGED <<config, due, open, state, emergency, files, clean>>

\* What follows when the lists S are still to be downloaded: Apply writes what
\* it downloaded; the update job regenerates, unless every download failed.
AfterFetch(w, S, loaded) ==
  CASE S # {} -> "fetch"
    [] S = {} /\ w = "apply" -> "read"
    [] S = {} /\ w # "apply" -> IF loaded = {} THEN "done" ELSE "lists"

\* update_blocklists_job reads the lists that are due.
UpdateStart ==
  LET S == Enabled \cap AutoUpdated \cap due IN
  /\ Start("update", AfterFetch("update", S, {}), S)
  /\ UNCHANGED <<config, due, open, state, emergency, files>>

\* run_schedule_check: the new enabled states are committed first.
Rescheduled(l) ==
  IF l \in Scheduled /\ Exists(l) THEN (IF l \in open THEN "on" ELSE "off") ELSE list[l]
ScheduleCheck ==
  LET new == [l \in Lists |-> Rescheduled(l)] IN
  /\ new # list
  /\ list' = new
  /\ Start("schedule", "lists", {})
  /\ UNCHANGED <<entries, manual, due, open, state, emergency, files>>

\* blocklists_apply reads the enabled lists.
ApplyStart ==
  /\ Start("apply", "allow", Enabled)
  /\ UNCHANGED <<config, due, open, state, emergency, files>>

\* The run of w has list l behind it.
Past(w, l) == [job[w] EXCEPT !.left = @ \ {l}]

\* List l is downloaded and its entries are replaced.  Apply collects what it
\* downloads.
Fetch(w, l, feed) ==
  LET j == Past(w, l) IN
  /\ job[w].pc = "fetch" /\ l \in job[w].left
  /\ Step(w, [j EXCEPT !.pc = AfterFetch(w, j.left, j.loaded \cup {l}),
                       !.tried = @ \cup {l}, !.loaded = @ \cup {l},
                       !.got[l] = feed, !.base[l] = entries[l],
                       !.blocked = IF w = "apply" /\ l \notin AllowLists THEN @ \cup feed ELSE @,
                       !.allow = IF w = "apply" /\ l \in AllowLists THEN @ \cup feed ELSE @])

\* The download fails: Apply collects nothing of the list, though its entries
\* stay; the update job goes on with the others.
FetchFails(w, l) ==
  LET j == Past(w, l)
      pc == AfterFetch(w, j.left, j.loaded)
  IN
  /\ job[w].pc = "fetch" /\ l \in job[w].left
  /\ Step(w, [j EXCEPT !.pc = pc, !.tried = @ \cup {l},
                       !.alone = @ /\ w # "apply" /\ pc # "done"])

\* Mutant: the lists that are switched off are read too.
ReadListsAll(w) ==
  /\ job[w].pc = "lists"
  /\ Step(w, [job[w] EXCEPT !.pc = "allow", !.left = {l \in Lists : Exists(l)}])
\* regenerate_rpz is a SELECT of the enabled lists ...
ReadLists(w) ==
  /\ job[w].pc = "lists"
  /\ Step(w, [job[w] EXCEPT !.pc = "allow", !.left = Enabled])

\* ... one of the allow entries and one of the block entries, as in Apply ...
ReadAllow(w) ==
  /\ job[w].pc = "allow"
  /\ Step(w, [job[w] EXCEPT !.pc = "block", !.allow = manual.allow])

AfterBlock(w, S) ==
  CASE w = "apply" -> AfterFetch(w, S, {})
    [] w # "apply" -> IF S = {} THEN "read" ELSE "entries"
ReadBlock(w) ==
  /\ job[w].pc = "block"
  /\ Step(w, [job[w] EXCEPT !.pc = AfterBlock(w, job[w].left), !.blocked = manual.block])

\* ... and one of the entries of each list.
ReadEntries(w, l) ==
  LET j == Past(w, l) IN
  /\ job[w].pc = "entries" /\ l \in job[w].left
  /\ Step(w, [j EXCEPT !.pc = AfterBlock(w, j.left),
                       !.blocked = IF l \in AllowLists THEN @ ELSE @ \cup Visible(l, j),
                       !.allow = IF l \in AllowLists THEN @ \cup Visible(l, j) ELSE @])

WriteZone(w) ==
  /\ job[w].pc = "read"
  /\ zone' = Effective(job[w].blocked, job[w].allow)
  /\ job' = [job EXCEPT ![w].pc = "zoned"]
  /\ UNCHANGED <<config, due, open, state, emergency, white, clean>>

WriteWhite(w) ==
  /\ job[w].pc = "zoned"
  /\ white' = job[w].allow
  /\ job' = [job EXCEPT ![w].pc = "done"]
  /\ UNCHANGED <<config, due, open, state, emergency, zone, clean>>

\* The transaction commits: UPDATEs need their rows, INSERTs need (domain, list)
\* to be new.  last_updated is set for a failed download too.
Commit(w) ==
  LET j == job[w] IN
  /\ j.pc = "done"
  /\ \A l \in j.tried : Exists(l)
  /\ \A l \in j.loaded : (entries[l] \ j.base[l]) \cap j.got[l] = {}
  /\ entries' = [l \in Lists |-> Visible(l, j)]
  /\ due' = due \ j.tried
  /\ job' = [job EXCEPT ![w] = Idle]
  /\ clean' = j.alone
  /\ UNCHANGED <<list, manual, open, state, emergency, files>>

\* An exception, or the process dies: rolled back, whatever was written stays.
Fail(w) ==
  /\ job[w].pc # "idle"
  /\ Step(w, Idle)

-----------------------------------------------------------------------------
(* The operator's pages: none of them regenerates the files *)

Edit ==
  /\ job' = DisturbAll
  /\ clean' = FALSE
  /\ UNCHANGED <<due, open, state, emergency, files>>

BlocklistsAdd(l) ==
  /\ list[l] = "none"
  /\ list' = [list EXCEPT ![l] = "on"]
  /\ due' = due \cup ({l} \cap AutoUpdated)
  /\ job' = DisturbAll
  /\ clean' = FALSE
  /\ UNCHANGED <<entries, manual, open, state, emergency, files>>

BlocklistsToggle(l) ==
  /\ Exists(l)
  /\ list' = [list EXCEPT ![l] = IF @ = "on" THEN "off" ELSE "on"]
  /\ UNCHANGED <<entries, manual>>
  /\ Edit

\* The entries go with their list (ON DELETE CASCADE).
BlocklistsDelete(l) ==
  /\ Exists(l)
  /\ list' = [list EXCEPT ![l] = "deleted"]
  /\ entries' = [entries EXCEPT ![l] = {}]
  /\ UNCHANGED manual
  /\ Edit

\* manual_entries.domain is unique: a domain that has an entry is refused.
EntriesAdd(d, type) ==
  /\ d \notin manual.allow \cup manual.block
  /\ manual' = [manual EXCEPT ![type] = @ \cup {d}]
  /\ UNCHANGED <<list, entries>>
  /\ Edit

EntriesDelete(d, type) ==
  /\ d \in manual[type]
  /\ manual' = [manual EXCEPT ![type] = @ \ {d}]
  /\ UNCHANGED <<list, entries>>
  /\ Edit

-----------------------------------------------------------------------------
(* The emergency controls *)

\* blocking_disable and blocking_pause: set_setting commits the state ...
SetBlockingState(s) ==
  /\ ~emergency
  /\ state' = s
  /\ emergency' = TRUE
  /\ job' = DisturbAll
  /\ clean' = FALSE
  /\ UNCHANGED <<config, due, open, files>>

\* ... and _write_emergency_rpz empties the zone, or raises.
WriteEmergencyRpz ==
  /\ emergency
  /\ emergency' = FALSE
  /\ zone' = {}
  /\ UNCHANGED <<config, due, open, state, white, job, clean>>
EmergencyFailed ==
  /\ emergency
  /\ emergency' = FALSE
  /\ UNCHANGED <<config, due, open, state, files, job, clean>>

\* blocking_enable sets the state and leaves the files to a later Apply.
BlockingEnable ==
  /\ state # "enabled"
  /\ state' = "enabled"
  /\ UNCHANGED <<config, due, open, emergency, files, job, clean>>

\* The end of a pause is a time in the setting; nothing runs when it comes.
PauseExpires ==
  /\ state = "paused"
  /\ state' = "expired"
  /\ UNCHANGED <<config, due, open, emergency, files, job, clean>>

\* The clock: a list falls due, a schedule window opens or closes.
FallDue(l) ==
  /\ l \in AutoUpdated \ due /\ Exists(l)
  /\ due' = due \cup {l}
  /\ UNCHANGED <<config, open, state, emergency, files, job, clean>>
WindowFlips(l) ==
  /\ l \in Scheduled
  /\ open' = IF l \in open THEN open \ {l} ELSE open \cup {l}
  /\ UNCHANGED <<config, due, state, emergency, files, job, clean>>

Operator ==
  \/ \E l \in Lists : BlocklistsAdd(l) \/ BlocklistsToggle(l) \/ BlocklistsDelete(l)
  \/ \E d \in Domains : \E t \in EntryTypes : EntriesAdd(d, t) \/ EntriesDelete(d, t)
Controls ==
  \/ \E s \in Requests : SetBlockingState(s)
  \/ WriteEmergencyRpz \/ EmergencyFailed
  \/ BlockingEnable \/ PauseExpires
Publish ==
  \/ UpdateStart \/ ScheduleCheck \/ ApplyStart
  \/ \E w \in Writers :
       \/ \E l \in Lists :
            FetchFails(w, l) \/ ReadEntries(w, l) \/ \E feed \in Feeds : Fetch(w, l, feed)
       \/ ReadLists(w) \/ ReadAllow(w) \/ ReadBlock(w)
       \/ WriteZone(w) \/ WriteWhite(w) \/ Commit(w) \/ Fail(w)
Clock == \E l \in Lists : FallDue(l) \/ WindowFlips(l)

Next == Operator \/ Controls \/ Publish \/ Clock
Spec == Init /\ [][Next]_vars
-----------------------------------------------------------------------------
(* Properties *)

\* _is_blocking_active: "disabled", or a pause that has not ended.
BlockingOff == state \in {"disabled", "paused"}

\* What the committed lists and entries ask for, and nothing is blocked while
\* blocking is off.
WantedAllow == manual.allow \cup UNION {entries[l] : l \in Enabled \cap AllowLists}
WantedBlock == manual.block \cup UNION {entries[l] : l \in Enabled \ AllowLists}
WantedZone == IF BlockingOff THEN {} ELSE Effective(WantedBlock, WantedAllow)

(***************************************************************************)
(* While blocking is on, a writer that nothing disturbed leaves files that *)
(* say what the committed database says, although it reads in several      *)
(* SELECTs and writes before its commit: the two ways to build the zone,   *)
(* blocklists_apply from the downloads and regenerate_rpz from the stored  *)
(* entries, agree when no download of Apply fails.  While it is off they   *)
(* do not: see OffStaysEmpty.                                              *)
(***************************************************************************)
QuietPublish ==
  clean => white = WantedAllow /\ (~BlockingOff => zone = WantedZone)

(***************************************************************************)
(* "DISABLE blocking completely? All domains will resolve normally until   *)
(* you re-enable." (templates/index.html): once a disable or pause request *)
(* has emptied the zone, no writer fills it before blocking is on again.   *)
(* The writers do not look at blocking_state and fill it.                  *)
(***************************************************************************)
OffStaysEmpty ==
  [][BlockingOff /\ ~emergency /\ zone = WantedZone /\ state' = state
       => zone' = WantedZone']_vars

\* A run that has read the allow entries and is yet to write the zone.
Collecting(w) ==
  \/ job[w].pc \in {"block", "entries", "read"}
  \/ w = "apply" /\ job[w].pc = "fetch"

\* Domain d is allowlisted, not served as blocked, and every run that is past
\* its SELECT of the allow entries and will still write the zone has seen d
\* among them.
Cleared(d) ==
  /\ d \in manual.allow
  /\ d \notin zone
  /\ \A w \in Writers : Collecting(w) => d \in job[w].allow

(***************************************************************************)
(* A manually allowed domain that is once clear stays clear for as long as *)
(* its entry stays, whichever writers run, fail or overlap and whatever    *)
(* entries they see later: each of them subtracts the allow entries it     *)
(* read.  A run that read them before the entry was added can still block  *)
(* the domain after another run cleared it, as nothing orders the writers: *)
(* such a domain is not yet clear.                                         *)
(***************************************************************************)
AllowedStaysClear ==
  [][\A d \in Domains : Cleared(d) /\ d \in manual'.allow => Cleared(d)']_vars

(***************************************************************************)
(* An allow entry takes effect: if Apply is pressed again and again and    *)
(* not every one of them fails before it writes the zone, the domain       *)
(* leaves the zone, even if runs that read the database earlier put it     *)
(* back meanwhile.  Nothing is asked of the jobs, which can only get in    *)
(* the way.                                                                *)
(***************************************************************************)
AllowTakesEffect ==
  []<><<WriteZone("apply")>>_vars =>
    \A d \in Domains : d \in manual.allow ~> d \notin zone \/ d \notin manual.allow
=============================================================================
