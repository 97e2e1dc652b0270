-------------------------- MODULE RpzPublishProofs --------------------------
(***************************************************************************)
(* Proofs about RpzPublish, for any lists, domains, feeds and writers.     *)
(***************************************************************************)
EXTENDS RpzPublish, TLAPS

-----------------------------------------------------------------------------
(* The invariant *)

\* What run j has collected once it has the lists S behind it.
AllowedFrom(j, S) == manual.allow \cup UNION {Visible(l, j) : l \in S \cap AllowLists}
BlockedFrom(j, S) == manual.block \cup UNION {Visible(l, j) : l \in S \ AllowLists}

\* The run is past its SELECT of the allow entries, of the block entries.
HasAllow(w, j) ==
  \/ j.pc \in {"block", "entries", "read", "zoned", "done"}
  \/ w = "apply" /\ j.pc = "fetch"
HasBlock(w, j) == HasAllow(w, j) /\ j.pc # "block"

(***************************************************************************)
(* The run of an undisturbed writer: the rows it has replaced are still    *)
(* there for everyone else, Apply has downloaded every list behind it, and *)
(* what was collected, in whichever SELECTs, is what one look at the       *)
(* transaction's view of the lists behind it would collect now.            *)
(***************************************************************************)
Sound(w, j) ==
  /\ j.left \subseteq Enabled
  /\ \A l \in j.loaded : j.base[l] = entries[l]
  /\ w = "apply" => j.loaded = Enabled \ j.left /\ j.pc \notin {"lists", "entries"}
  /\ j.pc \in {"allow", "block"} => j.left = Enabled
  /\ j.pc \in {"read", "zoned", "done"} => j.left = {}
  /\ HasAllow(w, j) => j.allow = AllowedFrom(j, Enabled \ j.left)
  /\ HasBlock(w, j) => j.blocked = BlockedFrom(j, Enabled \ j.left)

\* It is also the only run, and the files it has written are its own.
RunOK(w) ==
  job[w].alone =>
    LET j == job[w] IN
    /\ j.pc # "idle" /\ NoOther(w)
    /\ Sound(w, j)
    /\ j.pc \in {"zoned", "done"} => zone = Effective(j.blocked, j.allow)
    /\ j.pc = "done" => white = j.allow
Undisturbed == \A w \in Writers : RunOK(w)

\* Files that are known to be right have no writer in flight ...
QuietRest == clean => ~emergency /\ \A w \in Writers : job[w].pc = "idle"

\* ... and say what the tables say, whether blocking is on or off.
QuietTables == clean => zone = Effective(WantedBlock, WantedAllow) /\ white = WantedAllow

IInv == TypeOK /\ Undisturbed /\ QuietRest /\ QuietTables

-----------------------------------------------------------------------------
(* Facts about the operators *)

\* The idle record has no lists and is not a run of its own.
LEMMA IdleFacts ==
  Idle \in Jobs /\ Idle.pc = "idle" /\ Idle.alone = FALSE
  <1>1. NoRows \in [Lists -> SUBSET Domains]
    BY DEF NoRows
  <1> QED BY <1>1 DEF Idle, Jobs

\* Disturbing a run changes nothing but its history.
LEMMA DisturbFacts ==
  ASSUME NEW r \in Jobs
  PROVE  /\ Disturbed(r) \in Jobs /\ Disturbed(r).alone = FALSE
         /\ Disturbed(r).pc = r.pc /\ Disturbed(r).allow = r.allow
  BY DEF Jobs, Disturbed

\* A transaction sees domains.
LEMMA VisibleFacts ==
  ASSUME TypeOK, NEW j \in Jobs, NEW l \in Lists
  PROVE  /\ Visible(l, j) \subseteq Domains
         /\ l \notin j.loaded => Visible(l, j) = entries[l]
         /\ l \in j.loaded /\ j.base[l] = entries[l] => Visible(l, j) = j.got[l]
  BY DEF TypeOK, Visible, Jobs

\* Disturbing all writers leaves them well-typed and none of them alone.
LEMMA DisturbAllFacts ==
  ASSUME TypeOK, job' = DisturbAll
  PROVE  /\ job' \in [Writers -> Jobs]
         /\ \A w \in Writers : /\ job'[w].alone = FALSE /\ job'[w].pc = job[w].pc
                               /\ job'[w].allow = job[w].allow
  <1>1. \A w \in Writers : job[w] \in Jobs /\ job'[w] = Disturbed(job[w])
    BY DEF DisturbAll, TypeOK
  <1> QED BY <1>1, DisturbFacts DEF DisturbAll

\* A state where no writer is alone and the files are not known to be right.
LEMMA NothingKnown ==
  ASSUME \A w \in Writers : job[w].alone = FALSE, clean = FALSE
  PROVE  Undisturbed /\ QuietRest /\ QuietTables
  BY DEF Undisturbed, RunOK, QuietRest, QuietTables

\* The state of a fresh installation satisfies the invariant.
LEMMA InitIInv == Init => IInv
  <1> SUFFICES ASSUME Init PROVE IInv
    OBVIOUS
  <1>1. TypeOK
    BY IdleFacts DEF Init, TypeOK, NoRows
  <1>2. (\A w \in Writers : job[w].alone = FALSE) /\ clean = FALSE
    BY IdleFacts DEF Init
  <1> QED BY <1>1, <1>2, NothingKnown DEF IInv

-----------------------------------------------------------------------------
(* Each kind of step preserves the invariant *)

\* The operator's pages.
LEMMA OperatorIInv == IInv /\ Operator => IInv'
  <1> SUFFICES ASSUME IInv, Operator PROVE IInv'
    OBVIOUS
  <1>1. /\ job' = DisturbAll /\ clean' = FALSE
        /\ UNCHANGED <<open, state, emergency, files>>
    BY DEF Operator, BlocklistsAdd, BlocklistsToggle, BlocklistsDelete, EntriesAdd,
           EntriesDelete, Edit
  <1>2. job' \in [Writers -> Jobs] /\ \A w \in Writers : job'[w].alone = FALSE
    BY <1>1, DisturbAllFacts DEF IInv
  <1> DEFINE Typed == /\ list' \in [Lists -> {"none", "on", "off", "deleted"}]
                      /\ entries' \in [Lists -> SUBSET Domains]
                      /\ manual' \in [allow : SUBSET Domains, block : SUBSET Domains]
                      /\ due' \subseteq AutoUpdated
  <1>3. Typed
    <2>1. ASSUME NEW l \in Lists, BlocklistsAdd(l) PROVE Typed
      BY <2>1 DEF BlocklistsAdd, IInv, TypeOK
    <2>2. ASSUME NEW l \in Lists, BlocklistsToggle(l) PROVE Typed
      BY <2>2 DEF BlocklistsToggle, Edit, IInv, TypeOK
    <2>3. ASSUME NEW l \in Lists, BlocklistsDelete(l) PROVE Typed
      BY <2>3 DEF BlocklistsDelete, Edit, IInv, TypeOK
    <2>4. ASSUME NEW d \in Domains, NEW t \in EntryTypes, EntriesAdd(d, t) \/ EntriesDelete(d, t)
          PROVE  Typed
      <3>1. t = "allow" \/ t = "block"
        BY OperatorAssumption
      <3>2. manual' \in [allow : SUBSET Domains, block : SUBSET Domains]
        <4>1. \A S \in SUBSET Domains :
                /\ [manual EXCEPT !["allow"] = S] \in [allow : SUBSET Domains, block : SUBSET Domains]
                /\ [manual EXCEPT !["block"] = S] \in [allow : SUBSET Domains, block : SUBSET Domains]
          BY DEF IInv, TypeOK
        <4>2. manual["allow"] \subseteq Domains /\ manual["block"] \subseteq Domains
          BY DEF IInv, TypeOK
        <4>3. \E S \in SUBSET Domains : manual' = [manual EXCEPT ![t] = S]
          <5>1. CASE EntriesAdd(d, t)
            BY <5>1, <3>1, <4>2 DEF EntriesAdd
          <5>2. CASE EntriesDelete(d, t)
            BY <5>2, <3>1, <4>2 DEF EntriesDelete
          <5> QED BY <2>4, <5>1, <5>2
        <4> QED BY <3>1, <4>1, <4>3
      <3> QED BY <2>4, <3>2 DEF EntriesAdd, EntriesDelete, Edit, IInv, TypeOK
    <2> QED BY <2>1, <2>2, <2>3, <2>4 DEF Operator
  <1>4. TypeOK'
    BY <1>1, <1>2, <1>3 DEF IInv, TypeOK, files
  <1> QED BY <1>1, <1>2, <1>4 DEF IInv, Undisturbed, RunOK, QuietRest, QuietTables

\* What a sound run is depends on the tables alone.
LEMMA SoundUnchanged ==
  ASSUME UNCHANGED <<list, entries, manual>>
  PROVE  \A w, j : Sound(w, j)' <=> Sound(w, j)
  <1>1. Enabled' = Enabled
    BY DEF Enabled
  <1>2. \A l, j : Visible(l, j)' = Visible(l, j)
    BY DEF Visible
  <1>3. \A j, S : AllowedFrom(j, S)' = AllowedFrom(j, S) /\ BlockedFrom(j, S)' = BlockedFrom(j, S)
    BY <1>2 DEF AllowedFrom, BlockedFrom
  <1> QED BY <1>1, <1>3 DEF Sound, HasAllow, HasBlock

\* A step that touches nothing the invariant is about, beyond the types.
LEMMA NothingTouched ==
  ASSUME IInv, UNCHANGED <<list, entries, manual, emergency, zone, white, job, clean>>
  PROVE  Undisturbed' /\ QuietRest' /\ QuietTables'
  <1>1. \A w, j : Sound(w, j)' <=> Sound(w, j)
    BY SoundUnchanged
  <1>2. QuietTables'
    BY DEF IInv, QuietTables, WantedBlock, WantedAllow, Enabled, Effective
  <1>3. ASSUME NEW w \in Writers PROVE RunOK(w)'
    BY <1>1 DEF IInv, Undisturbed, RunOK, NoOther, Effective
  <1> QED BY <1>2, <1>3 DEF Undisturbed, IInv, QuietRest

\* While an emergency request is between its two writes no run is alone.
LEMMA EmergencyDisturbs ==
  ASSUME IInv, emergency
  PROVE  clean = FALSE /\ \A w \in Writers : job[w].alone = FALSE
  <1>1. clean = FALSE
    BY DEF IInv, QuietRest, TypeOK
  <1>2. ASSUME NEW w \in Writers PROVE job[w].alone = FALSE
    BY DEF IInv, Undisturbed, RunOK, NoOther, TypeOK, Jobs
  <1> QED BY <1>1, <1>2

\* The emergency controls.
LEMMA ControlsIInv == IInv /\ Controls => IInv'
  <1> SUFFICES ASSUME IInv, Controls PROVE IInv'
    OBVIOUS
  <1>1. ASSUME NEW s \in Requests, SetBlockingState(s) PROVE IInv'
    <2>1. job' = DisturbAll /\ clean' = FALSE
      BY <1>1 DEF SetBlockingState
    <2>2. job' \in [Writers -> Jobs] /\ \A w \in Writers : job'[w].alone = FALSE
      BY <2>1, DisturbAllFacts DEF IInv
    <2>3. s \in {"disabled", "paused"}
      BY OperatorAssumption
    <2>4. TypeOK'
      BY <1>1, <2>2, <2>3 DEF SetBlockingState, IInv, TypeOK, config, files
    <2> QED BY <2>1, <2>2, <2>4 DEF IInv, Undisturbed, RunOK, QuietRest, QuietTables
  <1>2. CASE WriteEmergencyRpz \/ EmergencyFailed
    <2>1. /\ UNCHANGED <<list, entries, manual, due, open, state, white, job, clean>>
          /\ emergency /\ emergency' = FALSE /\ zone' \subseteq zone
      BY <1>2 DEF WriteEmergencyRpz, EmergencyFailed, config, files
    <2>2. clean = FALSE /\ \A w \in Writers : job[w].alone = FALSE
      BY <2>1, EmergencyDisturbs
    <2>3. TypeOK'
      BY <2>1 DEF IInv, TypeOK
    <2> QED BY <2>1, <2>2, <2>3 DEF IInv, Undisturbed, RunOK, QuietRest, QuietTables
  <1>3. CASE BlockingEnable \/ PauseExpires
    <2>1. /\ UNCHANGED <<list, entries, manual, due, open, emergency, zone, white, job, clean>>
          /\ state' \in {"enabled", "expired"}
      BY <1>3 DEF BlockingEnable, PauseExpires, config, files
    <2>2. TypeOK'
      BY <2>1 DEF IInv, TypeOK
    <2> QED BY <2>1, <2>2, NothingTouched DEF IInv
  <1> QED BY <1>1, <1>2, <1>3 DEF Controls

\* The clock.
LEMMA ClockIInv == IInv /\ Clock => IInv'
  <1> SUFFICES ASSUME IInv, Clock PROVE IInv'
    OBVIOUS
  <1>1. /\ UNCHANGED <<list, entries, manual, state, emergency, zone, white, job, clean>>
        /\ due' \subseteq AutoUpdated /\ open' \subseteq Scheduled
    BY DEF Clock, FallDue, WindowFlips, config, files, IInv, TypeOK
  <1>2. TypeOK'
    BY <1>1 DEF IInv, TypeOK
  <1> QED BY <1>1, <1>2, NothingTouched DEF IInv

-----------------------------------------------------------------------------
(* The writers *)

\* A writer that starts disturbs all others.
LEMMA StartFacts ==
  ASSUME TypeOK, NEW w, NEW pc, NEW left \in SUBSET Lists, Start(w, pc, left),
         pc \in {"fetch", "lists", "allow", "done"}
  PROVE  /\ w \in Writers /\ job[w].pc = "idle" /\ clean' = FALSE
         /\ job' \in [Writers -> Jobs]
         /\ job'[w].pc = pc /\ job'[w].left = left /\ job'[w].loaded = {}
         /\ job'[w].alone => NoOther(w) /\ pc # "done"
         /\ \A v \in Writers \ {w} : /\ job'[v].alone = FALSE /\ job'[v].pc = job[v].pc
                                     /\ job'[v].allow = job[v].allow
  <1> DEFINE j == [Idle EXCEPT !.pc = pc, !.left = left, !.alone = NoOther(w) /\ pc # "done"]
  <1>1. /\ w \in Writers /\ job[w].pc = "idle" /\ clean' = FALSE
        /\ job' = [v \in Writers |-> IF v = w THEN j ELSE Disturbed(job[v])]
    BY DEF Start
  <1>2. j \in Jobs
    <2>1. (NoOther(w) /\ pc # "done") \in BOOLEAN
      OBVIOUS
    <2> QED BY <2>1, IdleFacts DEF Jobs
  <1> HIDE DEF j
  <1>3. /\ job'[w] = j
        /\ \A v \in Writers \ {w} : job[v] \in Jobs /\ job'[v] = Disturbed(job[v])
    BY <1>1 DEF TypeOK
  <1>4. \A v \in Writers : job'[v] \in Jobs
    BY <1>2, <1>3, DisturbFacts
  <1>5. job' \in [Writers -> Jobs]
    BY <1>1, <1>4
  <1>6. /\ j.pc = pc /\ j.left = left /\ j.loaded = {}
        /\ j.alone => NoOther(w) /\ pc # "done"
    BY DEF j, Idle
  <1> QED BY <1>1, <1>3, <1>5, <1>6, DisturbFacts

\* A writer that starts leaves the invariant.
LEMMA StartIInv ==
  ASSUME IInv, NEW w, NEW pc, NEW left \in SUBSET Lists, Start(w, pc, left),
         pc \in {"fetch", "lists", "allow", "done"},
         pc \in {"fetch", "lists"} => w # "apply",
         left \subseteq Enabled',
         w = "apply" \/ pc = "allow" => left = Enabled',
         UNCHANGED <<entries, manual, due, open, state, emergency, files>>,
         list' \in [Lists -> {"none", "on", "off", "deleted"}]
  PROVE  IInv'
  <1>1. /\ w \in Writers /\ job[w].pc = "idle" /\ clean' = FALSE
        /\ job' \in [Writers -> Jobs]
        /\ job'[w].pc = pc /\ job'[w].left = left /\ job'[w].loaded = {}
        /\ job'[w].alone => NoOther(w) /\ pc # "done"
        /\ \A v \in Writers \ {w} : job'[v].alone = FALSE /\ job'[v].pc = job[v].pc
    <2>1. TypeOK
      BY DEF IInv
    <2> QED BY <2>1, StartFacts
  <1>2. TypeOK'
    BY <1>1 DEF IInv, TypeOK, files
  <1>3. ASSUME job'[w].alone PROVE RunOK(w)'
    <2>1. NoOther(w)'
      BY <1>1, <1>3 DEF NoOther
    <2>2. Sound(w, job[w])'
      BY <1>1, <1>3 DEF Sound, HasAllow, HasBlock
    <2> QED BY <1>1, <1>3, <2>1, <2>2 DEF RunOK
  <1>4. ASSUME NEW v \in Writers PROVE RunOK(v)'
    BY <1>1, <1>3 DEF RunOK
  <1> QED BY <1>1, <1>2, <1>4 DEF IInv, Undisturbed, QuietRest, QuietTables

\* Where the update job and Apply go after a download.
LEMMA AfterFacts ==
  ASSUME NEW w, NEW S, NEW T
  PROVE  /\ S # {} => AfterFetch(w, S, T) = "fetch"
         /\ S = {} /\ w = "apply" => AfterFetch(w, S, T) = "read"
         /\ S = {} /\ w # "apply" /\ T = {} => AfterFetch(w, S, T) = "done"
         /\ S = {} /\ w # "apply" /\ T # {} => AfterFetch(w, S, T) = "lists"
         /\ w = "apply" => AfterBlock(w, S) = AfterFetch(w, S, {})
         /\ w # "apply" /\ S = {} => AfterBlock(w, S) = "read"
         /\ w # "apply" /\ S # {} => AfterBlock(w, S) = "entries"
  BY DEF AfterFetch, AfterBlock

\* The three writers start.
LEMMA StartsIInv == IInv /\ (UpdateStart \/ ScheduleCheck \/ ApplyStart) => IInv'
  <1> SUFFICES ASSUME IInv, UpdateStart \/ ScheduleCheck \/ ApplyStart PROVE IInv'
    OBVIOUS
  <1>0. Enabled \in SUBSET Lists /\ list \in [Lists -> {"none", "on", "off", "deleted"}]
    BY DEF Enabled, IInv, TypeOK
  <1>1. CASE UpdateStart
    <2> DEFINE S == Enabled \cap AutoUpdated \cap due
    <2>1. /\ Start("update", AfterFetch("update", S, {}), S) /\ list' = list
          /\ UNCHANGED <<entries, manual, due, open, state, emergency, files>>
      BY <1>1 DEF UpdateStart, config
    <2>2. S \in SUBSET Lists /\ S \subseteq Enabled'
      BY <1>0, <2>1 DEF Enabled
    <2> HIDE DEF S
    <2>3. AfterFetch("update", S, {}) \in {"fetch", "done"}
      BY DEF AfterFetch
    <2> QED BY <1>0, <2>1, <2>2, <2>3, StartIInv
  <1>2. CASE ScheduleCheck
    <2>1. /\ Start("schedule", "lists", {})
          /\ list' = [l \in Lists |-> Rescheduled(l)]
          /\ UNCHANGED <<entries, manual, due, open, state, emergency, files>>
      BY <1>2 DEF ScheduleCheck
    <2>2. list' \in [Lists -> {"none", "on", "off", "deleted"}]
      BY <1>0, <2>1 DEF Rescheduled
    <2> QED BY <2>1, <2>2, StartIInv
  <1>3. CASE ApplyStart
    <2>1. /\ Start("apply", "allow", Enabled) /\ list' = list
          /\ UNCHANGED <<entries, manual, due, open, state, emergency, files>>
      BY <1>3 DEF ApplyStart, config
    <2>2. Enabled' = Enabled
      BY <2>1 DEF Enabled
    <2> QED BY <1>0, <2>1, <2>2, StartIInv
  <1> QED BY <1>1, <1>2, <1>3

\* While a writer is in flight no other is alone and no file is known right.
LEMMA InFlight ==
  ASSUME IInv, NEW w \in Writers, job[w].pc # "idle"
  PROVE  clean = FALSE /\ \A v \in Writers \ {w} : job[v].alone = FALSE
  <1>1. clean = FALSE
    BY DEF IInv, QuietRest, TypeOK
  <1>2. ASSUME NEW v \in Writers \ {w} PROVE job[v].alone = FALSE
    <2>1. job[v].alone \in BOOLEAN
      BY DEF IInv, TypeOK, Jobs
    <2> QED BY <2>1 DEF IInv, Undisturbed, RunOK, NoOther
  <1> QED BY <1>1, <1>2

\* A step of one writer that replaces its record by a good one.
LEMMA WriterStep ==
  ASSUME IInv, NEW w \in Writers, NEW j \in Jobs, job[w].pc # "idle",
         job' = [job EXCEPT ![w] = j]
  PROVE  /\ job' \in [Writers -> Jobs] /\ job'[w] = j
         /\ \A v \in Writers \ {w} : job'[v] = job[v] /\ job'[v].alone = FALSE
  <1>1. job \in [Writers -> Jobs]
    BY DEF IInv, TypeOK
  <1> QED BY <1>1, InFlight

\* A step of a writer that only goes on reading.
LEMMA ReadStep ==
  ASSUME IInv, NEW w \in Writers, NEW j \in Jobs, job[w].pc # "idle", Step(w, j),
         j.pc # "idle",
         j.alone => job[w].alone /\ Sound(w, j) /\ j.pc \notin {"zoned", "done"}
  PROVE  IInv'
  <1>1. /\ job' = [job EXCEPT ![w] = j]
        /\ UNCHANGED <<list, entries, manual, due, open, state, emergency, zone, white, clean>>
    BY DEF Step, config, files
  <1>2. /\ job' \in [Writers -> Jobs] /\ job'[w] = j
        /\ \A v \in Writers \ {w} : job'[v] = job[v] /\ job'[v].alone = FALSE
    BY <1>1, WriterStep
  <1>3. TypeOK'
    BY <1>1, <1>2 DEF IInv, TypeOK
  <1>4. ASSUME j.alone PROVE RunOK(w)'
    <2>1. NoOther(w) /\ Sound(w, j)
      BY <1>4 DEF IInv, Undisturbed, RunOK
    <2>2. NoOther(w)'
      BY <1>1, <1>2, <2>1 DEF NoOther
    <2>3. Sound(w, j)'
      BY <1>1, <2>1, SoundUnchanged
    <2> QED BY <1>2, <1>4, <2>2, <2>3 DEF RunOK
  <1>5. Undisturbed'
    BY <1>2, <1>4 DEF Undisturbed, RunOK
  <1> QED BY <1>1, <1>3, <1>5, InFlight DEF IInv, QuietRest, QuietTables

\* The fields of a run that has list l behind it.
LEMMA PastFacts ==
  ASSUME TypeOK, NEW w \in Writers, NEW l
  PROVE  /\ Past(w, l) \in Jobs /\ Past(w, l).left = job[w].left \ {l}
         /\ Past(w, l).pc = job[w].pc /\ Past(w, l).tried = job[w].tried
         /\ Past(w, l).loaded = job[w].loaded /\ Past(w, l).got = job[w].got
         /\ Past(w, l).base = job[w].base /\ Past(w, l).blocked = job[w].blocked
         /\ Past(w, l).allow = job[w].allow /\ Past(w, l).alone = job[w].alone
  <1>1. job[w] \in Jobs
    BY DEF TypeOK
  <1> QED BY <1>1 DEF Jobs, Past

\* A sound run goes on being sound when list l is behind it and what it sees of
\* l is collected.
LEMMA GatherStep ==
  ASSUME TypeOK, NEW w \in Writers, NEW r \in Jobs, NEW j \in Jobs, NEW l,
         Sound(w, r), l \in r.left, j.left = r.left \ {l}, HasBlock(w, r),
         j.pc \in {"fetch", "entries", "read"}, j.pc = "read" => j.left = {},
         \A k \in j.loaded : j.base[k] = entries[k],
         w = "apply" => j.loaded = Enabled \ j.left /\ j.pc # "entries",
         \A k \in Enabled \ r.left : Visible(k, j) = Visible(k, r),
         j.allow = IF l \in AllowLists THEN r.allow \cup Visible(l, j) ELSE r.allow,
         j.blocked = IF l \in AllowLists THEN r.blocked ELSE r.blocked \cup Visible(l, j)
  PROVE  Sound(w, j)
  <1>1. Enabled \ j.left = (Enabled \ r.left) \cup {l} /\ l \in Enabled
    BY DEF Sound
  <1>2. r.allow = AllowedFrom(r, Enabled \ r.left) /\ r.blocked = BlockedFrom(r, Enabled \ r.left)
    BY DEF Sound, HasBlock
  <1>3. /\ AllowedFrom(r, Enabled \ r.left) = AllowedFrom(j, Enabled \ r.left)
        /\ BlockedFrom(r, Enabled \ r.left) = BlockedFrom(j, Enabled \ r.left)
    BY DEF AllowedFrom, BlockedFrom
  <1>4. j.allow = AllowedFrom(j, Enabled \ j.left)
    <2>1. CASE l \in AllowLists
      <3>1. (Enabled \ j.left) \cap AllowLists = ((Enabled \ r.left) \cap AllowLists) \cup {l}
        BY <1>1, <2>1
      <3> QED BY <1>2, <1>3, <2>1, <3>1 DEF AllowedFrom
    <2>2. CASE l \notin AllowLists
      <3>1. (Enabled \ j.left) \cap AllowLists = (Enabled \ r.left) \cap AllowLists
        BY <1>1, <2>2
      <3> QED BY <1>2, <1>3, <2>2, <3>1 DEF AllowedFrom
    <2> QED BY <2>1, <2>2
  <1>5. j.blocked = BlockedFrom(j, Enabled \ j.left)
    <2>1. CASE l \notin AllowLists
      <3>1. (Enabled \ j.left) \ AllowLists = ((Enabled \ r.left) \ AllowLists) \cup {l}
        BY <1>1, <2>1
      <3> QED BY <1>2, <1>3, <2>1, <3>1 DEF BlockedFrom
    <2>2. CASE l \in AllowLists
      <3>1. (Enabled \ j.left) \ AllowLists = (Enabled \ r.left) \ AllowLists
        BY <1>1, <2>2
      <3> QED BY <1>2, <1>3, <2>2, <3>1 DEF BlockedFrom
    <2> QED BY <2>1, <2>2
  <1> QED BY <1>1, <1>4, <1>5 DEF Sound

\* A download that succeeds.
LEMMA FetchIInv ==
  ASSUME IInv, NEW w \in Writers, NEW l \in Lists, NEW feed \in Feeds, Fetch(w, l, feed)
  PROVE  IInv'
  <1> DEFINE r == job[w]
             p == Past(w, l)
             pc == AfterFetch(w, p.left, p.loaded \cup {l})
             b == IF w = "apply" /\ l \notin AllowLists THEN p.blocked \cup feed ELSE p.blocked
             a == IF w = "apply" /\ l \in AllowLists THEN p.allow \cup feed ELSE p.allow
             j == [p EXCEPT !.pc = pc, !.tried = @ \cup {l}, !.loaded = @ \cup {l},
                            !.got[l] = feed, !.base[l] = entries[l], !.blocked = b, !.allow = a]
  <1>1. r.pc = "fetch" /\ l \in r.left /\ Step(w, j)
    BY DEF Fetch
  <1>2. /\ TypeOK /\ r \in Jobs /\ p \in Jobs /\ p.left = r.left \ {l} /\ p.pc = r.pc
        /\ p.tried = r.tried /\ p.loaded = r.loaded /\ p.got = r.got /\ p.base = r.base
        /\ p.blocked = r.blocked /\ p.allow = r.allow /\ p.alone = r.alone
    BY PastFacts DEF IInv, TypeOK
  <1>3. feed \subseteq Domains /\ entries[l] \subseteq Domains
    BY FeedsAssumption DEF IInv, TypeOK
  <1>4. pc \in {"fetch", "read", "lists"} /\ (w = "apply" => pc # "lists")
        /\ (pc = "read" => w = "apply") /\ (pc # "fetch" => p.left = {})
    BY DEF AfterFetch
  <1>5. b \in SUBSET Domains /\ a \in SUBSET Domains
    BY <1>2, <1>3 DEF Jobs
  <1> HIDE DEF p, pc, a, b
  <1>6. /\ j \in Jobs /\ j.pc = pc /\ j.left = p.left /\ j.loaded = p.loaded \cup {l}
        /\ j.got = [p.got EXCEPT ![l] = feed] /\ j.base = [p.base EXCEPT ![l] = entries[l]]
        /\ j.blocked = b /\ j.allow = a /\ j.alone = p.alone
    BY <1>2, <1>3, <1>4, <1>5 DEF Jobs
  <1> HIDE DEF j
  <1>7. /\ j.got[l] = feed /\ j.base[l] = entries[l]
        /\ \A k \in Lists \ {l} : j.got[k] = r.got[k] /\ j.base[k] = r.base[k]
    BY <1>2, <1>6 DEF Jobs
  <1>8. ASSUME j.alone PROVE Sound(w, j)
    <2>1. Sound(w, r)
      BY <1>2, <1>6, <1>8 DEF IInv, Undisturbed, RunOK
    <2>2. \A k \in j.loaded : j.base[k] = entries[k]
      BY <1>2, <1>6, <1>7, <2>1 DEF Sound, Jobs
    <2>3. CASE w = "apply"
      <3>1. HasBlock(w, r) /\ r.loaded = Enabled \ r.left /\ l \in Enabled
        BY <1>1, <2>1, <2>3 DEF HasBlock, HasAllow, Sound
      <3>2. j.loaded = Enabled \ j.left
        BY <1>1, <1>2, <1>6, <3>1
      <3>3. Enabled \subseteq Lists
        BY DEF Enabled
      <3>4. \A k \in Enabled \ r.left : Visible(k, j) = Visible(k, r)
        BY <1>1, <1>2, <1>6, <1>7, <3>1, <3>3 DEF Visible
      <3>5. Visible(l, j) = feed
        BY <1>2, <1>6, <1>7, VisibleFacts
      <3>6. /\ j.allow = IF l \in AllowLists THEN r.allow \cup Visible(l, j) ELSE r.allow
            /\ j.blocked = IF l \in AllowLists THEN r.blocked ELSE r.blocked \cup Visible(l, j)
        BY <1>2, <1>6, <2>3, <3>5 DEF a, b
      <3>7. j.pc \in {"fetch", "read"} /\ (j.pc = "read" => j.left = {})
        BY <1>4, <1>6, <2>3
      <3>8. l \in r.left /\ j.left = r.left \ {l}
        BY <1>1, <1>2, <1>6
      <3> HIDE DEF r
      <3> QED BY <1>2, <1>6, <2>1, <2>2, <3>1, <3>2, <3>4, <3>6, <3>7, <3>8, GatherStep
    <2>4. CASE w # "apply"
      <3>1. pc \in {"fetch", "lists"}
        BY <1>4, <2>4
      <3> QED BY <1>2, <1>6, <2>1, <2>2, <2>4, <3>1 DEF Sound, HasAllow, HasBlock
    <2> QED BY <2>3, <2>4
  <1> QED BY <1>1, <1>2, <1>4, <1>6, <1>8, ReadStep

\* A download that fails.
LEMMA FetchFailsIInv ==
  ASSUME IInv, NEW w \in Writers, NEW l \in Lists, FetchFails(w, l)
  PROVE  IInv'
  <1> DEFINE r == job[w]
             p == Past(w, l)
             pc == AfterFetch(w, p.left, p.loaded)
             alone == p.alone /\ w # "apply" /\ pc # "done"
             j == [p EXCEPT !.pc = pc, !.tried = @ \cup {l}, !.alone = alone]
  <1>1. r.pc = "fetch" /\ l \in r.left /\ Step(w, j)
    BY DEF FetchFails
  <1>2. /\ TypeOK /\ r \in Jobs /\ p \in Jobs /\ p.left = r.left \ {l} /\ p.pc = r.pc
        /\ p.tried = r.tried /\ p.loaded = r.loaded /\ p.got = r.got /\ p.base = r.base
        /\ p.blocked = r.blocked /\ p.allow = r.allow /\ p.alone = r.alone
    BY PastFacts DEF IInv, TypeOK
  <1>3. pc \in {"fetch", "read", "lists", "done"} /\ (pc = "read" => w = "apply")
    BY DEF AfterFetch
  <1>4. alone \in BOOLEAN /\ (alone => r.alone /\ w # "apply" /\ pc # "done")
    BY <1>2 DEF Jobs
  <1> HIDE DEF p, pc, alone
  <1>5. /\ j \in Jobs /\ j.pc = pc /\ j.left = p.left /\ j.loaded = p.loaded
        /\ j.base = p.base /\ j.alone = alone
    BY <1>2, <1>3, <1>4 DEF Jobs
  <1> HIDE DEF j
  <1>6. ASSUME j.alone PROVE r.alone /\ Sound(w, j) /\ j.pc \in {"fetch", "lists"}
    <2>1. r.alone /\ w # "apply" /\ pc \in {"fetch", "lists"}
      BY <1>3, <1>4, <1>5, <1>6
    <2>2. Sound(w, r)
      BY <2>1 DEF IInv, Undisturbed, RunOK
    <2> QED BY <1>2, <1>5, <2>1, <2>2 DEF Sound, HasAllow, HasBlock
  <1> QED BY <1>1, <1>2, <1>3, <1>5, <1>6, ReadStep

\* The SELECT of the lists and those of the manual entries.
LEMMA ReadsIInv ==
  ASSUME IInv, NEW w \in Writers, ReadLists(w) \/ ReadAllow(w) \/ ReadBlock(w)
  PROVE  IInv'
  <1> DEFINE r == job[w]
  <1>0. /\ TypeOK /\ r \in Jobs /\ Enabled \in SUBSET Lists
        /\ manual.allow \in SUBSET Domains /\ manual.block \in SUBSET Domains
        /\ r.alone => Sound(w, r)
    BY DEF IInv, TypeOK, Enabled, Undisturbed, RunOK
  <1>1. CASE ReadLists(w)
    <2> DEFINE j == [r EXCEPT !.pc = "allow", !.left = Enabled]
    <2>1. r.pc = "lists" /\ Step(w, j)
      BY <1>1 DEF ReadLists
    <2> HIDE DEF r
    <2>2. /\ j \in Jobs /\ j.pc = "allow" /\ j.left = Enabled /\ j.loaded = r.loaded
          /\ j.base = r.base /\ j.alone = r.alone
      BY <1>0 DEF Jobs
    <2> HIDE DEF j
    <2>3. ASSUME j.alone PROVE Sound(w, j)
      <3>1. Sound(w, r)
        BY <1>0, <2>2, <2>3
      <3>2. w # "apply"
        BY <2>1, <3>1 DEF Sound
      <3> QED BY <2>2, <3>1, <3>2 DEF Sound, HasAllow, HasBlock
    <2> QED BY <2>1, <2>2, <2>3, ReadStep DEF r
  <1>2. CASE ReadAllow(w)
    <2> DEFINE j == [r EXCEPT !.pc = "block", !.allow = manual.allow]
    <2>1. r.pc = "allow" /\ Step(w, j)
      BY <1>2 DEF ReadAllow
    <2> HIDE DEF r
    <2>2. /\ j \in Jobs /\ j.pc = "block" /\ j.left = r.left /\ j.loaded = r.loaded
          /\ j.base = r.base /\ j.alone = r.alone /\ j.allow = manual.allow
      BY <1>0 DEF Jobs
    <2> HIDE DEF j
    <2>3. ASSUME j.alone PROVE Sound(w, j)
      <3>1. Sound(w, r)
        BY <1>0, <2>2, <2>3
      <3>2. j.left = Enabled
        BY <2>1, <2>2, <3>1 DEF Sound
      <3>3. Enabled \ j.left = {}
        BY <3>2
      <3>4. AllowedFrom(j, {}) = manual.allow
        BY DEF AllowedFrom
      <3> QED BY <2>2, <3>1, <3>2, <3>3, <3>4 DEF Sound, HasBlock
    <2> QED BY <2>1, <2>2, <2>3, ReadStep DEF r
  <1>3. CASE ReadBlock(w)
    <2> DEFINE pc == AfterBlock(w, r.left)
               j == [r EXCEPT !.pc = pc, !.blocked = manual.block]
    <2>1. r.pc = "block" /\ Step(w, j)
      BY <1>3 DEF ReadBlock
    <2>2. pc \in {"fetch", "read", "entries"} /\ (pc = "fetch" => w = "apply")
          /\ (pc = "read" => r.left = {})
      BY AfterFacts
    <2> HIDE DEF r, pc
    <2>3. /\ j \in Jobs /\ j.pc = pc /\ j.left = r.left /\ j.loaded = r.loaded
          /\ j.base = r.base /\ j.alone = r.alone /\ j.allow = r.allow
          /\ j.blocked = manual.block /\ j.got = r.got
      BY <1>0, <2>2 DEF Jobs
    <2> HIDE DEF j
    <2>4. ASSUME j.alone PROVE Sound(w, j)
      <3>1. Sound(w, r) /\ r.left = Enabled /\ r.allow = AllowedFrom(r, Enabled \ r.left)
        BY <1>0, <2>1, <2>3, <2>4 DEF Sound, HasAllow
      <3>2. Enabled \ j.left = {} /\ Enabled \ r.left = {}
        BY <2>3, <3>1
      <3>3. /\ BlockedFrom(j, {}) = manual.block
            /\ AllowedFrom(j, {}) = manual.allow /\ AllowedFrom(r, {}) = manual.allow
        BY DEF AllowedFrom, BlockedFrom
      <3>4. w = "apply" => pc # "entries"
        BY AfterFacts DEF pc
      <3> QED BY <2>2, <2>3, <3>1, <3>2, <3>3, <3>4 DEF Sound
    <2> QED BY <2>1, <2>2, <2>3, <2>4, ReadStep DEF r
  <1> QED BY <1>1, <1>2, <1>3

\* The SELECT of a list's entries.
LEMMA ReadEntriesIInv ==
  ASSUME IInv, NEW w \in Writers, NEW l \in Lists, ReadEntries(w, l)
  PROVE  IInv'
  <1> DEFINE r == job[w]
             p == Past(w, l)
             pc == AfterBlock(w, p.left)
             b == IF l \in AllowLists THEN p.blocked ELSE p.blocked \cup Visible(l, p)
             a == IF l \in AllowLists THEN p.allow \cup Visible(l, p) ELSE p.allow
             j == [p EXCEPT !.pc = pc, !.blocked = b, !.allow = a]
  <1>1. r.pc = "entries" /\ l \in r.left /\ Step(w, j)
    BY DEF ReadEntries
  <1>2. /\ TypeOK /\ r \in Jobs /\ p \in Jobs /\ p.left = r.left \ {l} /\ p.pc = r.pc
        /\ p.tried = r.tried /\ p.loaded = r.loaded /\ p.got = r.got /\ p.base = r.base
        /\ p.blocked = r.blocked /\ p.allow = r.allow /\ p.alone = r.alone
    BY PastFacts DEF IInv, TypeOK
  <1>3. pc \in {"fetch", "read", "entries"} /\ (pc = "read" => p.left = {})
    <2> HIDE DEF p
    <2> QED BY AfterFacts
  <1>4. Visible(l, p) \subseteq Domains
    BY <1>2, VisibleFacts
  <1>5. b \in SUBSET Domains /\ a \in SUBSET Domains
    BY <1>2, <1>4 DEF Jobs
  <1> HIDE DEF p, pc, a, b
  <1>6. /\ j \in Jobs /\ j.pc = pc /\ j.left = p.left /\ j.loaded = p.loaded
        /\ j.got = p.got /\ j.base = p.base /\ j.blocked = b /\ j.allow = a
        /\ j.alone = p.alone
    BY <1>2, <1>3, <1>5 DEF Jobs
  <1> HIDE DEF j
  <1>7. ASSUME j.alone PROVE Sound(w, j)
    <2>1. Sound(w, r)
      BY <1>2, <1>6, <1>7 DEF IInv, Undisturbed, RunOK
    <2>2. /\ \A k \in j.loaded : j.base[k] = entries[k]
          /\ \A k : Visible(k, j) = Visible(k, r) /\ Visible(k, p) = Visible(k, r)
      BY <1>2, <1>6, <2>1 DEF Sound, Visible
    <2>3. HasBlock(w, r)
      BY <1>1 DEF HasBlock, HasAllow
    <2>4. /\ j.allow = IF l \in AllowLists THEN r.allow \cup Visible(l, j) ELSE r.allow
          /\ j.blocked = IF l \in AllowLists THEN r.blocked ELSE r.blocked \cup Visible(l, j)
      <3>1. Visible(l, p) = Visible(l, j)
        BY <2>2
      <3>2. /\ a = IF l \in AllowLists THEN p.allow \cup Visible(l, p) ELSE p.allow
            /\ b = IF l \in AllowLists THEN p.blocked ELSE p.blocked \cup Visible(l, p)
        BY DEF a, b
      <3> QED BY <1>2, <1>6, <3>1, <3>2
    <2>5. w # "apply"
      BY <1>1, <2>1 DEF Sound
    <2>6. l \in r.left /\ j.left = r.left \ {l}
      BY <1>1, <1>2, <1>6
    <2>7. j.pc \in {"fetch", "entries", "read"} /\ (j.pc = "read" => j.left = {})
      BY <1>3, <1>6
    <2> HIDE DEF r
    <2> QED BY <1>2, <1>6, <2>1, <2>2, <2>3, <2>4, <2>5, <2>6, <2>7, GatherStep
  <1> QED BY <1>1, <1>2, <1>3, <1>6, <1>7, ReadStep

\* A writer writes one of its files and moves on.
LEMMA WriteStep ==
  ASSUME IInv, NEW w \in Writers, NEW p \in {"zoned", "done"},
         job[w].pc \in {"read", "zoned"}, job' = [job EXCEPT ![w].pc = p],
         UNCHANGED <<list, entries, manual, due, open, state, emergency, clean>>,
         zone' \subseteq Domains, white' \subseteq Domains,
         job[w].alone => /\ zone' = Effective(job[w].blocked, job[w].allow)
                         /\ p = "done" => white' = job[w].allow
  PROVE  IInv'
  <1> DEFINE r == job[w]
             j == [r EXCEPT !.pc = p]
  <1>1. job' = [job EXCEPT ![w] = j] /\ r \in Jobs
    BY DEF IInv, TypeOK
  <1>2. /\ j \in Jobs /\ j.pc = p /\ j.left = r.left /\ j.loaded = r.loaded /\ j.got = r.got
        /\ j.base = r.base /\ j.blocked = r.blocked /\ j.allow = r.allow /\ j.alone = r.alone
    <2> HIDE DEF r
    <2> QED BY <1>1 DEF Jobs
  <1> HIDE DEF j
  <1>3. /\ job' \in [Writers -> Jobs] /\ job'[w] = j
        /\ \A v \in Writers \ {w} : job'[v] = job[v] /\ job'[v].alone = FALSE
    BY <1>1, <1>2, WriterStep
  <1>4. TypeOK'
    BY <1>3 DEF IInv, TypeOK
  <1>5. ASSUME j.alone PROVE RunOK(w)'
    <2>1. NoOther(w) /\ Sound(w, r)
      BY <1>2, <1>5 DEF IInv, Undisturbed, RunOK
    <2>2. NoOther(w)'
      BY <1>3, <2>1 DEF NoOther
    <2>3. Sound(w, j)
      <3>1. \A S : AllowedFrom(j, S) = AllowedFrom(r, S) /\ BlockedFrom(j, S) = BlockedFrom(r, S)
        BY <1>2 DEF AllowedFrom, BlockedFrom, Visible
      <3>2. r.pc \in {"read", "zoned"}
        OBVIOUS
      <3> HIDE DEF r
      <3> QED BY <1>2, <2>1, <3>1, <3>2 DEF Sound, HasAllow, HasBlock
    <2>4. Sound(w, job[w])'
      <3>1. PICK k : k = j
        OBVIOUS
      <3>2. Sound(w, k)'
        BY <2>3, <3>1, SoundUnchanged
      <3>3. job'[w] = k
        BY <1>3, <3>1
      <3> QED BY <3>2, <3>3
    <2>5. /\ job'[w].pc = p /\ job'[w].blocked = r.blocked /\ job'[w].allow = r.allow
          /\ zone' = Effective(r.blocked, r.allow) /\ (p = "done" => white' = r.allow)
      BY <1>2, <1>3, <1>5
    <2> HIDE DEF r
    <2> QED BY <2>2, <2>4, <2>5 DEF RunOK, Effective
  <1>6. Undisturbed'
    BY <1>3, <1>5 DEF Undisturbed, RunOK
  <1> QED BY <1>4, <1>6, InFlight DEF IInv, QuietRest, QuietTables

\* The zone is written, then the allow file.
LEMMA WriteIInv ==
  ASSUME IInv, NEW w \in Writers, WriteZone(w) \/ WriteWhite(w)
  PROVE  IInv'
  <1>1. job[w] \in Jobs /\ job[w].blocked \subseteq Domains /\ job[w].allow \subseteq Domains
    BY DEF IInv, TypeOK, Jobs
  <1>2. CASE WriteZone(w)
    <2>1. Effective(job[w].blocked, job[w].allow) \subseteq Domains
      BY <1>1 DEF Effective
    <2>2. white \subseteq Domains
      BY DEF IInv, TypeOK
    <2> QED BY <1>2, <2>1, <2>2, WriteStep DEF WriteZone, config, files
  <1>3. CASE WriteWhite(w)
    <2>1. zone \subseteq Domains
      BY DEF IInv, TypeOK
    <2>2. job[w].alone => zone = Effective(job[w].blocked, job[w].allow)
      BY <1>3 DEF IInv, Undisturbed, RunOK, WriteWhite
    <2> QED BY <1>1, <1>3, <2>1, <2>2, WriteStep DEF WriteWhite, config, files
  <1> QED BY <1>2, <1>3

\* A writer ends.  After an undisturbed run the commit stores what its
\* transaction saw, which is what the files were made from.
LEMMA EndIInv ==
  ASSUME IInv, NEW w \in Writers, Commit(w) \/ Fail(w)
  PROVE  IInv'
  <1>1. job[w].pc # "idle" /\ job' = [job EXCEPT ![w] = Idle]
    BY DEF Commit, Fail, Step
  <1>2. /\ job' \in [Writers -> Jobs] /\ job'[w] = Idle
        /\ \A v \in Writers \ {w} : job'[v] = job[v] /\ job'[v].alone = FALSE
    BY <1>1, IdleFacts, WriterStep
  <1>3. Undisturbed'
    BY <1>2, IdleFacts DEF Undisturbed, RunOK
  <1>4. CASE Fail(w)
    <2>1. /\ UNCHANGED <<list, entries, manual, due, open, state, emergency, zone, white>>
          /\ clean' = FALSE
      BY <1>1, <1>4, InFlight DEF Fail, Step, config, files
    <2>2. TypeOK'
      BY <1>2, <2>1 DEF IInv, TypeOK
    <2> QED BY <1>3, <2>1, <2>2 DEF IInv, QuietRest, QuietTables
  <1>5. CASE Commit(w)
    <2> DEFINE j == job[w]
    <2>1. /\ j.pc = "done" /\ entries' = [l \in Lists |-> Visible(l, j)]
          /\ due' = due \ j.tried /\ clean' = j.alone
          /\ UNCHANGED <<list, manual, open, state, emergency, zone, white>>
      BY <1>5 DEF Commit, files
    <2>2. j \in Jobs /\ j.alone \in BOOLEAN
      BY DEF IInv, TypeOK, Jobs
    <2>3. entries' \in [Lists -> SUBSET Domains]
      <3>1. \A l \in Lists : Visible(l, j) \subseteq Domains
        BY <2>2, VisibleFacts DEF IInv
      <3> QED BY <2>1, <3>1
    <2>4. TypeOK'
      BY <1>2, <2>1, <2>2, <2>3 DEF IInv, TypeOK
    <2>5. ASSUME j.alone PROVE QuietRest' /\ QuietTables'
      <3>1. /\ NoOther(w) /\ zone = Effective(j.blocked, j.allow) /\ white = j.allow
            /\ Sound(w, j)
        BY <2>1, <2>5 DEF IInv, Undisturbed, RunOK
      <3>2. QuietRest'
        BY <1>2, <2>1, <3>1, IdleFacts DEF QuietRest, NoOther
      <3>3. Enabled' = Enabled /\ Enabled \subseteq Lists
        BY <2>1 DEF Enabled
      <3>4. j.allow = AllowedFrom(j, Enabled) /\ j.blocked = BlockedFrom(j, Enabled)
        <4>1. Enabled \ j.left = Enabled /\ HasBlock(w, j) /\ HasAllow(w, j)
          BY <2>1, <3>1 DEF Sound, HasBlock, HasAllow
        <4> QED BY <3>1, <4>1 DEF Sound
      <3>5. WantedAllow' = j.allow
        BY <2>1, <3>3, <3>4 DEF WantedAllow, AllowedFrom
      <3>6. WantedBlock' = j.blocked
        BY <2>1, <3>3, <3>4 DEF WantedBlock, BlockedFrom
      <3>7. QuietTables'
        BY <2>1, <3>1, <3>5, <3>6 DEF QuietTables, Effective
      <3> QED BY <3>2, <3>7
    <2>6. ASSUME ~j.alone PROVE QuietRest' /\ QuietTables'
      BY <2>1, <2>2, <2>6 DEF QuietRest, QuietTables
    <2> QED BY <1>3, <2>4, <2>5, <2>6 DEF IInv
  <1> QED BY <1>4, <1>5

-----------------------------------------------------------------------------
(* The theorems *)

\* Every step preserves the invariant.
THEOREM Invariance == Spec => []IInv
  <1>1. IInv /\ [Next]_vars => IInv'
    <2> SUFFICES ASSUME IInv, [Next]_vars PROVE IInv'
      OBVIOUS
    <2>1. CASE Publish
      BY <2>1, StartsIInv, FetchIInv, FetchFailsIInv, ReadsIInv, ReadEntriesIInv,
         WriteIInv, EndIInv DEF Publish
    <2>2. CASE UNCHANGED vars
      <3>1. TypeOK'
        BY <2>2 DEF IInv, TypeOK, vars
      <3> QED BY <2>2, <3>1, NothingTouched DEF vars, IInv
    <2> QED BY <2>1, <2>2, OperatorIInv, ControlsIInv, ClockIInv DEF Next
  <1> QED BY <1>1, InitIInv, PTL DEF Spec

(***************************************************************************)
(* Type correctness of the publishing state: tables, files, the writers'   *)
(* private results.                                                        *)
(***************************************************************************)
THEOREM TypeCorrect == Spec => []TypeOK
  <1>1. IInv => TypeOK
    BY DEF IInv
  <1> QED BY <1>1, Invariance, PTL

(***************************************************************************)
(* For any lists, feeds and writers: after a run of update_blocklists_job, *)
(* run_schedule_check or blocklists_apply that nothing disturbed, the      *)
(* allow file, and while blocking is on the zone too, say what the         *)
(* database says.                                                          *)
(***************************************************************************)
THEOREM QuietRunPublishes == Spec => []QuietPublish
  <1>1. IInv => QuietPublish
    BY DEF IInv, QuietTables, QuietPublish, WantedZone
  <1> QED BY <1>1, Invariance, PTL

\* What a step must do to a cleared domain to leave it cleared.
LEMMA ClearedStep ==
  ASSUME NEW d \in Domains, Cleared(d), d \in manual'.allow, d \notin zone',
         \A w \in Writers : Collecting(w)' =>
           \/ d \in job'[w].allow
           \/ Collecting(w) /\ job[w].allow \subseteq job'[w].allow
  PROVE  Cleared(d)'
  BY DEF Cleared

\* A step of one writer that goes on to run j.
LEMMA OneKeepsClear ==
  ASSUME IInv, NEW d \in Domains, Cleared(d), d \in manual'.allow, d \notin zone',
         NEW w \in Writers, NEW j, job' = [job EXCEPT ![w] = j],
         \/ j.pc \in {"idle", "lists", "allow", "zoned", "done"}
         \/ j.pc = "fetch" /\ w # "apply"
         \/ d \in j.allow
         \/ Collecting(w) /\ job[w].allow \subseteq j.allow
  PROVE  Cleared(d)'
  <1>1. job'[w] = j /\ \A v \in Writers \ {w} : job'[v] = job[v]
    BY DEF IInv, TypeOK
  <1> QED BY <1>1, ClearedStep DEF Collecting

\* A step that leaves every writer at its stage.
LEMMA SameKeepsClear ==
  ASSUME NEW d \in Domains, Cleared(d), d \in manual'.allow, d \notin zone',
         \A w \in Writers : job'[w].pc = job[w].pc /\ job'[w].allow = job[w].allow
  PROVE  Cleared(d)'
  BY ClearedStep DEF Collecting

\* A writer that starts has not collected anything.
LEMMA StartKeepsClear ==
  ASSUME IInv, NEW d \in Domains, Cleared(d), d \in manual'.allow,
         UpdateStart \/ ScheduleCheck \/ ApplyStart
  PROVE  Cleared(d)'
  <1>1. /\ zone' = zone
        /\ \E w \in {"update", "schedule", "apply"}, pc \in {"fetch", "lists", "allow", "done"} :
             \E S \in SUBSET Lists : Start(w, pc, S) /\ (pc = "fetch" => w # "apply")
    <2>1. CASE UpdateStart
      <3> DEFINE S == Enabled \cap AutoUpdated \cap due
      <3>1. Start("update", AfterFetch("update", S, {}), S) /\ zone' = zone /\ S \in SUBSET Lists
        BY <2>1 DEF UpdateStart, files, Enabled
      <3> HIDE DEF S
      <3>2. AfterFetch("update", S, {}) \in {"fetch", "done"}
        BY DEF AfterFetch
      <3> QED BY <3>1, <3>2
    <2>2. CASE ScheduleCheck
      BY <2>2 DEF ScheduleCheck, files
    <2>3. CASE ApplyStart
      BY <2>3 DEF ApplyStart, files, Enabled
    <2> QED BY <2>1, <2>2, <2>3
  <1>2. PICK w \in {"update", "schedule", "apply"}, pc \in {"fetch", "lists", "allow", "done"} :
          \E S \in SUBSET Lists : Start(w, pc, S) /\ (pc = "fetch" => w # "apply")
    BY <1>1
  <1>3. PICK S \in SUBSET Lists : Start(w, pc, S) /\ (pc = "fetch" => w # "apply")
    BY <1>2
  <1>4. /\ w \in Writers /\ job'[w].pc = pc
        /\ \A v \in Writers \ {w} : job'[v].pc = job[v].pc /\ job'[v].allow = job[v].allow
    BY <1>3, StartFacts DEF IInv
  <1>5. d \notin zone'
    BY <1>1 DEF Cleared
  <1> QED BY <1>3, <1>4, <1>5, ClearedStep DEF Collecting

\* Each step of a writer leaves a cleared domain cleared.
LEMMA WriterKeepsClear ==
  ASSUME IInv, NEW d \in Domains, Cleared(d), d \in manual'.allow, NEW w \in Writers,
         \/ \E l \in Lists :
              FetchFails(w, l) \/ ReadEntries(w, l) \/ \E feed \in Feeds : Fetch(w, l, feed)
         \/ ReadLists(w) \/ ReadAllow(w) \/ ReadBlock(w)
         \/ WriteZone(w) \/ WriteWhite(w) \/ Commit(w) \/ Fail(w)
  PROVE  Cleared(d)'
  <1>0. d \in manual.allow /\ d \notin zone /\ job[w] \in Jobs /\ TypeOK
    BY DEF Cleared, IInv, TypeOK
  <1>1. ASSUME NEW l \in Lists, NEW feed \in Feeds, Fetch(w, l, feed) PROVE Cleared(d)'
    <2> DEFINE p == Past(w, l)
               pc == AfterFetch(w, p.left, p.loaded \cup {l})
               a == IF w = "apply" /\ l \in AllowLists THEN p.allow \cup feed ELSE p.allow
               b == IF w = "apply" /\ l \notin AllowLists THEN p.blocked \cup feed ELSE p.blocked
               j == [p EXCEPT !.pc = pc, !.tried = @ \cup {l}, !.loaded = @ \cup {l},
                              !.got[l] = feed, !.base[l] = entries[l], !.blocked = b, !.allow = a]
    <2>1. job[w].pc = "fetch" /\ job' = [job EXCEPT ![w] = j] /\ zone' = zone
      BY <1>1 DEF Fetch, Step, files
    <2>2. p \in Jobs /\ p.allow = job[w].allow
      BY <1>0, PastFacts
    <2>3. w # "apply" => pc \in {"fetch", "lists"}
      BY DEF AfterFetch
    <2>4. p.allow \subseteq a
      OBVIOUS
    <2> HIDE DEF p, pc, a, b
    <2>5. j.pc = pc /\ j.allow = a
      BY <2>2 DEF Jobs
    <2> HIDE DEF j
    <2>6. w = "apply" => Collecting(w)
      BY <2>1 DEF Collecting
    <2> QED BY <1>0, <2>1, <2>2, <2>3, <2>4, <2>5, <2>6, OneKeepsClear
  <1>2. ASSUME NEW l \in Lists, FetchFails(w, l) PROVE Cleared(d)'
    <2> DEFINE p == Past(w, l)
               pc == AfterFetch(w, p.left, p.loaded)
               alone == p.alone /\ w # "apply" /\ pc # "done"
               j == [p EXCEPT !.pc = pc, !.tried = @ \cup {l}, !.alone = alone]
    <2>1. job[w].pc = "fetch" /\ job' = [job EXCEPT ![w] = j] /\ zone' = zone
      BY <1>2 DEF FetchFails, Step, files
    <2>2. p \in Jobs /\ p.allow = job[w].allow
      BY <1>0, PastFacts
    <2>3. w # "apply" => pc \in {"fetch", "lists", "done"}
      BY DEF AfterFetch
    <2> HIDE DEF p, pc, alone
    <2>4. j.pc = pc /\ j.allow = p.allow
      BY <2>2 DEF Jobs
    <2> HIDE DEF j
    <2>5. w = "apply" => Collecting(w)
      BY <2>1 DEF Collecting
    <2> QED BY <1>0, <2>1, <2>2, <2>3, <2>4, <2>5, OneKeepsClear
  <1>3. ASSUME NEW l \in Lists, ReadEntries(w, l) PROVE Cleared(d)'
    <2> DEFINE p == Past(w, l)
               pc == AfterBlock(w, p.left)
               b == IF l \in AllowLists THEN p.blocked ELSE p.blocked \cup Visible(l, p)
               a == IF l \in AllowLists THEN p.allow \cup Visible(l, p) ELSE p.allow
               j == [p EXCEPT !.pc = pc, !.blocked = b, !.allow = a]
    <2>1. job[w].pc = "entries" /\ job' = [job EXCEPT ![w] = j] /\ zone' = zone
      BY <1>3 DEF ReadEntries, Step, files
    <2>2. p \in Jobs /\ p.allow = job[w].allow /\ p.allow \subseteq a
      BY <1>0, PastFacts
    <2> HIDE DEF p, pc, a, b
    <2>3. j.allow = a
      BY <2>2 DEF Jobs
    <2> HIDE DEF j
    <2>4. Collecting(w)
      BY <2>1 DEF Collecting
    <2> QED BY <1>0, <2>1, <2>2, <2>3, <2>4, OneKeepsClear
  <1>4. CASE ReadLists(w) \/ ReadAllow(w) \/ ReadBlock(w)
    <2> DEFINE r == job[w]
               j1 == [r EXCEPT !.pc = "allow", !.left = Enabled]
               j2 == [r EXCEPT !.pc = "block", !.allow = manual.allow]
               pc == AfterBlock(w, r.left)
               j3 == [r EXCEPT !.pc = pc, !.blocked = manual.block]
    <2>0. /\ zone' = zone
          /\ \/ job' = [job EXCEPT ![w] = j1]
             \/ job' = [job EXCEPT ![w] = j2]
             \/ r.pc = "block" /\ job' = [job EXCEPT ![w] = j3]
      BY <1>4 DEF ReadLists, ReadAllow, ReadBlock, Step, files
    <2>1. j1.pc = "allow" /\ j2.allow = manual.allow /\ j3.allow = r.allow
      <3> HIDE DEF r, pc
      <3> QED BY <1>0 DEF Jobs, r
    <2> HIDE DEF j1, j2, j3
    <2>2. CASE job' = [job EXCEPT ![w] = j1]
      BY <1>0, <2>0, <2>1, <2>2, OneKeepsClear
    <2>3. CASE job' = [job EXCEPT ![w] = j2]
      BY <1>0, <2>0, <2>1, <2>3, OneKeepsClear
    <2>4. CASE r.pc = "block" /\ job' = [job EXCEPT ![w] = j3]
      <3>1. Collecting(w)
        BY <2>4 DEF Collecting
      <3> QED BY <1>0, <2>0, <2>1, <2>4, <3>1, OneKeepsClear
    <2> QED BY <2>0, <2>2, <2>3, <2>4
  <1>5. CASE WriteZone(w) \/ WriteWhite(w)
    <2> DEFINE r == job[w]
    <2>1. PICK p \in {"zoned", "done"} : job' = [job EXCEPT ![w].pc = p]
      BY <1>5 DEF WriteZone, WriteWhite
    <2> DEFINE j == [r EXCEPT !.pc = p]
    <2>2. job' = [job EXCEPT ![w] = j]
      BY <2>1 DEF IInv, TypeOK
    <2>3. j.pc = p
      <3> HIDE DEF r
      <3> QED BY <1>0 DEF Jobs, r
    <2>4. d \notin zone'
      BY <1>0, <1>5 DEF WriteZone, WriteWhite, Cleared, Collecting, Effective
    <2> HIDE DEF j
    <2> QED BY <2>1, <2>2, <2>3, <2>4, OneKeepsClear
  <1>6. CASE Commit(w) \/ Fail(w)
    <2>1. job' = [job EXCEPT ![w] = Idle] /\ zone' = zone
      BY <1>6 DEF Commit, Fail, Step, files
    <2> QED BY <1>0, <2>1, IdleFacts, OneKeepsClear
  <1> QED BY <1>1, <1>2, <1>3, <1>4, <1>5, <1>6

(***************************************************************************)
(* For any lists, feeds and writers: a manually allowed domain that is     *)
(* clear, and that every run in flight past its SELECT of the allow        *)
(* entries has seen there, stays so while its entry stays, whichever       *)
(* writers start, overlap or fail and whatever they read after it.         *)
(***************************************************************************)
THEOREM AllowedNeverBlockedAgain == Spec => AllowedStaysClear
  <1>1. IInv /\ [Next]_vars
          => [\A d \in Domains : Cleared(d) /\ d \in manual'.allow => Cleared(d)']_vars
    <2> SUFFICES ASSUME IInv, Next, NEW d \in Domains, Cleared(d), d \in manual'.allow
                 PROVE  Cleared(d)'
      OBVIOUS
    <2>0. d \notin zone
      BY DEF Cleared
    <2>1. CASE Operator
      <3>1. job' = DisturbAll /\ UNCHANGED files
        BY <2>1 DEF Operator, BlocklistsAdd, BlocklistsToggle, BlocklistsDelete, EntriesAdd,
               EntriesDelete, Edit
      <3> QED BY <2>0, <3>1, DisturbAllFacts, SameKeepsClear DEF files, IInv
    <2>2. CASE Controls
      <3>1. CASE \E s \in Requests : SetBlockingState(s)
        <4>1. job' = DisturbAll /\ UNCHANGED files
          BY <3>1 DEF SetBlockingState
        <4> QED BY <2>0, <4>1, DisturbAllFacts, SameKeepsClear DEF files, IInv
      <3>2. CASE WriteEmergencyRpz \/ EmergencyFailed \/ BlockingEnable \/ PauseExpires
        <4>1. job' = job /\ zone' \subseteq zone
          BY <3>2 DEF WriteEmergencyRpz, EmergencyFailed, BlockingEnable, PauseExpires, files
        <4> QED BY <2>0, <4>1, SameKeepsClear
      <3> QED BY <2>2, <3>1, <3>2 DEF Controls
    <2>3. CASE Clock
      <3>1. job' = job /\ zone' = zone
        BY <2>3 DEF Clock, FallDue, WindowFlips, files
      <3> QED BY <2>0, <3>1, SameKeepsClear
    <2>4. CASE Publish
      BY <2>4, StartKeepsClear, WriterKeepsClear DEF Publish
    <2> QED BY <2>1, <2>2, <2>3, <2>4 DEF Next
  <1> QED BY <1>1, Invariance, PTL DEF Spec, AllowedStaysClear
=============================================================================
