----------------------------- MODULE ConfigSync -----------------------------
(***************************************************************************)
(* Configuration sync from the primary to a secondary: the loop of         *)
(* sync-agent's main against the heartbeat and config handlers.  Each      *)
(* secondary has its own agent and none reads another's state, so one is   *)
(* enough.                                                                 *)
(*                                                                         *)
(* A file is named by its write: every render puts a fresh SOA serial in   *)
(* the content, so equal contents (or hashes) mean the same write.  Both   *)
(* handlers read the two RPZ files one after the other while a publisher   *)
(* (see RpzPublish) writes them one after the other.                       *)
(***************************************************************************)
EXTENDS Naturals

CONSTANTS
  Zones,      \* forward zones the operator can enable for this secondary
  MaxWrites,  \* bound on the writes of each RPZ file
  MaxEdits,   \* bound on the edits of the forward zones
  None        \* config_version_from_primary is None

ASSUME BoundsAssumption == MaxWrites \in Nat /\ MaxEdits \in Nat
ASSUME NoneAssumption == None \notin [zone : Nat, white : Nat]

VARIABLES
  zone, white,    \* the primary's blocklist-combined.rpz and whitelist.rpz
  writing,        \* publishers that have written the first file, not the second
  fz,             \* enabled forward zones in the primary's database
  edits,          \* forward-zone edits so far
  szone, swhite,  \* the secondary's RPZ files
  sfz,            \* the secondary's forward-zones.conf
  pc,             \* where the agent's loop is
  ver,            \* config_version_from_primary of this iteration
  last,           \* last_config_version
  overdue,        \* CONFIG_SYNC_INTERVAL_SECONDS have passed since last_config_sync
  got,            \* the bundle of the config request, and whether both files are in it
  insync          \* history: the last sync wrote both files

primary == <<zone, white, writing, fz, edits>>
secondary == <<szone, swhite, sfz>>
vars == <<primary, secondary, pc, ver, last, overdue, got, insync>>

Versions == [zone : 0 .. MaxWrites, white : 0 .. MaxWrites]
Bundle(z, w, S, full) == [zone |-> z, white |-> w, fz |-> S, full |-> full]
NoBundle == Bundle(0, 0, {}, TRUE)
Bundles == [zone : 0 .. MaxWrites, white : 0 .. MaxWrites, fz : SUBSET Zones, full : BOOLEAN]

TypeOK ==
  /\ zone \in 0 .. MaxWrites /\ white \in 0 .. MaxWrites
  /\ writing \in 0 .. MaxWrites
  /\ fz \subseteq Zones
  /\ edits \in 0 .. MaxEdits
  /\ szone \in 0 .. MaxWrites /\ swhite \in 0 .. MaxWrites
  /\ sfz \subseteq Zones
  /\ pc \in {"beat", "beat2", "decide", "fetch", "fetch2", "zone", "white", "fz"}
  /\ ver \in Versions \cup {None}
  /\ last \in Versions \cup {None}
  /\ overdue \in BOOLEAN
  /\ got \in Bundles
  /\ insync \in BOOLEAN

\* A freshly deployed secondary has the files of its package.
Init ==
  /\ zone = 0 /\ white = 0 /\ writing = 0 /\ fz = {} /\ edits = 0
  /\ szone = 0 /\ swhite = 0 /\ sfz = {}
  /\ pc = "beat" /\ ver = None /\ last = None /\ overdue = TRUE
  /\ got = NoBundle /\ insync = FALSE

-----------------------------------------------------------------------------
(* The primary *)

\* Publishers overlap, and one that fails between its files never writes the
\* second; the emergency controls write the first alone.
WriteZone ==
  /\ zone < MaxWrites
  /\ zone' = zone + 1
  /\ writing' = writing + 1
  /\ UNCHANGED <<white, fz, edits, secondary, pc, ver, last, overdue, got, insync>>

WriteWhite ==
  /\ writing > 0
  /\ white' = white + 1
  /\ writing' = writing - 1
  /\ UNCHANGED <<zone, fz, edits, secondary, pc, ver, last, overdue, got, insync>>

EditForwardZones(S) ==
  /\ edits < MaxEdits /\ S # fz
  /\ fz' = S
  /\ edits' = edits + 1
  /\ UNCHANGED <<zone, white, writing, secondary, pc, ver, last, overdue, got, insync>>

-----------------------------------------------------------------------------
(* The agent's loop *)

\* POST /heartbeat: compute_config_version hashes one file, then the other, and
\* leaves out a file it cannot read (0 here).
Heartbeat ==
  /\ pc = "beat"
  /\ \E z \in {zone, 0} : ver' = [zone |-> z, white |-> 0]
  /\ pc' = "beat2"
  /\ UNCHANGED <<primary, secondary, last, overdue, got, insync>>
HeartbeatAnswered ==
  /\ pc = "beat2"
  /\ \E w \in {white, 0} : ver' = [ver EXCEPT !.white = w]
  /\ pc' = "decide"
  /\ UNCHANGED <<primary, secondary, last, overdue, got, insync>>
\* An error status or an exception leaves config_version_from_primary None.
HeartbeatFailed ==
  /\ pc \in {"beat", "beat2"}
  /\ ver' = None
  /\ pc' = "decide"
  /\ UNCHANGED <<primary, secondary, last, overdue, got, insync>>

\* Mutant: no sync without a change of version.
ShouldSyncOnChange == ver # None /\ ver # last
ShouldSync == (ver # None /\ ver # last) \/ overdue

Decide ==
  /\ pc = "decide"
  /\ \/ ShouldSync /\ pc' = "fetch" /\ UNCHANGED ver
     \/ ~ShouldSync /\ pc' = "beat" /\ ver' = None
  /\ UNCHANGED <<primary, secondary, last, overdue, got, insync>>

\* GET /config: one file, then the other and the database.
Fetch ==
  /\ pc = "fetch"
  /\ got' = Bundle(zone, 0, {}, TRUE)
  /\ pc' = "fetch2"
  /\ UNCHANGED <<primary, secondary, ver, last, overdue, insync>>
FetchAnswered ==
  /\ pc = "fetch2"
  /\ got' = Bundle(got.zone, white, fz, got.full)
  /\ pc' = "zone"
  /\ UNCHANGED <<primary, secondary, ver, last, overdue, insync>>
\* A file that cannot be read is missing in the bundle: the agent keeps its own.
ZoneUnreadable ==
  /\ pc = "fetch"
  /\ got' = Bundle(szone, 0, {}, FALSE)
  /\ pc' = "fetch2"
  /\ UNCHANGED <<primary, secondary, ver, last, overdue, insync>>
WhiteUnreadable ==
  /\ pc = "fetch2"
  /\ got' = Bundle(got.zone, swhite, fz, FALSE)
  /\ pc' = "zone"
  /\ UNCHANGED <<primary, secondary, ver, last, overdue, insync>>

ApplyZone ==
  /\ pc = "zone"
  /\ szone' = got.zone
  /\ pc' = "white"
  /\ UNCHANGED <<primary, swhite, sfz, ver, last, overdue, got, insync>>
ApplyWhite ==
  /\ pc = "white"
  /\ swhite' = got.white
  /\ pc' = "fz"
  /\ UNCHANGED <<primary, szone, sfz, ver, last, overdue, got, insync>>

\* Mutant: the version is asked for again after the sync.
EndSyncReread ==
  /\ last' = [zone |-> zone, white |-> white]
  /\ overdue' = FALSE
  /\ pc' = "beat" /\ ver' = None /\ got' = NoBundle

\* last_config_sync and last_config_version are set however the sync ended; the
\* next iteration starts with no version and no bundle.
EndSync ==
  /\ last' = ver
  /\ overdue' = FALSE
  /\ pc' = "beat" /\ ver' = None /\ got' = NoBundle

\* An empty list of forward zones is not written.
Forwarded(S) == IF S # {} THEN S ELSE sfz

ApplyForwardZones ==
  /\ pc = "fz"
  /\ sfz' = Forwarded(got.fz)
  /\ insync' = got.full
  /\ EndSync
  /\ UNCHANGED <<primary, szone, swhite>>

\* A failed request, or an exception in the middle of the files.
SyncFailed ==
  /\ pc \in {"fetch", "fetch2", "zone", "white", "fz"}
  /\ insync' = FALSE
  /\ EndSync
  /\ UNCHANGED <<primary, secondary>>

\* Mutant: the files are emptied when the agent starts.
RestartEmpty ==
  /\ pc' = "beat"
  /\ ver' = None
  /\ last' = None
  /\ overdue' = TRUE
  /\ insync' = FALSE
  /\ szone' = 0 /\ swhite' = 0
  /\ got' = NoBundle
  /\ UNCHANGED <<primary, sfz>>

\* The agent restarts, registers again and forgets what it knew.
Restart ==
  /\ pc' = "beat"
  /\ ver' = None
  /\ last' = None
  /\ overdue' = TRUE
  /\ insync' = FALSE
  /\ got' = NoBundle
  /\ UNCHANGED <<primary, secondary>>

IntervalPasses ==
  /\ ~overdue
  /\ overdue' = TRUE
  /\ UNCHANGED <<primary, secondary, pc, ver, last, got, insync>>

Next ==
  \/ WriteZone \/ WriteWhite \/ \E S \in SUBSET Zones : EditForwardZones(S)
  \/ Heartbeat \/ HeartbeatAnswered \/ HeartbeatFailed \/ Decide
  \/ Fetch \/ FetchAnswered \/ ZoneUnreadable \/ WhiteUnreadable
  \/ ApplyZone \/ ApplyWhite \/ ApplyForwardZones
  \/ SyncFailed \/ Restart \/ IntervalPasses

Spec == Init /\ [][Next]_vars
-----------------------------------------------------------------------------
(* Properties *)

(***************************************************************************)
(* The version check hides no change: when the last sync was complete and  *)
(* the primary's version is the one the agent remembers, the secondary has *)
(* the primary's RPZ files.  It holds because the version is read before   *)
(* the bundle, though each is two reads that a publisher can fall between. *)
(***************************************************************************)
VersionMatchMeansInSync ==
  pc = "beat" /\ insync /\ last = [zone |-> zone, white |-> white]
    => szone = zone /\ swhite = white

(***************************************************************************)
(* The secondary's RPZ files never go back to an older write, whatever     *)
(* fails or restarts in the middle of a sync.                              *)
(***************************************************************************)
NeverOlder == [][szone' >= szone /\ swhite' >= swhite]_vars

(***************************************************************************)
(* Fairness.  The agent's loop runs for ever (restart: unless-stopped) and *)
(* the interval passes; nothing is asked of the publishers.  That the      *)
(* primary answers and the agent survives to take a step that is possible  *)
(* again and again is assumed of the environment, and so is that the       *)
(* primary's files do not stay unreadable.                                 *)
(***************************************************************************)
Fairness ==
  /\ WF_vars(Heartbeat \/ HeartbeatFailed) /\ WF_vars(HeartbeatAnswered \/ HeartbeatFailed)
  /\ SF_vars(Decide)
  /\ WF_vars(IntervalPasses)
  /\ SF_vars(Fetch) /\ SF_vars(FetchAnswered)
  /\ SF_vars(ApplyZone) /\ SF_vars(ApplyWhite) /\ SF_vars(ApplyForwardZones)
ReadErrorsEnd == <>[][~(ZoneUnreadable \/ WhiteUnreadable)]_vars
FairSpec == Spec /\ Fairness /\ ReadErrorsEnd

(***************************************************************************)
(* The secondary comes to serve the primary's last RPZ files and keeps     *)
(* them, although a failed sync already counts its version as seen: the    *)
(* interval repairs it.  It comes to forward what the primary's database   *)
(* says, although the version does not cover forward zones; unless the     *)
(* last zone is removed, which sync_config takes for no list.              *)
(***************************************************************************)
SecondaryConverges ==
  <>[](szone = zone /\ swhite = white /\ (fz # {} => sfz = fz))
=============================================================================
