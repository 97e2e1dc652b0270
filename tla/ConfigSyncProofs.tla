-------------------------- MODULE ConfigSyncProofs --------------------------
(***************************************************************************)
(* Proofs about ConfigSync, for any bounds and any set of zones.           *)
(***************************************************************************)
EXTENDS ConfigSync, TLAPS

\* Version v is not newer than the files z and w.
NotAfter(v, z, w) == v # None => v.zone <= z /\ v.white <= w

(***************************************************************************)
(* What the agent holds is ordered in time: the version it heard, then the *)
(* bundle it fetched, then the primary; and what the secondary serves is   *)
(* at least as new as the version of its last complete sync.  Each         *)
(* publisher writes the second file at most once per write of the first.   *)
(***************************************************************************)
Ordered ==
  /\ white + writing <= zone
  /\ szone <= zone /\ swhite <= white
  /\ NotAfter(ver, zone, white)
  /\ pc \in {"fetch2", "zone", "white", "fz"} =>
       /\ szone <= got.zone /\ got.zone <= zone
       /\ got.full /\ ver # None => ver.zone <= got.zone
  /\ pc \in {"zone", "white", "fz"} =>
       /\ swhite <= got.white /\ got.white <= white
       /\ got.full /\ ver # None => ver.white <= got.white
  /\ pc \in {"white", "fz"} => szone = got.zone
  /\ pc = "fz" => swhite = got.white
  /\ pc = "beat2" => ver # None
  /\ insync => NotAfter(last, szone, swhite)

IInv == TypeOK /\ Ordered

\* A version has two components, which are numbers.
LEMMA VersionFacts ==
  /\ \A v \in Versions : v.zone \in Nat /\ v.white \in Nat /\ v # None
  /\ \A z, w \in 0 .. MaxWrites :
       /\ [zone |-> z, white |-> w] \in Versions
       /\ [zone |-> z, white |-> w].zone = z
       /\ [zone |-> z, white |-> w].white = w
  <1>1. \A v \in Versions : v \in [zone : Nat, white : Nat]
    BY BoundsAssumption DEF Versions
  <1> QED BY <1>1, NoneAssumption DEF Versions

\* Changing one component of a version.
LEMMA VersionUpdate ==
  \A v \in Versions, w \in 0 .. MaxWrites :
    LET u == [v EXCEPT !.white = w] IN
    u \in Versions /\ u.zone = v.zone /\ u.white = w
  BY DEF Versions

\* What a bundle is made of.
LEMMA BundleFacts ==
  ASSUME NEW z \in 0 .. MaxWrites, NEW w \in 0 .. MaxWrites, NEW S \in SUBSET Zones,
         NEW full \in BOOLEAN
  PROVE  /\ Bundle(z, w, S, full) \in Bundles
         /\ Bundle(z, w, S, full).zone = z /\ Bundle(z, w, S, full).white = w
         /\ Bundle(z, w, S, full).full = full
  BY DEF Bundle, Bundles

\* Outside of a sync the agent holds the empty bundle.
LEMMA NoBundleFact == NoBundle \in Bundles
  <1>1. 0 \in 0 .. MaxWrites
    BY BoundsAssumption
  <1> QED BY <1>1 DEF NoBundle, Bundle, Bundles

\* The state of a freshly deployed secondary satisfies the invariant.
LEMMA InitIInv == Init => IInv
  <1> SUFFICES ASSUME Init PROVE IInv
    OBVIOUS
  <1>1. 0 \in 0 .. MaxWrites /\ 0 \in 0 .. MaxEdits
    BY BoundsAssumption
  <1>2. TypeOK
    BY <1>1, NoBundleFact DEF Init, TypeOK
  <1>3. Ordered
    BY DEF Init, Ordered, NotAfter
  <1> QED BY <1>2, <1>3 DEF IInv

\* Every step preserves the inductive invariant.
LEMMA NextIInv == IInv /\ [Next]_vars => IInv'
  <1> SUFFICES ASSUME IInv, [Next]_vars PROVE IInv'
    OBVIOUS
  <1> USE BoundsAssumption DEF IInv
  <1> USE VersionFacts
  <1>1. CASE WriteZone
    <2>1. zone + 1 \in 0 .. MaxWrites /\ writing + 1 \in 0 .. MaxWrites
      BY <1>1 DEF WriteZone, TypeOK, Ordered
    <2> QED BY <1>1, <2>1 DEF WriteZone, TypeOK, Bundles, Ordered, NotAfter, secondary
  <1>2. CASE WriteWhite
    <2>1. /\ white' \in 0 .. MaxWrites /\ white' >= white
          /\ writing' \in 0 .. MaxWrites /\ white' + writing' = white + writing
      BY <1>2 DEF WriteWhite, TypeOK, Ordered
    <2>2. UNCHANGED <<zone, fz, edits, szone, swhite, sfz, pc, ver, last, overdue, got, insync>>
      BY <1>2 DEF WriteWhite, secondary
    <2>3. TypeOK'
      BY <2>1, <2>2 DEF TypeOK
    <2>4. /\ swhite <= white' /\ NotAfter(ver, zone, white')
          /\ pc \in {"zone", "white", "fz"} => got.white <= white'
      BY <2>1 DEF TypeOK, Bundles, Ordered, NotAfter
    <2>5. Ordered'
      BY <2>1, <2>2, <2>4 DEF Ordered, NotAfter
    <2> QED BY <2>3, <2>5
  <1>3. ASSUME NEW S \in SUBSET Zones, EditForwardZones(S)
        PROVE  IInv'
    BY <1>3 DEF EditForwardZones, TypeOK, Ordered, NotAfter, secondary
  <1>4. CASE Heartbeat
    BY <1>4 DEF Heartbeat, TypeOK, Ordered, NotAfter, primary, secondary
  <1>5. CASE HeartbeatAnswered
    <2>1. /\ ver' \in Versions /\ ver'.zone = ver.zone /\ ver'.white \in {white, 0}
          /\ pc' = "decide"
          /\ UNCHANGED <<zone, white, writing, fz, edits, szone, swhite, sfz, last,
                         overdue, got, insync>>
      BY <1>5, VersionUpdate DEF HeartbeatAnswered, TypeOK, Ordered, primary, secondary
    <2> QED BY <1>5, <2>1 DEF HeartbeatAnswered, TypeOK, Ordered, NotAfter
  <1>6. CASE HeartbeatFailed
    BY <1>6 DEF HeartbeatFailed, TypeOK, Ordered, NotAfter, primary, secondary
  <1>7. CASE Decide
    BY <1>7 DEF Decide, TypeOK, Ordered, NotAfter, primary, secondary
  <1>8. CASE Fetch \/ ZoneUnreadable
    <2>1. 0 \in 0 .. MaxWrites /\ {} \in SUBSET Zones
      OBVIOUS
    <2>2. zone \in 0 .. MaxWrites /\ szone \in 0 .. MaxWrites
      BY DEF TypeOK
    <2>3. /\ got' \in Bundles
          /\ got'.zone = zone \/ (got'.zone = szone /\ ~got'.full)
      <3>1. CASE Fetch
        <4>1. got' = Bundle(zone, 0, {}, TRUE)
          BY <3>1 DEF Fetch
        <4>2. /\ Bundle(zone, 0, {}, TRUE) \in Bundles
              /\ Bundle(zone, 0, {}, TRUE).zone = zone
          BY <2>1, <2>2 DEF Bundle, Bundles
        <4> QED BY <4>1, <4>2
      <3>2. CASE ZoneUnreadable
        <4>1. got' = Bundle(szone, 0, {}, FALSE)
          BY <3>2 DEF ZoneUnreadable
        <4>2. /\ Bundle(szone, 0, {}, FALSE) \in Bundles
              /\ Bundle(szone, 0, {}, FALSE).zone = szone
              /\ Bundle(szone, 0, {}, FALSE).full = FALSE
          BY <2>1, <2>2 DEF Bundle, Bundles
        <4> QED BY <4>1, <4>2
      <3> QED BY <1>8, <3>1, <3>2
    <2>4. /\ pc' = "fetch2"
          /\ UNCHANGED <<zone, white, writing, fz, edits, szone, swhite, sfz, ver, last,
                         overdue, insync>>
      BY <1>8 DEF Fetch, ZoneUnreadable, primary, secondary
    <2>5. TypeOK'
      BY <2>3, <2>4 DEF TypeOK
    <2>6. Ordered'
      BY <2>2, <2>3, <2>4 DEF TypeOK, Ordered, NotAfter
    <2> QED BY <2>5, <2>6
  <1>9. CASE FetchAnswered \/ WhiteUnreadable
    <2>1. /\ got.zone \in 0 .. MaxWrites /\ got.full \in BOOLEAN
          /\ white \in 0 .. MaxWrites /\ swhite \in 0 .. MaxWrites /\ fz \in SUBSET Zones
      BY DEF TypeOK, Bundles
    <2>2. /\ got' \in Bundles /\ got'.zone = got.zone /\ (got'.full => got.full)
          /\ got'.white = white \/ (got'.white = swhite /\ ~got'.full)
      <3>1. CASE FetchAnswered
        <4>1. got' = Bundle(got.zone, white, fz, got.full)
          BY <3>1 DEF FetchAnswered
        <4>2. /\ Bundle(got.zone, white, fz, got.full) \in Bundles
              /\ Bundle(got.zone, white, fz, got.full).zone = got.zone
              /\ Bundle(got.zone, white, fz, got.full).white = white
              /\ Bundle(got.zone, white, fz, got.full).full = got.full
          BY <2>1, BundleFacts
        <4> QED BY <4>1, <4>2
      <3>2. CASE WhiteUnreadable
        <4>1. got' = Bundle(got.zone, swhite, fz, FALSE)
          BY <3>2 DEF WhiteUnreadable
        <4>2. /\ Bundle(got.zone, swhite, fz, FALSE) \in Bundles
              /\ Bundle(got.zone, swhite, fz, FALSE).zone = got.zone
              /\ Bundle(got.zone, swhite, fz, FALSE).white = swhite
              /\ Bundle(got.zone, swhite, fz, FALSE).full = FALSE
          BY <2>1 DEF Bundle, Bundles
        <4> QED BY <4>1, <4>2
      <3> QED BY <1>9, <3>1, <3>2
    <2>3. /\ pc = "fetch2" /\ pc' = "zone"
          /\ UNCHANGED <<zone, white, writing, fz, edits, szone, swhite, sfz, ver, last,
                         overdue, insync>>
      BY <1>9 DEF FetchAnswered, WhiteUnreadable, primary, secondary
    <2>4. TypeOK'
      BY <2>2, <2>3 DEF TypeOK
    <2>5. Ordered'
      BY <2>1, <2>2, <2>3 DEF TypeOK, Ordered, NotAfter
    <2> QED BY <2>4, <2>5
  <1>10. CASE ApplyZone
    BY <1>10 DEF ApplyZone, TypeOK, Bundles, Ordered, NotAfter, primary
  <1>11. CASE ApplyWhite
    BY <1>11 DEF ApplyWhite, TypeOK, Bundles, Ordered, NotAfter, primary
  <1>12. CASE ApplyForwardZones
    BY <1>12, NoBundleFact
    DEF ApplyForwardZones, EndSync, Forwarded, TypeOK, Bundles, Ordered, NotAfter, primary
  <1>13. CASE SyncFailed
    BY <1>13, NoBundleFact DEF SyncFailed, EndSync, TypeOK, Ordered, NotAfter, primary, secondary
  <1>14. CASE Restart
    BY <1>14, NoBundleFact DEF Restart, TypeOK, Ordered, NotAfter, primary, secondary
  <1>15. CASE IntervalPasses
    BY <1>15 DEF IntervalPasses, TypeOK, Ordered, NotAfter, primary, secondary
  <1>16. CASE UNCHANGED vars
    BY <1>16 DEF vars, TypeOK, Ordered, NotAfter, primary, secondary
  <1> QED
    BY <1>1, <1>2, <1>3, <1>4, <1>5, <1>6, <1>7, <1>8, <1>9, <1>10, <1>11, <1>12,
       <1>13, <1>14, <1>15, <1>16 DEF Next

-----------------------------------------------------------------------------
\* The inductive invariant holds of every reachable state.
THEOREM Invariance == Spec => []IInv
  <1> QED BY InitIInv, NextIInv, PTL DEF Spec

\* Files, versions and bundle are always of their types.
THEOREM TypeCorrect == Spec => []TypeOK
  <1>1. IInv => TypeOK
    BY DEF IInv
  <1> QED BY <1>1, Invariance, PTL

\* The version check hides no change from an agent whose last sync succeeded.
THEOREM VersionCheckSound == Spec => []VersionMatchMeansInSync
  <1>1. IInv => VersionMatchMeansInSync
    <2> SUFFICES ASSUME IInv, pc = "beat", insync, last = [zone |-> zone, white |-> white]
                 PROVE  szone = zone /\ swhite = white
      BY DEF VersionMatchMeansInSync
    <2>1. last # None /\ last.zone = zone /\ last.white = white
      BY VersionFacts DEF IInv, TypeOK
    <2> QED BY <2>1, BoundsAssumption DEF IInv, TypeOK, Ordered, NotAfter
  <1> QED BY <1>1, Invariance, PTL

\* A secondary never goes back to an older RPZ file.
THEOREM FilesNeverOlder == Spec => NeverOlder
  <1>1. ASSUME IInv, [Next]_vars PROVE [szone' >= szone /\ swhite' >= swhite]_vars
    <2> USE <1>1, BoundsAssumption DEF IInv
    <2>1. CASE ApplyZone
      BY <2>1 DEF ApplyZone, TypeOK, Ordered
    <2>2. CASE ApplyWhite
      BY <2>2 DEF ApplyWhite, TypeOK, Ordered
    <2>3. CASE UNCHANGED <<szone, swhite>>
      BY <2>3 DEF TypeOK
    <2> QED
      BY <2>1, <2>2, <2>3
      DEF Next, WriteZone, WriteWhite, EditForwardZones, Heartbeat, HeartbeatAnswered,
          HeartbeatFailed, Decide, Fetch, FetchAnswered, ZoneUnreadable, WhiteUnreadable,
          ApplyForwardZones, SyncFailed, Restart, IntervalPasses, secondary
  <1> QED BY <1>1, Invariance, PTL DEF Spec, NeverOlder
=============================================================================
