---------------------------- MODULE MCRpzPublish ----------------------------
(* Small instances of RpzPublish for TLC. *)
EXTENDS RpzPublish
CONSTANTS l1, a1, d1
MCUpdateApply == {"update", "apply"}
MCScheduleApply == {"schedule", "apply"}
MCUpdateOnly == {"update"}
MCOneList == {l1}
MCBothLists == {l1, a1}
MCAllowLists == {a1}
MCOneDomain == {d1}
MCFeeds == {{}, {d1}}
MCFullFeed == {{d1}}
MCTypes == {"allow", "block"}
MCAllowOnly == {"allow"}
MCPause == {"paused"}
MCDisable == {"disabled"}
MCNone == {}
=============================================================================
