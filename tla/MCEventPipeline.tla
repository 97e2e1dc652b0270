--------------------------- MODULE MCEventPipeline ---------------------------
(* Small instances of EventPipeline for TLC. *)
EXTENDS EventPipeline
CONSTANTS e1, e2, e3
MCEvents == {e1, e2, e3}
MCTwoEvents == {e1, e2}
MCUnacceptable == {e3}
MCNone == {}
=============================================================================
