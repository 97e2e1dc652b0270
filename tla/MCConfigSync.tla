---------------------------- MODULE MCConfigSync ----------------------------
(* Small instances of ConfigSync for TLC. *)
EXTENDS ConfigSync
CONSTANT z1
MCOneZone == {z1}
=============================================================================
