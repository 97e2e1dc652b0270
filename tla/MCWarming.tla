------------------------------ MODULE MCWarming ------------------------------
(* Small instance of Warming for TLC. *)
EXTENDS Warming
MCTtls == {1, 2}
MCShort == {1}
=============================================================================
