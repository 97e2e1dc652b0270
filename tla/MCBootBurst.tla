----------------------------- MODULE MCBootBurst -----------------------------
(* Small instance of BootBurst for TLC: two qtypes of one qname and another
   qname, with a pair listed twice. *)
EXTENDS BootBurst
CONSTANTS p1, p2, p3, n1, n2
MCPairs == {p1, p2, p3}
MCQnames == {n1, n2}
MCQname == [p \in MCPairs |-> IF p = p3 THEN n2 ELSE n1]
MCRequested == <<p1, p2, p1, p3>>
=============================================================================
