-------------------------- MODULE MCNodeController --------------------------
(* NodeController on small instances. *)
EXTENDS NodeController

CONSTANT p1

OnePod == {p1}
=============================================================================
