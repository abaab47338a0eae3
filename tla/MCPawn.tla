------------------------------- MODULE MCPawn -------------------------------
(* Small pawns for TLC: one pod, or two pods of one name. *)
EXTENDS Pawn

CONSTANTS n1, u1, u2, e1

OnePod   == {u1}
TwoPods  == {u1, u2}
OneName  == {n1}
SameName == [u \in Uids |-> n1]
UnitCost == [u \in Uids |-> 1]
MCCallers == Names \cup Uids \cup Evictors
=============================================================================
