------------------------------ MODULE MCImages ------------------------------
(***************************************************************************)
(* Two hosts: two pods of "a" and one pod of "b" use an image of one layer *)
(* whose second version has another one.                                   *)
(***************************************************************************)
EXTENDS Images

MCPulls == {"a1", "a2", "b1"}
MCHostOf == [p \in MCPulls |-> IF p = "b1" THEN "b" ELSE "a"]
MCLayersOf == <<{"l1"}, {"l2"}>>
=============================================================================
