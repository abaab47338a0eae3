------------------------------ MODULE MCSandbox ------------------------------
EXTENDS Sandbox

MCContainers == [p \in Pods |-> IF p = "p" THEN <<"init", "app">> ELSE <<"app">>]
MCPawnOf == [p \in Pods |-> "pawn"]
=============================================================================
