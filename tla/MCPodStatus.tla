---------------------------- MODULE MCPodStatus -----------------------------
(* Two pods that bear one name in turn. *)
EXTENDS PodStatus

CONSTANTS u1, u2

TwoPods == <<u1, u2>>
=============================================================================
