------------------------------ MODULE MCWatcher -----------------------------
(* One pod of one container for TLC. *)
EXTENDS Watcher

CONSTANT c1

OneContainer == <<c1>>
=============================================================================
