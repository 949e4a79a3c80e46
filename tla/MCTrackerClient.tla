--------------------------- MODULE MCTrackerClient ---------------------------
(***************************************************************************)
(* TrackerClient with the main thread and a thread of a pool, each logging *)
(* for a run of its own, so that a batch may need two requests.            *)
(***************************************************************************)
EXTENDS TrackerClient

CONSTANTS main_thread, pool_thread, run1, run2, MainUpdates, PoolUpdates

Threads == {main_thread, pool_thread}
UpdatesOf == [p \in Threads |-> IF p = main_thread THEN MainUpdates ELSE PoolUpdates]
RunOfThread == [p \in Threads |-> IF p = main_thread THEN run1 ELSE run2]
=============================================================================
