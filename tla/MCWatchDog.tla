----------------------------- MODULE MCWatchDog -----------------------------
(* Three threads: one in connected(), one taking the session down, and one *)
(* running the timer's handlers.                                           *)
EXTENDS WatchDog
=============================================================================
