--------------------------- MODULE MCEventLoop ---------------------------
(* Small instances of EventLoop for TLC: two threads besides the owner, so *)
(* that calls overlap each other as well as the loop, and three functors,  *)
(* so that one can be running, one swapped out and one still being queued. *)
EXTENDS EventLoop
=============================================================================
