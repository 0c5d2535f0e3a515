---------------------- MODULE MCEventLoopThreadPool ----------------------
(* Three threads, so that one is being started while two are in their      *)
(* loops, and enough tasks for the round robin to go round more than once. *)
EXTENDS EventLoopThreadPool
=============================================================================
