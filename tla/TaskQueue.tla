----------------------------- MODULE TaskQueue -----------------------------
(***************************************************************************)
(* What an EventLoop promises to the threads that hand it work, with the   *)
(* mutex, the two vectors and the eventfd left out: tasks wait in one line *)
(* and leave it one at a time, in the order they joined it, each once.     *)
(* The loop's own thread may also run a task on the spot (runInLoop), in   *)
(* which case it never joins the line.                                     *)
(***************************************************************************)
EXTENDS Sequences, Functions

CONSTANT Tasks          \* the calls: each element is handed over at most once

VARIABLES todo,         \* tasks handed over and not yet started, oldest first
          done          \* tasks started, in the order they were

vars == <<todo, done>>

Fresh(t) == t \notin Range(todo) \cup Range(done)

Init == todo = <<>> /\ done = <<>>

Post(t) ==
    /\ Fresh(t)
    /\ todo' = Append(todo, t)
    /\ UNCHANGED done

RunHead ==
    /\ todo # <<>>
    /\ done' = Append(done, Head(todo))
    /\ todo' = Tail(todo)

RunNow(t) ==
    /\ Fresh(t)
    /\ done' = Append(done, t)
    /\ UNCHANGED todo

Next == RunHead \/ \E t \in Tasks : Post(t) \/ RunNow(t)

Spec == Init /\ [][Next]_vars
=============================================================================
