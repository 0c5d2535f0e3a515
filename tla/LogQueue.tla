----------------------------- MODULE LogQueue -----------------------------
(***************************************************************************)
(* What AsyncLogging promises: the file is at all times a prefix of the    *)
(* messages in the order append accepted them, and only grows.             *)
(***************************************************************************)
EXTENDS Naturals, Sequences

CONSTANT Messages

VARIABLES accepted,     \* messages handed to append, in the mutex's order
          out           \* messages in the file

vars == <<accepted, out>>

Init == accepted = <<>> /\ out = <<>>

Accept ==
    /\ \E m \in Messages : accepted' = Append(accepted, m)
    /\ UNCHANGED out

Emit ==
    /\ \E n \in Len(out) .. Len(accepted) : out' = SubSeq(accepted, 1, n)
    /\ UNCHANGED accepted

Spec == Init /\ [][Accept \/ Emit]_vars
=============================================================================
