----------------------------- MODULE ByteStream -----------------------------
(***************************************************************************)
(* What each direction of a connection promises: the bytes that come out   *)
(* are at all times a prefix of the bytes that went in, and neither side   *)
(* takes back what it has seen.  One step may move both ends.              *)
(***************************************************************************)
EXTENDS Sequences, SequencesExt

VARIABLES put,      \* bytes that went in
          got       \* bytes that came out

vars == <<put, got>>

Init == put = <<>> /\ got = <<>>

Next ==
    /\ IsPrefix(put, put')
    /\ IsPrefix(got, got')
    /\ IsPrefix(got', put')

Spec == Init /\ [][Next]_vars
=============================================================================
