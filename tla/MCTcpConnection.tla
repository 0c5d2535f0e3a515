-------------------------- MODULE MCTcpConnection --------------------------
(* A connection for TLC: buffers with two cells to spare, extrabuf and the *)
(* kernel's buffer of two bytes, so that a message of three overflows each *)
(* of them.                                                                *)
EXTENDS TcpConnection

SmallMessages == {<<"a">>, <<"b", "CR", "LF">>}
=============================================================================
