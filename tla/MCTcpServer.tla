--------------------------- MODULE MCTcpServer ---------------------------
(* Small instances of TcpServer for TLC.                                   *)
EXTENDS TcpServer

\* What HttpServer::onMessage does with a connection: the answer, followed by
\* shutdown() unless the request said "Connection: close".
HttpCallbacks == {<<"send">>, <<"send", "shutdown">>, <<"spin">>}
PlainCallbacks == {<<"send">>}
CloseCallbacks == {<<"send">>, <<"closeConnection">>}
=============================================================================
