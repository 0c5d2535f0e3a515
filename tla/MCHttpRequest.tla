-------------------------- MODULE MCHttpRequest --------------------------
(* A small instance of HttpRequest for TLC.                                *)
EXTENDS HttpRequest

Line(method, version) == <<method, "sp", "word", "sp", version, "CR", "LF">>
Header == <<"word", ":", "word", "CR", "LF">>
Close  == <<"Connection", ":", "sp", "close", "CR", "LF">>
Empty  == <<"CR", "LF">>

\* Requests that ask for a close or not, as the last header or not, with and
\* without headers, body, second space, known version or method; the
\* start of a second request; a header of two bytes.
SmallStreams ==
    {Line("GET", "HTTP/1.0") \o Header \o Close \o Empty,
     Line("GET", "HTTP/1.1") \o Close \o Header \o Empty,
     Line("GET", "HTTP/1.1") \o Header \o Empty \o <<"word">>,
     Line("GET", "HTTP/1.0") \o Empty \o Header,
     Line("GET", "word") \o Header \o <<"sp", ":", "CR", "LF">> \o Empty,
     Line("GET", "HTTP/1.1") \o Close \o Empty \o <<"GET", "sp">>,
     <<"GET", "sp", "word", "CR", "LF">> \o Header \o Empty,
     <<"GET", "CR", "LF">> \o Header \o Empty,
     Line("PATCH", "HTTP/1.1") \o Header \o Empty,
     Line("word", "HTTP/1.1") \o Header \o Empty}
=============================================================================
