---------------------------- MODULE HttpRequest ----------------------------
(***************************************************************************)
(* net/HttpData.cc and net/HttpServer.cc: a request, in as many pieces as  *)
(* TCP makes of it, goes through HttpServer::onMessage, which parses what  *)
(* inputBuffer_ holds and answers each piece.                              *)
(*                                                                         *)
(* A request is a sequence of symbols: words, which are longer than two    *)
(* bytes, and the one-byte characters the parser looks for.  Nothing is    *)
(* ever retrieved from inputBuffer_, so that it holds all that was received*)
(* and a pointer into it is a position in the stream.                      *)
(***************************************************************************)
EXTENDS Integers, Sequences, FiniteSetsExt

CONSTANTS Streams,      \* what a client may send on one connection
          MaxPieces     \* bound: pieces answered on one connection

Methods    == {"GET"}           \* any of the seven
Lookalikes == {"PATCH"}         \* as long as a method, and none
Blank      == {"sp", "CR", "LF"}
OneByte    == Blank \cup {":"}
Symbols    == Methods \cup Lookalikes \cup OneByte \cup
              {"word", "HTTP/1.0", "HTTP/1.1", "Connection", "close"}

ASSUME StreamsAreSymbols == Streams \subseteq Seq(Symbols)

VARIABLES
    stream,             \* what this client sends
    received,           \* how much of it inputBuffer_ holds
    reqParseState_, lineParseState_,
    version_,
    connectionHeader,   \* requestHeaders_["Connection"]: "", "close" or "other"
    pc,                 \* "poll", "parse" or "bad": where onMessage is
    begin,              \* start of parseRequest, begin of parseReqLine
    shut,               \* the socket was shut down for writing
    answers,            \* the responses sent, and what had been received then
    fault

parser == <<reqParseState_, lineParseState_, version_, connectionHeader>>
socket == <<shut, answers, fault>>
vars   == <<stream, received, parser, pc, begin, socket>>

Init ==
    /\ stream \in Streams /\ received = 0
    /\ reqParseState_ = "ExceptRequestLine" /\ lineParseState_ = "ExceptMethod"
    /\ version_ = "HTTP/1.1" /\ connectionHeader = ""
    /\ pc = "poll" /\ begin = 1
    /\ shut = FALSE /\ answers = <<>> /\ fault = "none"

Up == fault = "none"

\* Buffer::findCRLF and memmem: the "\r\n" received from position p on.
Crlfs(p) == {i \in p .. received - 1 : stream[i] = "CR" /\ stream[i + 1] = "LF"}
Spaces(p, end) == {i \in p .. end - 1 : stream[i] = "sp"}

-----------------------------------------------------------------------------
\* Data arrives: readFd appends it, and onMessage calls parseRequest, which
\* starts at the first byte of the buffer whatever it has already parsed.
Receive ==
    /\ Up /\ pc = "poll" /\ Len(answers) < MaxPieces
    /\ received' \in received + 1 .. Len(stream)
    /\ pc' = "parse" /\ begin' = 1
    /\ UNCHANGED <<stream, parser, socket>>

AtLine(state) ==
    Up /\ pc = "parse" /\ reqParseState_ = "ExceptRequestLine"
       /\ lineParseState_ = state

\* parseRequest returns false.
Unfinished ==
    pc' = "bad" /\ UNCHANGED <<stream, received, parser, begin, socket>>

\* Without a CRLF parseReqLine searches up to a null pointer.  That is
\* undefined: std::find returns the null pointer, or reads on past the buffer.
NoLineYet ==
    /\ AtLine("ExceptMethod") /\ Crlfs(1) = {}
    /\ \/ Unfinished
       \/ /\ fault' = "read past the buffer"
          /\ UNCHANGED <<stream, received, parser, pc, begin, shut, answers>>

\* Slip: the switch has no default.
StaysNoDefault(word) == word \notin {<<m>> : m \in Methods}

\* A word as long as a method that is not one leaves the state, and the loop,
\* as they are: the while goes round for ever.
Stays(word) == word \in {<<m>> : m \in Lookalikes}

ParseMethod ==
    /\ AtLine("ExceptMethod") /\ Crlfs(1) # {}
    /\ LET spaces == Spaces(begin, Min(Crlfs(1)))
           word == SubSeq(stream, begin, Min(spaces) - 1)
           known == word \in {<<m>> : m \in Methods}
       IN  \/ spaces = {} /\ Unfinished
           \/ /\ spaces # {} /\ known
              /\ lineParseState_' = "ExceptUri" /\ begin' = Min(spaces) + 1
              /\ UNCHANGED <<stream, received, reqParseState_, version_,
                             connectionHeader, pc, socket>>
           \/ spaces # {} /\ ~known /\ Stays(word) /\ UNCHANGED vars
           \/ spaces # {} /\ ~known /\ ~Stays(word) /\ Unfinished

ParseUri ==
    /\ AtLine("ExceptUri")
    /\ LET spaces == Spaces(begin, Min(Crlfs(1))) IN
       \/ spaces = {} /\ Unfinished
       \/ /\ spaces # {}
          /\ lineParseState_' = "ExceptVer" /\ begin' = Min(spaces) + 1
          /\ UNCHANGED <<stream, received, reqParseState_, version_,
                         connectionHeader, pc, socket>>

\* Slip: the version is whatever the line ends with.
VersionAsWritten(symbol) == symbol

Version(symbol) ==
    IF symbol \in {"HTTP/1.0", "HTTP/1.1"} THEN symbol ELSE "HTTP/0.9"

\* The line is finished and parseRequest goes on behind its CRLF.
ParseVersion ==
    /\ AtLine("ExceptVer")
    /\ version_' = Version(stream[begin])
    /\ lineParseState_' = "ParseLineFinished"
    /\ reqParseState_' = "ExceptRequestHeaders"
    /\ begin' = Min(Crlfs(1)) + 2
    /\ UNCHANGED <<stream, received, connectionHeader, pc, socket>>

-----------------------------------------------------------------------------
(* parseReqHeaders: whole lines from begin on, up to one of at most two    *)
(* bytes that is not the first.                                            *)

Lines == {b \in {begin} \cup {i + 2 : i \in Crlfs(begin)} : Crlfs(b) # {}}

LineEnd(b) == Min(Crlfs(b))

Short(b) == LineEnd(b) - b <= 2 /\ \A i \in b .. LineEnd(b) - 1 : stream[i] \in OneByte

\* Slip: the first line, too, may end the headers.
LastLinesAny == {b \in Lines : Short(b)}

LastLines == {b \in Lines \ {begin} : Short(b)}

Headers == LET last == LastLines IN {b \in Lines : \A l \in last : b < l}

Colon(b) == Min({i \in b .. LineEnd(b) - 1 : stream[i] = ":"} \cup {LineEnd(b)})

\* The value of a header runs to the end of the buffer, trimmed.
IsClose(b) ==
    \E i \in Colon(b) + 1 .. received :
        /\ stream[i] = "close"
        /\ \A j \in (Colon(b) + 1 .. received) \ {i} : stream[j] \in Blank

ParseReqHeaders ==
    /\ Up /\ pc = "parse" /\ reqParseState_ = "ExceptRequestHeaders"
    /\ LET found == {b \in Headers :
                        SubSeq(stream, b, Colon(b) - 1) = <<"Connection">>}
       IN  connectionHeader' = IF found = {} THEN connectionHeader
                               ELSE IF IsClose(Max(found)) THEN "close" ELSE "other"
    /\ IF LastLines # {}
       THEN reqParseState_' = "ExceptRequestBody" /\ pc' = pc
       ELSE pc' = "bad" /\ UNCHANGED reqParseState_
    /\ UNCHANGED <<stream, received, lineParseState_, version_, begin, socket>>

ParseReqBody ==
    /\ Up /\ pc = "parse" /\ reqParseState_ = "ExceptRequestBody"
    /\ reqParseState_' = "ParseReqFinished"
    /\ UNCHANGED <<stream, received, lineParseState_, version_, connectionHeader,
                   pc, begin, socket>>

-----------------------------------------------------------------------------
(* The answer.                                                             *)

\* TcpConnection::send, then shutdown() if asked for: it does nothing while
\* part of the answer is still to be written.  A write after it is a SIGPIPE.
Send(answer, shutdown) ==
    /\ pc' = "poll"
    /\ IF shut
       THEN fault' = "SIGPIPE" /\ UNCHANGED <<shut, answers>>
       ELSE /\ answers' = Append(answers, answer)
            /\ shut' \in {FALSE, shutdown}
            /\ UNCHANGED fault
    /\ UNCHANGED <<stream, received, parser, begin>>

BadRequest ==
    /\ Up /\ pc = "bad"
    /\ Send([code |-> 400, version |-> "HTTP/1.1", close |-> FALSE,
             at |-> received], TRUE)

\* setResponse: the version of the request, and whether it asked for a close.
Response ==
    [code |-> 200, version |-> version_, close |-> connectionHeader = "close",
     at |-> received]

\* HttpServer::onRequest.  The test is the inverse of the one its comment calls
\* right: shutdown() follows a response that keeps the connection open.
OnRequest ==
    /\ Up /\ pc = "parse" /\ reqParseState_ = "ParseReqFinished"
    /\ Send(Response, ~Response.close)

OnMessage ==
    \/ NoLineYet \/ ParseMethod \/ ParseUri \/ ParseVersion
    \/ ParseReqHeaders \/ ParseReqBody
    \/ BadRequest \/ OnRequest

\* The process is gone, or the client has nothing more to send.
Ended ==
    /\ ~Up \/ (pc = "poll" /\ (received = Len(stream) \/ Len(answers) = MaxPieces))
    /\ UNCHANGED vars

Next == Receive \/ OnMessage \/ Ended

\* The thread that runs onMessage is scheduled.  Clients owe nothing.
Spec == Init /\ [][Next]_vars /\ WF_vars(OnMessage)

-----------------------------------------------------------------------------
(* Properties.                                                             *)

Versions == {"HTTP/0.9", "HTTP/1.0", "HTTP/1.1"}

TypeOK ==
    /\ stream \in Streams /\ received \in 0 .. Len(stream)
    /\ reqParseState_ \in {"ExceptRequestLine", "ExceptRequestHeaders",
                           "ExceptRequestBody", "ParseReqFinished"}
    /\ lineParseState_ \in {"ExceptMethod", "ExceptUri", "ExceptVer",
                            "ParseLineFinished"}
    /\ version_ \in Versions
    /\ connectionHeader \in {"", "close", "other"}
    /\ pc \in {"poll", "parse", "bad"} /\ begin \in 1 .. received + 1
    /\ shut \in BOOLEAN
    /\ answers \in Seq([code : {200, 400}, version : Versions, close : BOOLEAN,
                        at : 1 .. Len(stream)])
    /\ fault \in {"none", "SIGPIPE", "read past the buffer"}

\* The grammar, of the first n symbols of the stream: the ends of lines; a
\* line of at most two bytes, the empty one in particular, that is not the
\* request line; "method uri version".
EndsUpTo(n) == {i \in 1 .. n - 1 : stream[i] = "CR" /\ stream[i + 1] = "LF"}

HeadersEnded(n) ==
    \E e, f \in EndsUpTo(n) :
        f \in e + 2 .. e + 4 /\ \A i \in e + 2 .. f - 1 : stream[i] \in OneByte

RequestLine(n) ==
    \E e \in EndsUpTo(n) :
        /\ stream[1] \in Methods /\ stream[2] = "sp"
        /\ \E i \in 3 .. e : stream[i] = "sp"
        /\ \A i \in EndsUpTo(n) : e <= i

\* ... and at least one header before the line that ends them.
WholeRequest(n) ==
    /\ RequestLine(n)
    /\ \E d, e, f \in EndsUpTo(n) :
          /\ d < e /\ f \in e + 2 .. e + 4
          /\ \A i \in e + 2 .. f - 1 : stream[i] \in OneByte

\* HttpData.cc:141-229, HttpServer.cc:43-60.  The first piece of a request is
\* answered 200 exactly if it holds a whole request, with the version its
\* request line names; no answer, of whatever later piece, is a 200 before
\* the headers have ended; and none announces a close the client did not
\* ask for.
AnsweredAsReceived ==
    /\ answers # <<>> =>
          (answers[1].code = 200 <=> WholeRequest(answers[1].at))
    /\ \A k \in DOMAIN answers :
          LET a == answers[k] IN
          /\ a.code = 200 => HeadersEnded(a.at)
          /\ a.version # "HTTP/0.9" /\ a.code = 200 =>
                \E i \in 1 .. Min(EndsUpTo(a.at)) : stream[i] = a.version
          /\ a.close => \E i \in 1 .. a.at : stream[i] = "Connection"

\* HttpData.cc:20-139.  Every piece is answered, and the loop's thread gets
\* out of the parser, unless the method is a word as long as a method.
EveryPieceIsAnswered ==
    pc # "poll" ~> \/ pc = "poll" \/ ~Up
                   \/ stream[1] \in Lookalikes
=============================================================================
