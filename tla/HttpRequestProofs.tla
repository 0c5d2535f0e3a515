------------------------- MODULE HttpRequestProofs -------------------------
(***************************************************************************)
(* Theorems about HttpRequest, for every stream a client may send and      *)
(* however it is cut into pieces.                                          *)
(***************************************************************************)
EXTENDS HttpRequest, SequenceTheorems, WellFoundedInduction, TLAPS

-----------------------------------------------------------------------------
(* Positions in the stream.                                                *)

LEMMA LeastOf ==
    ASSUME NEW S \in SUBSET Nat, S # {}
    PROVE  /\ Min(S) \in S /\ Min(S) \in Nat
           /\ \A y \in S : Min(S) <= y
<1> DEFINE less == OpToRel(<, Nat)
<1>1. PICK n \in S : \A m \in S : ~(<<m, n>> \in less)
  <2> HIDE DEF less
  <2> QED
    BY NatLessThanWellFounded, WFMin DEF less
<1>2. ASSUME NEW y \in S, y < n
      PROVE  FALSE
  <2>1. <<y, n>> \in less
    BY <1>2 DEF OpToRel
  <2> HIDE DEF less
  <2> QED
    BY <1>1, <2>1
<1> HIDE DEF less
<1>3. \A y \in S : n <= y
  BY <1>2
<1> QED
  BY <1>3 DEF Min

LEMMA LengthIsNumber == TypeOK => /\ Len(stream) \in Nat /\ received \in Nat
                                  /\ received <= Len(stream) /\ begin \in Nat \ {0}
                                  /\ begin <= received + 1
<1> SUFFICES ASSUME TypeOK
             PROVE  /\ Len(stream) \in Nat /\ received \in Nat
                    /\ received <= Len(stream) /\ begin \in Nat \ {0}
                    /\ begin <= received + 1
  OBVIOUS
<1>0. /\ stream \in Streams /\ received \in 0 .. Len(stream)
      /\ begin \in 1 .. received + 1
  BY DEF TypeOK
<1>1. stream \in Seq(Symbols)
  BY <1>0, StreamsAreSymbols
<1>2. Len(stream) \in Nat
  BY <1>1, LenProperties
<1> QED
  BY <1>0, <1>2

\* The first CRLF from a position on.
LEMMA FirstCrlf ==
    ASSUME TypeOK, NEW p \in Nat \ {0}, Crlfs(p) # {}
    PROVE  /\ Min(Crlfs(p)) \in Crlfs(p) /\ Min(Crlfs(p)) \in Nat
           /\ Min(Crlfs(p)) >= p /\ Min(Crlfs(p)) < received
           /\ stream[Min(Crlfs(p))] = "CR" /\ stream[Min(Crlfs(p)) + 1] = "LF"
           /\ \A i \in Crlfs(p) : Min(Crlfs(p)) <= i
<1>1. received \in Nat
  BY LengthIsNumber
<1>2. Crlfs(p) \in SUBSET Nat
  BY <1>1 DEF Crlfs
<1>3. Min(Crlfs(p)) \in Crlfs(p) /\ \A i \in Crlfs(p) : Min(Crlfs(p)) <= i
  BY <1>2, LeastOf
<1>4. \A i \in Crlfs(p) : /\ i \in Nat /\ i >= p /\ i < received
                          /\ stream[i] = "CR" /\ stream[i + 1] = "LF"
  BY <1>1 DEF Crlfs
<1> QED
  BY <1>3, <1>4

\* The first space between two positions.
LEMMA FirstSpace ==
    ASSUME NEW p \in Nat \ {0}, NEW end \in Nat, Spaces(p, end) # {}
    PROVE  /\ Min(Spaces(p, end)) \in Nat
           /\ Min(Spaces(p, end)) >= p /\ Min(Spaces(p, end)) < end
           /\ stream[Min(Spaces(p, end))] = "sp"
           /\ \A i \in Spaces(p, end) : Min(Spaces(p, end)) <= i
<1>1. Spaces(p, end) \in SUBSET Nat
  BY DEF Spaces
<1>2. /\ Min(Spaces(p, end)) \in Spaces(p, end)
      /\ \A i \in Spaces(p, end) : Min(Spaces(p, end)) <= i
  BY <1>1, LeastOf
<1>3. \A i \in Spaces(p, end) : i \in Nat /\ i >= p /\ i < end /\ stream[i] = "sp"
  BY DEF Spaces
<1> QED
  BY <1>2, <1>3

LEMMA EndsAre == Crlfs(1) = EndsUpTo(received)
BY DEF Crlfs, EndsUpTo

\* More of the stream leaves the ends of lines there were, and the first, as
\* they were.
LEMMA EndsStay ==
    ASSUME NEW m \in Nat, NEW n \in Nat, m <= n
    PROVE  /\ EndsUpTo(m) \subseteq EndsUpTo(n)
           /\ EndsUpTo(m) # {} => Min(EndsUpTo(n)) = Min(EndsUpTo(m))
<1>1. EndsUpTo(m) \subseteq EndsUpTo(n)
  BY DEF EndsUpTo
<1>2. ASSUME EndsUpTo(m) # {}
      PROVE  Min(EndsUpTo(n)) = Min(EndsUpTo(m))
  <2> DEFINE a == Min(EndsUpTo(m))
             b == Min(EndsUpTo(n))
  <2>1. EndsUpTo(m) \in SUBSET Nat /\ EndsUpTo(n) \in SUBSET Nat
    BY DEF EndsUpTo
  <2>2. /\ a \in EndsUpTo(m) /\ a \in Nat
        /\ \A i \in EndsUpTo(m) : a <= i
    BY <1>2, <2>1, LeastOf
  <2>3. /\ b \in EndsUpTo(n) /\ b \in Nat
        /\ \A i \in EndsUpTo(n) : b <= i
    BY <1>1, <1>2, <2>1, LeastOf
  <2>4. b <= a
    BY <1>1, <2>2, <2>3
  <2>5. b \in EndsUpTo(m)
    <3> HIDE DEF a, b
    <3> QED
      BY <2>2, <2>3, <2>4 DEF EndsUpTo
  <2> HIDE DEF a, b
  <2>6. a = b
    BY <2>2, <2>3, <2>4, <2>5
  <2> QED
    BY <2>6 DEF a, b
<1> QED
  BY <1>1, <1>2

\* A piece of the stream that is one symbol.
LEMMA OneWord ==
    ASSUME TypeOK, NEW b \in Nat \ {0}, NEW n \in Nat, n <= received
    PROVE  /\ \A x : SubSeq(stream, b, n - 1) = <<x>> => n = b + 1 /\ stream[b] = x
           /\ n = b + 1 => SubSeq(stream, b, n - 1) = <<stream[b]>>
<1>1. received \in Nat /\ received <= Len(stream) /\ Len(stream) \in Nat
  BY LengthIsNumber
<1>2. \A i \in b .. n - 1 : stream[i] \in Symbols
  <2>1. stream \in Streams
    BY DEF TypeOK
  <2>2. stream \in Seq(Symbols)
    BY <2>1, StreamsAreSymbols
  <2>3. \A i \in b .. n - 1 : i \in 1 .. Len(stream)
    BY <1>1
  <2> QED
    BY <2>2, <2>3, ElementOfSeq
<1> DEFINE w == SubSeq(stream, b, n - 1)
<1>3. /\ w \in Seq(Symbols)
      /\ Len(w) = IF b <= n - 1 THEN (n - 1) - b + 1 ELSE 0
      /\ \A i \in 1 .. (n - 1) - b + 1 : w[i] = stream[b + i - 1]
  <2>1. b \in Int /\ n - 1 \in Int
    OBVIOUS
  <2> QED
    BY <1>2, <2>1, SubSeqProperties
<1> HIDE DEF w
<1>4. ASSUME NEW x, w = <<x>>
      PROVE  n = b + 1 /\ stream[b] = x
  <2>1. Len(w) = 1 /\ w[1] = x
    BY <1>4
  <2>2. n = b + 1
    <3>1. (IF b <= n - 1 THEN (n - 1) - b + 1 ELSE 0) = 1
      BY <1>3, <2>1
    <3> QED
      BY <3>1
  <2>3. w[1] = stream[b + 1 - 1] /\ b + 1 - 1 = b
    BY <1>3, <2>2
  <2> QED
    BY <2>1, <2>2, <2>3
<1>5. ASSUME n = b + 1
      PROVE  w = <<stream[b]>>
  <2>1. Len(w) = 1 /\ w[1] = stream[b]
    <3>1. w[1] = stream[b + 1 - 1] /\ b + 1 - 1 = b
      BY <1>3, <1>5
    <3> QED
      BY <1>3, <1>5, <3>1
  <2> QED
    BY <1>3, <2>1
<1> QED
  BY <1>4, <1>5 DEF w

-----------------------------------------------------------------------------
(* The inductive invariant.                                                *)

\* The two states agree, a line that is being parsed has its CRLF, and the
\* parser has not gone past it.
ParserOK ==
    /\ lineParseState_ = "ParseLineFinished" <=> reqParseState_ # "ExceptRequestLine"
    /\ lineParseState_ # "ExceptMethod" => Crlfs(1) # {}
    /\ pc # "poll" => received > 0
    /\ pc = "parse" /\ lineParseState_ \in {"ExceptUri", "ExceptVer"} =>
          begin <= Min(Crlfs(1))

\* What the parser has taken from the stream can be found there.
Seen ==
    /\ reqParseState_ # "ExceptRequestLine" /\ version_ # "HTTP/0.9" =>
          \E i \in 1 .. Min(EndsUpTo(received)) : stream[i] = version_
    /\ connectionHeader = "close" =>
          \E i \in 1 .. received : stream[i] = "Connection"
    /\ reqParseState_ \in {"ExceptRequestBody", "ParseReqFinished"} =>
          HeadersEnded(received)

\* Before the first answer the parser is where the first piece takes it, and
\* what it has accepted is what the grammar says.
Accepted ==
    /\ lineParseState_ = "ExceptMethod" => begin = 1
    /\ lineParseState_ = "ExceptUri" =>
          begin = 3 /\ stream[1] \in Methods /\ stream[2] = "sp"
    /\ lineParseState_ = "ExceptVer" => RequestLine(received)
    /\ reqParseState_ = "ExceptRequestHeaders" =>
          RequestLine(received) /\ begin = Min(Crlfs(1)) + 2
    /\ reqParseState_ \in {"ExceptRequestBody", "ParseReqFinished"} =>
          WholeRequest(received)

FirstPiece ==
    /\ pc = "poll" => lineParseState_ = "ExceptMethod"
    /\ pc = "bad" => ~WholeRequest(received)
    /\ pc = "parse" => Accepted

\* An answer and what had been received by then.
FirstRight(a) == a.code = 200 <=> WholeRequest(a.at)

Right(a) ==
    /\ a.code = 200 => HeadersEnded(a.at)
    /\ a.version # "HTTP/0.9" /\ a.code = 200 =>
          \E i \in 1 .. Min(EndsUpTo(a.at)) : stream[i] = a.version
    /\ a.close => \E i \in 1 .. a.at : stream[i] = "Connection"

AnswersOK ==
    /\ shut => answers # <<>>
    /\ answers = <<>> => FirstPiece
    /\ answers # <<>> => FirstRight(answers[1])
    /\ \A k \in DOMAIN answers : Right(answers[k])

HttpInv == TypeOK /\ ParserOK /\ Seen /\ AnswersOK

-----------------------------------------------------------------------------
(* What a step of the parser leaves as it was.                             *)

LEMMA GrammarNext ==
    ASSUME stream' = stream
    PROVE  /\ Crlfs(1)' = EndsUpTo(received')
           /\ HeadersEnded(received)' <=> HeadersEnded(received')
           /\ RequestLine(received)' <=> RequestLine(received')
           /\ WholeRequest(received)' <=> WholeRequest(received')
           /\ (\A k \in DOMAIN answers : Right(answers[k]))'
                <=> \A k \in DOMAIN answers' : Right(answers'[k])
           /\ FirstRight(answers[1])' <=> FirstRight(answers'[1])
<1>1. Crlfs(1)' = EndsUpTo(received')
  BY DEF Crlfs, EndsUpTo
<1>2. HeadersEnded(received)' <=> HeadersEnded(received')
  BY DEF HeadersEnded, EndsUpTo
<1>3. RequestLine(received)' <=> RequestLine(received')
  BY DEF RequestLine, EndsUpTo
<1>4. WholeRequest(received)' <=> WholeRequest(received')
  BY DEF WholeRequest, RequestLine, EndsUpTo
<1>5. (\A k \in DOMAIN answers : Right(answers[k]))'
                <=> \A k \in DOMAIN answers' : Right(answers'[k])
  BY DEF Right, HeadersEnded, EndsUpTo
<1>6. FirstRight(answers[1])' <=> FirstRight(answers'[1])
  BY DEF FirstRight, WholeRequest, RequestLine, EndsUpTo
<1> QED
  BY <1>1, <1>2, <1>3, <1>4, <1>5, <1>6

LEMMA ParserNext ==
    ASSUME stream' = stream
    PROVE  /\ ParserOK' <=>
                /\ lineParseState_' = "ParseLineFinished"
                      <=> reqParseState_' # "ExceptRequestLine"
                /\ lineParseState_' # "ExceptMethod" => EndsUpTo(received') # {}
                /\ pc' # "poll" => received' > 0
                /\ pc' = "parse" /\ lineParseState_' \in {"ExceptUri", "ExceptVer"}
                      => begin' <= Min(EndsUpTo(received'))
           /\ Seen' <=>
                /\ reqParseState_' # "ExceptRequestLine" /\ version_' # "HTTP/0.9"
                      => \E i \in 1 .. Min(EndsUpTo(received')) :
                            stream[i] = version_'
                /\ connectionHeader' = "close" =>
                      \E i \in 1 .. received' : stream[i] = "Connection"
                /\ reqParseState_' \in {"ExceptRequestBody", "ParseReqFinished"}
                      => HeadersEnded(received')
           /\ Accepted' <=>
                /\ lineParseState_' = "ExceptMethod" => begin' = 1
                /\ lineParseState_' = "ExceptUri" =>
                      begin' = 3 /\ stream[1] \in Methods /\ stream[2] = "sp"
                /\ lineParseState_' = "ExceptVer" => RequestLine(received')
                /\ reqParseState_' = "ExceptRequestHeaders" =>
                      /\ RequestLine(received')
                      /\ begin' = Min(EndsUpTo(received')) + 2
                /\ reqParseState_' \in {"ExceptRequestBody", "ParseReqFinished"}
                      => WholeRequest(received')
           /\ FirstPiece' <=>
                /\ pc' = "poll" => lineParseState_' = "ExceptMethod"
                /\ pc' = "bad" => ~WholeRequest(received')
                /\ pc' = "parse" => Accepted'
<1>1. Crlfs(1)' = EndsUpTo(received') /\ EndsUpTo(received)' = EndsUpTo(received')
      /\ Methods' = Methods
  BY DEF Crlfs, EndsUpTo
<1>2. ParserOK' <=>
                /\ lineParseState_' = "ParseLineFinished"
                      <=> reqParseState_' # "ExceptRequestLine"
                /\ lineParseState_' # "ExceptMethod" => EndsUpTo(received') # {}
                /\ pc' # "poll" => received' > 0
                /\ pc' = "parse" /\ lineParseState_' \in {"ExceptUri", "ExceptVer"}
                      => begin' <= Min(EndsUpTo(received'))
  BY <1>1 DEF ParserOK
<1>3. Seen' <=>
                /\ reqParseState_' # "ExceptRequestLine" /\ version_' # "HTTP/0.9"
                      => \E i \in 1 .. Min(EndsUpTo(received')) :
                            stream[i] = version_'
                /\ connectionHeader' = "close" =>
                      \E i \in 1 .. received' : stream[i] = "Connection"
                /\ reqParseState_' \in {"ExceptRequestBody", "ParseReqFinished"}
                      => HeadersEnded(received')
  BY <1>1, GrammarNext DEF Seen
<1>4. Accepted' <=>
                /\ lineParseState_' = "ExceptMethod" => begin' = 1
                /\ lineParseState_' = "ExceptUri" =>
                      begin' = 3 /\ stream[1] \in Methods /\ stream[2] = "sp"
                /\ lineParseState_' = "ExceptVer" => RequestLine(received')
                /\ reqParseState_' = "ExceptRequestHeaders" =>
                      /\ RequestLine(received')
                      /\ begin' = Min(EndsUpTo(received')) + 2
                /\ reqParseState_' \in {"ExceptRequestBody", "ParseReqFinished"}
                      => WholeRequest(received')
  BY <1>1, GrammarNext DEF Accepted
<1>5. FirstPiece' <=>
                /\ pc' = "poll" => lineParseState_' = "ExceptMethod"
                /\ pc' = "bad" => ~WholeRequest(received')
                /\ pc' = "parse" => Accepted'
  BY GrammarNext DEF FirstPiece
<1> QED
  BY <1>2, <1>3, <1>4, <1>5

-----------------------------------------------------------------------------
(* The steps.                                                              *)

\* A step that reads nothing more and sends nothing keeps what is asked of the
\* answers; the rest is the parser's.
LEMMA ParserKeeps ==
    ASSUME HttpInv, stream' = stream, received' = received, answers' = answers,
           shut' = shut, fault' \in {fault, "read past the buffer"},
           reqParseState_' \in {"ExceptRequestLine", "ExceptRequestHeaders",
                                "ExceptRequestBody", "ParseReqFinished"},
           lineParseState_' \in {"ExceptMethod", "ExceptUri", "ExceptVer",
                                 "ParseLineFinished"},
           version_' \in Versions, connectionHeader' \in {"", "close", "other"},
           pc' \in {"parse", "bad"}, begin' \in 1 .. received + 1,
           ParserOK', Seen', answers = <<>> => FirstPiece'
    PROVE  HttpInv'
<1>1. TypeOK'
  BY DEF HttpInv, TypeOK
<1>2. AnswersOK'
  BY GrammarNext DEF HttpInv, AnswersOK
<1> QED
  BY <1>1, <1>2 DEF HttpInv

LEMMA UnfinishedStep ==
    ASSUME HttpInv, pc = "parse", Unfinished,
           answers = <<>> => ~WholeRequest(received)
    PROVE  HttpInv'
<1>1. /\ pc' = "bad" /\ stream' = stream /\ received' = received
      /\ answers' = answers /\ shut' = shut /\ fault' = fault /\ begin' = begin
      /\ reqParseState_' = reqParseState_ /\ lineParseState_' = lineParseState_
      /\ version_' = version_ /\ connectionHeader' = connectionHeader
  BY DEF Unfinished, parser, socket
<1>2. ParserOK'
  BY <1>1, ParserNext, EndsAre DEF HttpInv, ParserOK
<1>3. Seen'
  BY <1>1, ParserNext DEF HttpInv, Seen
<1>4. answers = <<>> => FirstPiece'
  BY <1>1, ParserNext
<1>5. /\ reqParseState_' \in {"ExceptRequestLine", "ExceptRequestHeaders",
                              "ExceptRequestBody", "ParseReqFinished"}
      /\ lineParseState_' \in {"ExceptMethod", "ExceptUri", "ExceptVer",
                               "ParseLineFinished"}
      /\ version_' \in Versions /\ connectionHeader' \in {"", "close", "other"}
      /\ begin' \in 1 .. received + 1
  BY <1>1 DEF HttpInv, TypeOK
<1> QED
  BY <1>1, <1>2, <1>3, <1>4, <1>5, ParserKeeps

LEMMA NoLineYetStep ==
    ASSUME HttpInv, NoLineYet
    PROVE  HttpInv'
<1>1. pc = "parse" /\ EndsUpTo(received) = {}
  BY EndsAre DEF NoLineYet, AtLine
<1>2. CASE Unfinished
  <2>1. ~WholeRequest(received)
    BY <1>1 DEF WholeRequest, RequestLine
  <2> QED
    BY <1>1, <1>2, <2>1, UnfinishedStep
<1>3. CASE ~Unfinished
  <2>1. /\ pc' = pc /\ stream' = stream /\ received' = received
        /\ answers' = answers /\ shut' = shut /\ begin' = begin
        /\ reqParseState_' = reqParseState_ /\ lineParseState_' = lineParseState_
        /\ version_' = version_ /\ connectionHeader' = connectionHeader
        /\ fault' = "read past the buffer"
    BY <1>3 DEF NoLineYet, parser
  <2>2. ParserOK'
    BY <2>1, ParserNext, EndsAre DEF HttpInv, ParserOK
  <2>3. Seen'
    BY <2>1, ParserNext DEF HttpInv, Seen
  <2>4. answers = <<>> => FirstPiece'
    BY <1>1, <2>1, ParserNext, EndsAre
       DEF HttpInv, AnswersOK, FirstPiece, Accepted
  <2>5. /\ reqParseState_' \in {"ExceptRequestLine", "ExceptRequestHeaders",
                                "ExceptRequestBody", "ParseReqFinished"}
        /\ lineParseState_' \in {"ExceptMethod", "ExceptUri", "ExceptVer",
                                 "ParseLineFinished"}
        /\ version_' \in Versions /\ connectionHeader' \in {"", "close", "other"}
        /\ begin' \in 1 .. received + 1
    BY <2>1 DEF HttpInv, TypeOK
  <2> QED
    BY <1>1, <2>1, <2>2, <2>3, <2>4, <2>5, ParserKeeps
<1> QED
  BY <1>2, <1>3

\* The line that is being parsed.
LEMMA AtTheLine ==
    ASSUME HttpInv, pc = "parse", reqParseState_ = "ExceptRequestLine",
           Crlfs(1) # {}
    PROVE  \E e \in Nat :
             /\ e = Min(Crlfs(1)) /\ e = Min(EndsUpTo(received)) /\ e > 0
             /\ e \in EndsUpTo(received) /\ e < received
             /\ stream[e] = "CR" /\ stream[e + 1] = "LF"
             /\ \A i \in EndsUpTo(received) : e <= i
<1>1. TypeOK
  BY DEF HttpInv
<1> QED
  BY <1>1, EndsAre, FirstCrlf

LEMMA ParseMethodStep ==
    ASSUME HttpInv, ParseMethod
    PROVE  HttpInv'
<1>1. /\ pc = "parse" /\ reqParseState_ = "ExceptRequestLine"
      /\ lineParseState_ = "ExceptMethod" /\ Crlfs(1) # {}
  BY DEF ParseMethod, AtLine
<1>2. PICK e \in Nat :
         /\ e = Min(Crlfs(1)) /\ e = Min(EndsUpTo(received)) /\ e > 0
         /\ e \in EndsUpTo(received) /\ e < received
         /\ stream[e] = "CR" /\ stream[e + 1] = "LF"
         /\ \A i \in EndsUpTo(received) : e <= i
  BY <1>1, AtTheLine
<1>3. received \in Nat /\ begin \in Nat \ {0} /\ begin <= received + 1 /\ TypeOK
  BY LengthIsNumber DEF HttpInv
<1> DEFINE spaces == Spaces(begin, e)
           word == SubSeq(stream, begin, Min(spaces) - 1)
           known == word \in {<<m>> : m \in Methods}
<1>4. \/ spaces = {} /\ Unfinished
      \/ /\ spaces # {} /\ known
         /\ lineParseState_' = "ExceptUri" /\ begin' = Min(spaces) + 1
         /\ UNCHANGED <<stream, received, reqParseState_, version_,
                        connectionHeader, pc, socket>>
      \/ UNCHANGED vars
      \/ spaces # {} /\ ~known /\ Unfinished
  BY <1>2 DEF ParseMethod
<1>5. answers = <<>> => begin = 1
  BY <1>1 DEF HttpInv, AnswersOK, FirstPiece, Accepted
<1>6. WholeRequest(received) =>
         /\ stream[1] \in Methods /\ stream[2] = "sp" /\ e > 2
  <2> SUFFICES ASSUME WholeRequest(received)
               PROVE  stream[1] \in Methods /\ stream[2] = "sp" /\ e > 2
    OBVIOUS
  <2>1. PICK x \in EndsUpTo(received) :
           /\ stream[1] \in Methods /\ stream[2] = "sp"
           /\ \E i \in 3 .. x : stream[i] = "sp"
           /\ \A i \in EndsUpTo(received) : x <= i
    BY DEF WholeRequest, RequestLine
  <2>2. x \in Nat /\ x <= e /\ e <= x
    BY <1>2, <1>3, <2>1 DEF EndsUpTo
  <2>3. x >= 3
    BY <2>1, <2>2
  <2> QED
    BY <1>2, <2>1, <2>2, <2>3
<1>7. ASSUME spaces = {}, Unfinished
      PROVE  HttpInv'
  <2>1. answers = <<>> => ~WholeRequest(received)
    <3> SUFFICES ASSUME answers = <<>>, WholeRequest(received)
                 PROVE  FALSE
      OBVIOUS
    <3>1. 2 \in begin .. e - 1 /\ stream[2] = "sp"
      BY <1>2, <1>5, <1>6
    <3> QED
      BY <1>7, <3>1 DEF Spaces
  <2> QED
    BY <1>1, <1>7, <2>1, UnfinishedStep
<1>8. ASSUME spaces # {}
      PROVE  /\ Min(spaces) \in Nat /\ Min(spaces) >= begin /\ Min(spaces) < e
             /\ stream[Min(spaces)] = "sp"
             /\ \A i \in spaces : Min(spaces) <= i
  BY <1>2, <1>3, <1>8, FirstSpace
<1>9. ASSUME spaces # {}, ~known, Unfinished
      PROVE  HttpInv'
  <2>1. answers = <<>> => ~WholeRequest(received)
    <3> SUFFICES ASSUME answers = <<>>, WholeRequest(received)
                 PROVE  FALSE
      OBVIOUS
    <3>1. begin = 1 /\ stream[1] \in Methods /\ stream[2] = "sp" /\ e > 2
      BY <1>5, <1>6
    <3>2. 2 \in spaces
      BY <1>2, <3>1 DEF Spaces
    <3>3. Min(spaces) # 1
      BY <1>8, <1>9, <3>1 DEF Methods
    <3>4. Min(spaces) = begin + 1
      <4> HIDE DEF spaces
      <4> QED
        BY <1>8, <1>9, <3>1, <3>2, <3>3
    <3>5. word = <<stream[1]>>
      <4>1. Min(spaces) \in Nat /\ Min(spaces) <= received
        BY <1>2, <1>3, <1>8, <1>9
      <4> HIDE DEF spaces
      <4> QED
        BY <1>3, <3>1, <3>4, <4>1, OneWord
    <3> HIDE DEF word
    <3> QED
      BY <1>9, <3>1, <3>5
  <2> QED
    BY <1>1, <1>9, <2>1, UnfinishedStep
<1>10. ASSUME spaces # {}, known, lineParseState_' = "ExceptUri",
              begin' = Min(spaces) + 1,
              UNCHANGED <<stream, received, reqParseState_, version_,
                          connectionHeader, pc, socket>>
       PROVE  HttpInv'
  <2>0. Min(spaces) \in Nat /\ Min(spaces) >= begin /\ Min(spaces) < e
    BY <1>8, <1>10
  <2>1. begin' <= e /\ begin' \in 1 .. received + 1
    <3> HIDE DEF spaces
    <3> QED
      BY <1>2, <1>3, <1>10, <2>0
  <2>2. /\ stream' = stream /\ received' = received /\ answers' = answers
        /\ shut' = shut /\ fault' = fault /\ pc' = "parse"
        /\ reqParseState_' = "ExceptRequestLine"
        /\ version_' = version_ /\ connectionHeader' = connectionHeader
    BY <1>1, <1>10 DEF socket
  <2>3. ParserOK'
    BY <1>2, <1>10, <2>1, <2>2, ParserNext DEF HttpInv, ParserOK
  <2>4. Seen'
    BY <2>2, ParserNext DEF HttpInv, Seen
  <2>5. answers = <<>> => FirstPiece'
    <3> SUFFICES ASSUME answers = <<>>
                 PROVE  FirstPiece'
      OBVIOUS
    <3>1. PICK m \in Methods : word = <<m>>
      BY <1>10
    <3>2. Min(spaces) = 2 /\ stream[1] = m
      <4>1. Min(spaces) \in Nat /\ Min(spaces) <= received
        BY <1>2, <1>3, <2>0
      <4>2. \A x : SubSeq(stream, begin, Min(spaces) - 1) = <<x>>
                     => Min(spaces) = begin + 1 /\ stream[begin] = x
        <5> HIDE DEF spaces
        <5> QED
          BY <1>3, <4>1, OneWord
      <4>3. Min(spaces) = begin + 1 /\ stream[begin] = m
        BY <3>1, <4>2
      <4> HIDE DEF spaces, word
      <4> QED
        BY <1>5, <4>3
    <3>3. stream[2] = "sp" /\ begin' = 3
      <4> HIDE DEF word
      <4>1. stream[Min(spaces)] = "sp"
        BY <1>8, <1>10
      <4> HIDE DEF spaces
      <4> QED
        BY <1>10, <3>2, <4>1
    <3> HIDE DEF word, spaces
    <3>4. Accepted'
      BY <1>10, <2>2, <3>2, <3>3, ParserNext
    <3> QED
      BY <1>10, <2>2, <3>4, ParserNext
  <2>6. /\ version_' \in Versions /\ connectionHeader' \in {"", "close", "other"}
    BY <2>2 DEF HttpInv, TypeOK
  <2> HIDE DEF spaces, word
  <2> QED
    BY <1>10, <2>1, <2>2, <2>3, <2>4, <2>5, <2>6, ParserKeeps
<1>11. ASSUME UNCHANGED vars
       PROVE  HttpInv'
  <2>1. /\ stream' = stream /\ received' = received /\ answers' = answers
        /\ shut' = shut /\ fault' = fault /\ pc' = "parse" /\ begin' = begin
        /\ reqParseState_' = reqParseState_ /\ lineParseState_' = lineParseState_
        /\ version_' = version_ /\ connectionHeader' = connectionHeader
    BY <1>1, <1>11 DEF vars, parser, socket
  <2>2. TypeOK'
    BY <2>1 DEF HttpInv, TypeOK
  <2>3. ParserOK' /\ Seen'
    BY <1>1, <1>2, <2>1, ParserNext DEF HttpInv, ParserOK, Seen
  <2>4. answers = <<>> => FirstPiece'
    BY <1>1, <1>5, <2>1, ParserNext
  <2>5. AnswersOK'
    BY <2>1, <2>4, GrammarNext DEF HttpInv, AnswersOK
  <2> QED
    BY <2>2, <2>3, <2>5 DEF HttpInv
<1> HIDE DEF spaces, word, known
<1> QED
  BY <1>4, <1>7, <1>9, <1>10, <1>11

LEMMA ParseUriStep ==
    ASSUME HttpInv, ParseUri
    PROVE  HttpInv'
<1>1. /\ pc = "parse" /\ reqParseState_ = "ExceptRequestLine"
      /\ lineParseState_ = "ExceptUri" /\ Crlfs(1) # {}
  BY DEF ParseUri, AtLine, HttpInv, ParserOK
<1>2. PICK e \in Nat :
         /\ e = Min(Crlfs(1)) /\ e = Min(EndsUpTo(received)) /\ e > 0
         /\ e \in EndsUpTo(received) /\ e < received
         /\ stream[e] = "CR" /\ stream[e + 1] = "LF"
         /\ \A i \in EndsUpTo(received) : e <= i
  BY <1>1, AtTheLine
<1>3. received \in Nat /\ begin \in Nat \ {0} /\ begin <= received + 1 /\ TypeOK
  BY LengthIsNumber DEF HttpInv
<1> DEFINE spaces == Spaces(begin, e)
<1>4. \/ spaces = {} /\ Unfinished
      \/ /\ spaces # {}
         /\ lineParseState_' = "ExceptVer" /\ begin' = Min(spaces) + 1
         /\ UNCHANGED <<stream, received, reqParseState_, version_,
                        connectionHeader, pc, socket>>
  BY <1>2 DEF ParseUri
<1>5. answers = <<>> => begin = 3 /\ stream[1] \in Methods /\ stream[2] = "sp"
  BY <1>1 DEF HttpInv, AnswersOK, FirstPiece, Accepted
<1>6. ASSUME spaces = {}, Unfinished
      PROVE  HttpInv'
  <2>1. answers = <<>> => ~WholeRequest(received)
    <3> SUFFICES ASSUME answers = <<>>, WholeRequest(received)
                 PROVE  FALSE
      OBVIOUS
    <3>1. PICK x \in EndsUpTo(received) :
             /\ \E i \in 3 .. x : stream[i] = "sp"
             /\ \A i \in EndsUpTo(received) : x <= i
      BY DEF WholeRequest, RequestLine
    <3>2. x \in Nat /\ x <= e /\ e <= x
      BY <1>2, <1>3, <3>1 DEF EndsUpTo
    <3>3. PICK i \in 3 .. e : stream[i] = "sp"
      BY <3>1, <3>2
    <3>4. i # e
      BY <1>2, <3>3
    <3>5. i \in begin .. e - 1
      BY <1>2, <1>5, <3>4
    <3> QED
      BY <1>6, <3>3, <3>5 DEF Spaces
  <2> QED
    BY <1>1, <1>6, <2>1, UnfinishedStep
<1>7. ASSUME spaces # {}, lineParseState_' = "ExceptVer",
             begin' = Min(spaces) + 1,
             UNCHANGED <<stream, received, reqParseState_, version_,
                         connectionHeader, pc, socket>>
      PROVE  HttpInv'
  <2>0. /\ Min(spaces) \in Nat /\ Min(spaces) >= begin /\ Min(spaces) < e
        /\ stream[Min(spaces)] = "sp"
    BY <1>2, <1>3, <1>7, FirstSpace
  <2> HIDE DEF spaces
  <2>1. begin' <= e /\ begin' \in 1 .. received + 1
    BY <1>2, <1>3, <1>7, <2>0
  <2>2. /\ stream' = stream /\ received' = received /\ answers' = answers
        /\ shut' = shut /\ fault' = fault /\ pc' = "parse"
        /\ reqParseState_' = "ExceptRequestLine"
        /\ version_' = version_ /\ connectionHeader' = connectionHeader
    BY <1>1, <1>7 DEF socket
  <2>3. ParserOK'
    BY <1>2, <1>7, <2>1, <2>2, ParserNext DEF HttpInv, ParserOK
  <2>4. Seen'
    BY <2>2, ParserNext DEF HttpInv, Seen
  <2>5. answers = <<>> => FirstPiece'
    <3> SUFFICES ASSUME answers = <<>>
                 PROVE  FirstPiece'
      OBVIOUS
    <3>1. Min(spaces) \in 3 .. e
      BY <1>2, <1>5, <2>0
    <3>2. RequestLine(received)
      BY <1>2, <1>5, <2>0, <3>1 DEF RequestLine
    <3>3. Accepted'
      BY <1>7, <2>2, <3>2, ParserNext
    <3> QED
      BY <1>7, <2>2, <3>3, ParserNext
  <2>6. /\ version_' \in Versions /\ connectionHeader' \in {"", "close", "other"}
    BY <2>2 DEF HttpInv, TypeOK
  <2> QED
    BY <1>7, <2>1, <2>2, <2>3, <2>4, <2>5, <2>6, ParserKeeps
<1> HIDE DEF spaces
<1> QED
  BY <1>4, <1>6, <1>7

LEMMA ParseVersionStep ==
    ASSUME HttpInv, ParseVersion
    PROVE  HttpInv'
<1>1. /\ pc = "parse" /\ reqParseState_ = "ExceptRequestLine"
      /\ lineParseState_ = "ExceptVer" /\ Crlfs(1) # {}
  BY DEF ParseVersion, AtLine, HttpInv, ParserOK
<1>2. PICK e \in Nat :
         /\ e = Min(Crlfs(1)) /\ e = Min(EndsUpTo(received)) /\ e > 0
         /\ e \in EndsUpTo(received) /\ e < received
         /\ stream[e] = "CR" /\ stream[e + 1] = "LF"
         /\ \A i \in EndsUpTo(received) : e <= i
  BY <1>1, AtTheLine
<1>3. received \in Nat /\ begin \in Nat \ {0} /\ begin <= e
  <2>1. received \in Nat /\ begin \in Nat \ {0}
    BY LengthIsNumber DEF HttpInv
  <2>2. begin <= Min(Crlfs(1))
    BY <1>1 DEF HttpInv, ParserOK
  <2> QED
    BY <1>2, <2>1, <2>2
<1>4. /\ stream' = stream /\ received' = received /\ answers' = answers
      /\ shut' = shut /\ fault' = fault /\ pc' = "parse"
      /\ connectionHeader' = connectionHeader
      /\ lineParseState_' = "ParseLineFinished"
      /\ reqParseState_' = "ExceptRequestHeaders"
      /\ version_' = Version(stream[begin]) /\ begin' = e + 2
  BY <1>1, <1>2 DEF ParseVersion, socket
<1>5. begin' \in 1 .. received + 1
  BY <1>2, <1>3, <1>4
<1>6. version_' \in Versions /\ version_' # "HTTP/0.9" => stream[begin] = version_'
  BY <1>4 DEF Version, Versions
<1>7. version_' \in Versions
  BY <1>4 DEF Version, Versions
<1>8. ParserOK'
  <2>1. received' > 0
    BY <1>2, <1>3, <1>4
  <2> QED
    BY <1>2, <1>4, <2>1, ParserNext
<1>9. Seen'
  <2>1. version_' # "HTTP/0.9" =>
           \E i \in 1 .. Min(EndsUpTo(received')) : stream[i] = version_'
    <3>1. begin \in 1 .. e
      BY <1>2, <1>3
    <3> QED
      BY <1>2, <1>4, <1>6, <1>7, <3>1
  <2>2. connectionHeader' = "close" =>
           \E i \in 1 .. received' : stream[i] = "Connection"
    BY <1>4 DEF HttpInv, Seen
  <2> QED
    BY <1>4, <2>1, <2>2, ParserNext
<1>10. answers = <<>> => FirstPiece'
  <2> SUFFICES ASSUME answers = <<>>
               PROVE  FirstPiece'
    OBVIOUS
  <2>1. RequestLine(received)
    BY <1>1 DEF HttpInv, AnswersOK, FirstPiece, Accepted
  <2>2. Accepted'
    BY <1>2, <1>4, <2>1, ParserNext
  <2> QED
    BY <1>4, <2>2, ParserNext
<1>11. connectionHeader' \in {"", "close", "other"}
  BY <1>4 DEF HttpInv, TypeOK
<1> QED
  BY <1>4, <1>5, <1>7, <1>8, <1>9, <1>10, <1>11, ParserKeeps

LEMMA ParseReqBodyStep ==
    ASSUME HttpInv, ParseReqBody
    PROVE  HttpInv'
<1>1. /\ pc = "parse" /\ reqParseState_ = "ExceptRequestBody"
      /\ stream' = stream /\ received' = received /\ answers' = answers
      /\ shut' = shut /\ fault' = fault /\ pc' = pc /\ begin' = begin
      /\ reqParseState_' = "ParseReqFinished" /\ lineParseState_' = lineParseState_
      /\ version_' = version_ /\ connectionHeader' = connectionHeader
  BY DEF ParseReqBody, socket
<1>2. ParserOK'
  BY <1>1, ParserNext, EndsAre DEF HttpInv, ParserOK
<1>3. Seen'
  BY <1>1, ParserNext DEF HttpInv, Seen
<1>4. answers = <<>> => FirstPiece'
  <2> SUFFICES ASSUME answers = <<>>
               PROVE  FirstPiece'
    OBVIOUS
  <2>1. Accepted /\ lineParseState_ = "ParseLineFinished"
    BY <1>1 DEF HttpInv, ParserOK, AnswersOK, FirstPiece
  <2>2. Accepted'
    BY <1>1, <2>1, ParserNext DEF Accepted
  <2> QED
    BY <1>1, <2>2, ParserNext
<1>5. /\ lineParseState_' \in {"ExceptMethod", "ExceptUri", "ExceptVer",
                               "ParseLineFinished"}
      /\ version_' \in Versions /\ connectionHeader' \in {"", "close", "other"}
      /\ begin' \in 1 .. received + 1
  BY <1>1 DEF HttpInv, TypeOK
<1> QED
  BY <1>1, <1>2, <1>3, <1>4, <1>5, ParserKeeps

\* The first line of at most two bytes behind the first header line is found
\* exactly where the grammar has one.
LEMMA LastLinesFound ==
    ASSUME HttpInv
    PROVE  /\ LastLines # {} => HeadersEnded(received)
           /\ /\ RequestLine(received) /\ Crlfs(1) # {}
              /\ begin = Min(Crlfs(1)) + 2
              => (LastLines # {} <=> WholeRequest(received))
<1>1. received \in Nat /\ begin \in Nat \ {0} /\ TypeOK
  BY LengthIsNumber DEF HttpInv
<1>2. ASSUME NEW b \in LastLines
      PROVE  \E e, f \in EndsUpTo(received) :
                /\ e \in Nat /\ e >= begin /\ f \in e + 2 .. e + 4
                /\ \A i \in e + 2 .. f - 1 : stream[i] \in OneByte
  <2>1. b \in Lines /\ b # begin /\ Short(b)
    BY <1>2 DEF LastLines
  <2>2. PICK e \in Crlfs(begin) : b = e + 2
    BY <2>1 DEF Lines
  <2>3. Crlfs(b) # {}
    BY <2>1 DEF Lines
  <2>4. /\ e \in Nat /\ e >= begin /\ e \in EndsUpTo(received)
        /\ b \in Nat \ {0}
    BY <1>1, <2>2 DEF Crlfs, EndsUpTo
  <2> DEFINE f == Min(Crlfs(b))
  <2>5. f \in Crlfs(b) /\ f \in Nat /\ f >= b
    BY <1>1, <2>3, <2>4, FirstCrlf
  <2>6. f - b <= 2 /\ \A i \in b .. f - 1 : stream[i] \in OneByte
    BY <2>1 DEF Short, LineEnd
  <2> HIDE DEF f
  <2>7. f \in EndsUpTo(received)
    BY <1>1, <2>4, <2>5 DEF Crlfs, EndsUpTo
  <2>8. f \in e + 2 .. e + 4
    BY <2>2, <2>4, <2>5, <2>6
  <2> QED
    BY <2>2, <2>4, <2>6, <2>7, <2>8
<1>3. ASSUME RequestLine(received), Crlfs(1) # {}, begin = Min(Crlfs(1)) + 2
      PROVE  LastLines # {} => WholeRequest(received)
  <2> SUFFICES ASSUME NEW b \in LastLines
               PROVE  WholeRequest(received)
    OBVIOUS
  <2>1. PICK e, f \in EndsUpTo(received) :
           /\ e \in Nat /\ e >= begin /\ f \in e + 2 .. e + 4
           /\ \A i \in e + 2 .. f - 1 : stream[i] \in OneByte
    BY <1>2
  <2>2. /\ Min(Crlfs(1)) \in EndsUpTo(received) /\ Min(Crlfs(1)) \in Nat
    BY <1>1, <1>3, FirstCrlf, EndsAre
  <2>3. Min(Crlfs(1)) < e
    BY <1>1, <1>3, <2>1, <2>2
  <2> QED
    BY <1>3, <2>1, <2>2, <2>3 DEF WholeRequest
<1>4. ASSUME RequestLine(received), Crlfs(1) # {}, begin = Min(Crlfs(1)) + 2
      PROVE  WholeRequest(received) => LastLines # {}
  <2> SUFFICES ASSUME WholeRequest(received)
               PROVE  LastLines # {}
    OBVIOUS
  <2>1. PICK d, e, f \in EndsUpTo(received) :
           /\ d < e /\ f \in e + 2 .. e + 4
           /\ \A i \in e + 2 .. f - 1 : stream[i] \in OneByte
    BY DEF WholeRequest
  <2> DEFINE first == Min(Crlfs(1))
  <2>2. /\ first \in Nat /\ stream[first + 1] = "LF" /\ first <= d
        /\ begin = first + 2
    BY <1>1, <1>4, FirstCrlf, EndsAre
  <2> HIDE DEF first
  <2>3. /\ d \in Nat /\ e \in Nat /\ f \in Nat /\ e > 0
        /\ e < received /\ stream[e] = "CR" /\ stream[e + 1] = "LF"
        /\ f < received /\ stream[f] = "CR" /\ stream[f + 1] = "LF"
    BY <1>1, <2>1 DEF EndsUpTo
  <2>4. e >= begin
    <3>1. e # first + 1
      BY <2>2, <2>3
    <3> QED
      BY <2>1, <2>2, <2>3, <3>1
  <2>5. e \in Crlfs(begin)
    BY <1>1, <2>3, <2>4 DEF Crlfs
  <2>6. f \in Crlfs(e + 2) /\ e + 2 \in Nat \ {0}
    BY <1>1, <2>1, <2>3 DEF Crlfs
  <2>7. e + 2 \in Lines /\ e + 2 # begin
    BY <1>1, <2>3, <2>4, <2>5, <2>6 DEF Lines
  <2> DEFINE g == Min(Crlfs(e + 2))
  <2>8. g \in Nat /\ g >= e + 2 /\ g <= f
    BY <1>1, <2>6, FirstCrlf
  <2> HIDE DEF g
  <2>9. /\ g - (e + 2) <= 2
        /\ \A i \in e + 2 .. g - 1 : stream[i] \in OneByte
    BY <2>1, <2>3, <2>8
  <2>10. Short(e + 2)
    BY <2>9 DEF Short, LineEnd, g
  <2> QED
    BY <2>7, <2>10 DEF LastLines
<1> QED
  BY <1>2, <1>3, <1>4 DEF HeadersEnded

\* A Connection header that was found is in the stream.
LEMMA HeaderSeen ==
    ASSUME HttpInv,
           NEW b \in Headers, SubSeq(stream, b, Colon(b) - 1) = <<"Connection">>
    PROVE  \E i \in 1 .. received : stream[i] = "Connection"
<1>1. received \in Nat /\ begin \in Nat \ {0} /\ TypeOK
  BY LengthIsNumber DEF HttpInv
<1>2. b \in Lines /\ Crlfs(b) # {}
  BY DEF Headers, Lines
<1>3. b \in Nat \ {0}
  BY <1>1, <1>2 DEF Lines, Crlfs
<1>4. LineEnd(b) \in Nat /\ LineEnd(b) >= b /\ LineEnd(b) < received
  BY <1>1, <1>2, <1>3, FirstCrlf DEF LineEnd
<1>5. Colon(b) \in Nat /\ Colon(b) <= LineEnd(b)
  <2> DEFINE colons == {i \in b .. LineEnd(b) - 1 : stream[i] = ":"} \cup {LineEnd(b)}
  <2>1. colons \in SUBSET Nat /\ LineEnd(b) \in colons
    BY <1>3, <1>4
  <2>2. Min(colons) \in Nat /\ Min(colons) <= LineEnd(b)
    <3> HIDE DEF colons
    <3> QED
      BY <2>1, LeastOf
  <2> QED
    BY <2>2 DEF Colon
<1>6. stream[b] = "Connection"
  <2>1. Colon(b) <= received
    BY <1>1, <1>4, <1>5
  <2> QED
    BY <1>1, <1>3, <1>5, <2>1, OneWord
<1>7. b \in 1 .. received
  BY <1>1, <1>3, <1>4
<1> QED
  BY <1>6, <1>7

LEMMA ParseReqHeadersStep ==
    ASSUME HttpInv, ParseReqHeaders
    PROVE  HttpInv'
<1> DEFINE found == {b \in Headers :
                        SubSeq(stream, b, Colon(b) - 1) = <<"Connection">>}
<1>1. /\ pc = "parse" /\ reqParseState_ = "ExceptRequestHeaders"
      /\ lineParseState_ = "ParseLineFinished"
  BY DEF ParseReqHeaders, HttpInv, ParserOK
<1>2. /\ stream' = stream /\ received' = received /\ answers' = answers
      /\ shut' = shut /\ fault' = fault /\ begin' = begin
      /\ lineParseState_' = lineParseState_ /\ version_' = version_
  BY DEF ParseReqHeaders, socket
<1>3. \/ LastLines # {} /\ reqParseState_' = "ExceptRequestBody" /\ pc' = "parse"
      \/ /\ LastLines = {} /\ reqParseState_' = "ExceptRequestHeaders"
         /\ pc' = "bad"
  BY <1>1 DEF ParseReqHeaders
<1>4. connectionHeader' = IF found = {} THEN connectionHeader
                          ELSE IF IsClose(Max(found)) THEN "close" ELSE "other"
  BY DEF ParseReqHeaders
<1>5. /\ connectionHeader' \in {"", "close", "other"}
      /\ connectionHeader' = "close" =>
            \E i \in 1 .. received : stream[i] = "Connection"
  <2>1. CASE found = {}
    <3> HIDE DEF found
    <3> QED
      BY <1>4, <2>1 DEF HttpInv, TypeOK, Seen
  <2>2. CASE found # {}
    <3>1. \E i \in 1 .. received : stream[i] = "Connection"
      BY <2>2, HeaderSeen
    <3>2. connectionHeader' \in {"close", "other"}
      <4> HIDE DEF found
      <4> QED
        BY <1>4, <2>2
    <3> QED
      BY <3>1, <3>2
  <2> QED
    BY <2>1, <2>2
<1> HIDE DEF found
<1>6. ParserOK'
  BY <1>1, <1>2, <1>3, ParserNext, EndsAre DEF HttpInv, ParserOK
<1>7. Seen'
  <2>1. version_' # "HTTP/0.9" =>
           \E i \in 1 .. Min(EndsUpTo(received')) : stream[i] = version_'
    BY <1>1, <1>2 DEF HttpInv, Seen
  <2>2. reqParseState_' \in {"ExceptRequestBody", "ParseReqFinished"}
           => HeadersEnded(received')
    BY <1>2, <1>3, LastLinesFound
  <2> QED
    BY <1>2, <1>5, <2>1, <2>2, ParserNext
<1>8. answers = <<>> => FirstPiece'
  <2> SUFFICES ASSUME answers = <<>>
               PROVE  FirstPiece'
    OBVIOUS
  <2>1. RequestLine(received) /\ Crlfs(1) # {} /\ begin = Min(Crlfs(1)) + 2
    BY <1>1 DEF HttpInv, ParserOK, AnswersOK, FirstPiece, Accepted
  <2>2. LastLines # {} <=> WholeRequest(received)
    BY <2>1, LastLinesFound
  <2>3. pc' = "parse" => Accepted'
    BY <1>1, <1>2, <1>3, <2>2, ParserNext
  <2> QED
    BY <1>2, <1>3, <2>2, <2>3, ParserNext
<1>9. /\ lineParseState_' \in {"ExceptMethod", "ExceptUri", "ExceptVer",
                               "ParseLineFinished"}
      /\ version_' \in Versions /\ begin' \in 1 .. received + 1
  BY <1>2 DEF HttpInv, TypeOK
<1> QED
  BY <1>2, <1>3, <1>5, <1>6, <1>7, <1>8, <1>9, ParserKeeps

\* More arrives: the ends of lines there were stay, and the first of them.
LEMMA ReceiveStep ==
    ASSUME HttpInv, Receive
    PROVE  HttpInv'
<1>1. /\ pc = "poll" /\ pc' = "parse" /\ begin' = 1
      /\ received' \in received + 1 .. Len(stream)
      /\ stream' = stream /\ answers' = answers /\ shut' = shut /\ fault' = fault
      /\ reqParseState_' = reqParseState_ /\ lineParseState_' = lineParseState_
      /\ version_' = version_ /\ connectionHeader' = connectionHeader
  BY DEF Receive, parser, socket
<1>2. /\ received \in Nat /\ Len(stream) \in Nat /\ received' \in Nat
      /\ received <= received' /\ received' > 0 /\ received' <= Len(stream)
  BY <1>1, LengthIsNumber DEF HttpInv
<1>3. TypeOK'
  <2>1. \A r \in Nat : 1 \in 1 .. r + 1
    OBVIOUS
  <2>2. \A r \in Nat, n \in Nat : r <= n => r \in 0 .. n
    OBVIOUS
  <2>3. begin' = 1 /\ begin' \in 1 .. received' + 1
    BY <1>1, <1>2, <2>1
  <2>4. received' \in 0 .. Len(stream')
    <3>1. received' \in 0 .. Len(stream)
      BY <1>2, <2>2
    <3> QED
      BY <1>1, <3>1
  <2>5. TypeOK /\ pc' \in {"poll", "parse", "bad"}
    BY <1>1 DEF HttpInv
  <2>6. stream' \in Streams /\ shut' \in BOOLEAN
    BY <1>1, <2>5 DEF TypeOK
  <2>7. answers' \in Seq([code : {200, 400}, version : Versions, close : BOOLEAN,
                         at : 1 .. Len(stream')])
    BY <1>1, <2>5 DEF TypeOK
  <2> QED
    BY <1>1, <2>3, <2>4, <2>5, <2>6, <2>7 DEF TypeOK
<1>4. /\ EndsUpTo(received) \subseteq EndsUpTo(received')
      /\ EndsUpTo(received) # {}
            => Min(EndsUpTo(received')) = Min(EndsUpTo(received))
  BY <1>2, EndsStay
<1>5. ParserOK'
  <2>1. lineParseState_ # "ExceptMethod" => EndsUpTo(received') # {}
    BY <1>4, EndsAre DEF HttpInv, ParserOK
  <2>2. lineParseState_ # "ExceptMethod" => 1 <= Min(EndsUpTo(received'))
    <3> SUFFICES ASSUME lineParseState_ # "ExceptMethod"
                 PROVE  1 <= Min(EndsUpTo(received'))
      OBVIOUS
    <3>0. \A n \in Nat : /\ EndsUpTo(n) \in SUBSET Nat
                         /\ \A i \in EndsUpTo(n) : i >= 1
      BY DEF EndsUpTo
    <3>1. EndsUpTo(received') \in SUBSET Nat
          /\ \A i \in EndsUpTo(received') : i >= 1
      BY <1>2, <3>0
    <3> QED
      BY <2>1, <3>1, LeastOf
  <2> QED
    BY <1>1, <1>2, <2>1, <2>2, ParserNext DEF HttpInv, ParserOK
<1>6. Seen'
  <2>1. reqParseState_ # "ExceptRequestLine" => EndsUpTo(received) # {}
    BY EndsAre DEF HttpInv, ParserOK
  <2>2. reqParseState_' # "ExceptRequestLine" /\ version_' # "HTTP/0.9" =>
           \E i \in 1 .. Min(EndsUpTo(received')) : stream[i] = version_'
    BY <1>1, <1>4, <2>1 DEF HttpInv, Seen
  <2>3. connectionHeader' = "close" =>
           \E i \in 1 .. received' : stream[i] = "Connection"
    <3>1. 1 .. received \subseteq 1 .. received'
      BY <1>2
    <3> QED
      BY <1>1, <3>1 DEF HttpInv, Seen
  <2>4. HeadersEnded(received) => HeadersEnded(received')
    BY <1>4 DEF HeadersEnded
  <2>5. reqParseState_' \in {"ExceptRequestBody", "ParseReqFinished"}
           => HeadersEnded(received')
    BY <1>1, <2>4 DEF HttpInv, Seen
  <2> QED
    BY <2>2, <2>3, <2>5, <1>1, ParserNext
<1>7. AnswersOK'
  <2>1. answers = <<>> => FirstPiece'
    <3> SUFFICES ASSUME answers = <<>>
                 PROVE  FirstPiece'
      OBVIOUS
    <3>1. lineParseState_ = "ExceptMethod" /\ reqParseState_ = "ExceptRequestLine"
      BY <1>1 DEF HttpInv, ParserOK, AnswersOK, FirstPiece
    <3>2. Accepted'
      BY <1>1, <3>1, ParserNext
    <3> QED
      BY <1>1, <3>2, ParserNext
  <2> QED
    BY <1>1, <2>1, GrammarNext DEF HttpInv, AnswersOK
<1> QED
  BY <1>3, <1>5, <1>6, <1>7 DEF HttpInv

Answers == [code : {200, 400}, version : Versions, close : BOOLEAN,
            at : 1 .. Len(stream)]

\* An answer that is right keeps the answers right; none is sent on a socket
\* that was shut down.
LEMMA SendKeeps ==
    ASSUME HttpInv, NEW answer \in Answers, NEW shutdown \in BOOLEAN,
           Send(answer, shutdown), Right(answer),
           answers = <<>> => FirstRight(answer)
    PROVE  HttpInv'
<1>1. /\ pc' = "poll" /\ stream' = stream /\ received' = received
      /\ begin' = begin
      /\ reqParseState_' = reqParseState_ /\ lineParseState_' = lineParseState_
      /\ version_' = version_ /\ connectionHeader' = connectionHeader
  BY DEF Send, parser
<1>2. \/ shut /\ fault' = "SIGPIPE" /\ shut' = shut /\ answers' = answers
      \/ /\ answers' = Append(answers, answer)
         /\ shut' \in BOOLEAN /\ fault' = fault
  BY DEF Send
<1>3. answers \in Seq(Answers)
  BY DEF HttpInv, TypeOK, Answers
<1>4. ParserOK'
  BY <1>1, ParserNext, EndsAre DEF HttpInv, ParserOK
<1>5. Seen'
  BY <1>1, ParserNext DEF HttpInv, Seen
<1>6. CASE shut /\ fault' = "SIGPIPE" /\ shut' = shut /\ answers' = answers
  <2>1. TypeOK'
    BY <1>1, <1>6 DEF HttpInv, TypeOK
  <2>2. answers # <<>>
    BY <1>6 DEF HttpInv, AnswersOK
  <2>3. AnswersOK'
    BY <1>1, <1>6, <2>2, GrammarNext DEF HttpInv, AnswersOK
  <2> QED
    BY <1>4, <1>5, <2>1, <2>3 DEF HttpInv
<1>7. CASE answers' = Append(answers, answer) /\ shut' \in BOOLEAN /\ fault' = fault
  <2>1. answers' \in Seq(Answers)
    BY <1>3, <1>7, AppendProperties
  <2>2. TypeOK'
    <3>1. Answers = [code : {200, 400}, version : Versions, close : BOOLEAN,
                     at : 1 .. Len(stream')]
      BY <1>1 DEF Answers
    <3> HIDE DEF Answers
    <3> QED
      BY <1>1, <1>7, <2>1, <3>1 DEF HttpInv, TypeOK
  <2>3. answers' # <<>>
    BY <1>3, <1>7, AppendProperties
  <2>4. DOMAIN answers' = 1 .. Len(answers) + 1 /\ Len(answers) \in Nat
        /\ DOMAIN answers = 1 .. Len(answers)
    BY <1>3, <1>7, <2>1, LenProperties, AppendProperties
  <2>5. /\ answers'[Len(answers) + 1] = answer
        /\ \A k \in 1 .. Len(answers) : answers'[k] = answers[k]
    BY <1>3, <1>7, AppendProperties
  <2>6. \A k \in DOMAIN answers' : Right(answers'[k])
    <3> SUFFICES ASSUME NEW k \in 1 .. Len(answers) + 1
                 PROVE  Right(answers'[k])
      BY <2>4
    <3>1. CASE k = Len(answers) + 1
      BY <2>5, <3>1
    <3>2. CASE k # Len(answers) + 1
      <4>1. k \in 1 .. Len(answers)
        BY <2>4, <3>2
      <4>2. Right(answers[k])
        BY <2>4, <4>1 DEF HttpInv, AnswersOK
      <4> QED
        BY <2>5, <4>1, <4>2
    <3> QED
      BY <3>1, <3>2
  <2>7. FirstRight(answers'[1])
    <3>1. CASE answers = <<>>
      <4>1. Len(answers) = 0
        BY <3>1
      <4> QED
        BY <2>5, <3>1, <4>1
    <3>2. CASE answers # <<>>
      <4>1. Len(answers) # 0
        BY <1>3, <3>2, EmptySeq
      <4>2. 1 \in 1 .. Len(answers)
        BY <2>4, <4>1
      <4> QED
        BY <2>5, <3>2, <4>2 DEF HttpInv, AnswersOK
    <3> QED
      BY <3>1, <3>2
  <2>8. AnswersOK'
    BY <1>1, <2>3, <2>6, <2>7, GrammarNext DEF AnswersOK
  <2> QED
    BY <1>4, <1>5, <2>2, <2>8 DEF HttpInv
<1> QED
  BY <1>2, <1>6, <1>7

LEMMA BadRequestStep ==
    ASSUME HttpInv, BadRequest
    PROVE  HttpInv'
<1> DEFINE answer == [code |-> 400, version |-> "HTTP/1.1", close |-> FALSE,
                      at |-> received]
<1>1. pc = "bad" /\ Send(answer, TRUE)
  BY DEF BadRequest
<1>2. answer \in Answers
  <2>1. received \in 1 .. Len(stream)
    BY <1>1, LengthIsNumber DEF HttpInv, ParserOK
  <2> QED
    BY <2>1 DEF Answers, Versions
<1>3. Right(answer)
  BY DEF Right
<1>4. answers = <<>> => FirstRight(answer)
  BY <1>1 DEF FirstRight, HttpInv, AnswersOK, FirstPiece
<1> HIDE DEF answer
<1> QED
  BY <1>1, <1>2, <1>3, <1>4, SendKeeps

LEMMA OnRequestStep ==
    ASSUME HttpInv, OnRequest
    PROVE  HttpInv'
<1>1. /\ pc = "parse" /\ reqParseState_ = "ParseReqFinished"
      /\ Send(Response, ~Response.close)
  BY DEF OnRequest
<1>2. Response \in Answers
  <2>1. received \in 1 .. Len(stream) /\ version_ \in Versions
    <3>1. TypeOK /\ received > 0 /\ version_ \in Versions
      BY <1>1 DEF HttpInv, ParserOK, TypeOK
    <3> QED
      BY <3>1, LengthIsNumber
  <2>2. (connectionHeader = "close") \in BOOLEAN
    OBVIOUS
  <2> QED
    BY <2>1, <2>2 DEF Answers, Response
<1>3. Right(Response)
  <2>1. HeadersEnded(received)
    BY <1>1 DEF HttpInv, Seen
  <2>2. version_ # "HTTP/0.9" =>
          \E i \in 1 .. Min(EndsUpTo(received)) : stream[i] = version_
    BY <1>1 DEF HttpInv, Seen
  <2>3. connectionHeader = "close" =>
          \E i \in 1 .. received : stream[i] = "Connection"
    BY DEF HttpInv, Seen
  <2>4. /\ Response.code = 200 /\ Response.version = version_
        /\ Response.at = received
        /\ Response.close <=> connectionHeader = "close"
    BY DEF Response
  <2> QED
    BY <2>1, <2>2, <2>3, <2>4 DEF Right
<1>4. answers = <<>> => FirstRight(Response)
  BY <1>1 DEF FirstRight, Response, HttpInv, AnswersOK, FirstPiece, Accepted
<1>5. (~Response.close) \in BOOLEAN
  OBVIOUS
<1> QED
  BY <1>1, <1>2, <1>3, <1>4, <1>5, SendKeeps

LEMMA Unchanged ==
    ASSUME HttpInv, UNCHANGED vars
    PROVE  HttpInv'
<1>1. /\ stream' = stream /\ received' = received /\ answers' = answers
      /\ shut' = shut /\ fault' = fault /\ pc' = pc /\ begin' = begin
      /\ reqParseState_' = reqParseState_ /\ lineParseState_' = lineParseState_
      /\ version_' = version_ /\ connectionHeader' = connectionHeader
  BY DEF vars, parser, socket
<1>2. TypeOK'
  <2>1. TypeOK
    BY DEF HttpInv
  <2>2. stream' \in Streams /\ received' \in 0 .. Len(stream')
        /\ begin' \in 1 .. received' + 1
    BY <1>1, <2>1 DEF TypeOK
  <2>3. shut' \in BOOLEAN
    BY <1>1, <2>1 DEF TypeOK
  <2>4. answers' \in Seq(Answers')
    BY <1>1, <2>1 DEF TypeOK, Answers
  <2>5. /\ pc' \in {"poll", "parse", "bad"} /\ version_' \in Versions
        /\ connectionHeader' \in {"", "close", "other"}
        /\ fault' \in {"none", "SIGPIPE", "read past the buffer"}
    BY <1>1, <2>1 DEF TypeOK
  <2>6. /\ reqParseState_' \in {"ExceptRequestLine", "ExceptRequestHeaders",
                                "ExceptRequestBody", "ParseReqFinished"}
        /\ lineParseState_' \in {"ExceptMethod", "ExceptUri", "ExceptVer",
                                 "ParseLineFinished"}
    BY <1>1, <2>1 DEF TypeOK
  <2> QED
    BY <2>2, <2>3, <2>4, <2>5, <2>6 DEF TypeOK, Answers
<1>3. ParserOK' /\ Seen'
  BY <1>1, ParserNext, EndsAre DEF HttpInv, ParserOK, Seen
<1>4. FirstPiece => FirstPiece'
  BY <1>1, ParserNext, EndsAre DEF FirstPiece, Accepted
<1>5. AnswersOK'
  BY <1>1, <1>4, GrammarNext DEF HttpInv, AnswersOK
<1> QED
  BY <1>2, <1>3, <1>5 DEF HttpInv

LEMMA InitHttp == Init => HttpInv
<1> SUFFICES ASSUME Init
             PROVE  HttpInv
  OBVIOUS
<1>1. stream \in Seq(Symbols) /\ Len(stream) \in Nat
  <2>1. stream \in Streams
    BY DEF Init
  <2> QED
    BY <2>1, StreamsAreSymbols, LenProperties
<1>2. TypeOK
  <2>1. received \in 0 .. Len(stream) /\ begin \in 1 .. received + 1
    <3>1. received = 0 /\ begin = 1
      BY DEF Init
    <3> QED
      BY <1>1, <3>1
  <2> QED
    BY <2>1, EmptySeq DEF Init, TypeOK, Versions
<1>3. ParserOK /\ Seen
  BY DEF Init, ParserOK, Seen
<1>4. AnswersOK
  <2>1. answers = <<>> /\ received = 0
    BY DEF Init
  <2>2. DOMAIN answers = {}
    BY <2>1
  <2> QED
    BY <2>1, <2>2, EmptySeq DEF Init, AnswersOK, FirstPiece
<1> QED
  BY <1>2, <1>3, <1>4 DEF HttpInv

\* The inductive invariant: where the parser is, what the stream holds there,
\* and what was answered, go together.
THEOREM HttpInvariant == Spec => []HttpInv
<1>1. HttpInv /\ [Next]_vars => HttpInv'
  BY ReceiveStep, NoLineYetStep, ParseMethodStep, ParseUriStep,
     ParseVersionStep, ParseReqHeadersStep, ParseReqBodyStep, BadRequestStep,
     OnRequestStep, Unchanged
     DEF Next, OnMessage, Ended
<1> QED
  BY <1>1, InitHttp, PTL DEF Spec

\* Every variable keeps its type: the parser never reads a position that has
\* not been received.
THEOREM TypeCorrect == Spec => []TypeOK
<1>1. HttpInv => TypeOK
  BY DEF HttpInv
<1> QED
  BY <1>1, HttpInvariant, PTL

\* HttpData.cc:141-229, HttpServer.cc:43-60: whatever a client sends and
\* however it is cut into pieces, the first is answered 200 exactly if it
\* holds a whole request, and no answer says what was not received.
THEOREM AnswersFollowTheStream == Spec => []AnsweredAsReceived
<1>1. HttpInv => AnsweredAsReceived
  BY DEF HttpInv, AnswersOK, AnsweredAsReceived, FirstRight, Right
<1> QED
  BY <1>1, HttpInvariant, PTL
=============================================================================
