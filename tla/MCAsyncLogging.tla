-------------------------- MODULE MCAsyncLogging --------------------------
(* Buffers of four bytes and messages of one to three: a message can fit   *)
(* with a byte to spare, exactly not fit, or need a buffer of its own.     *)
(* The messages come from LogStream, whose conversions are pure: they are  *)
(* compared with a reference definition before the run starts.             *)
EXTENDS AsyncLogging, Integers

SmallBuffer == 40
NumericSize == 32
Stream ==
    INSTANCE LogStream WITH Size <- SmallBuffer, kMaxNumericSize <- NumericSize

\* Every length of number, both signs, and the ends of a 32-bit int, the most
\* negative of which has no positive counterpart.
IntMax   == Stream!IntMax
Integers32 == (-1010 .. 1010) \cup {-IntMax - 1, -IntMax, IntMax}
                  \cup {10^k : k \in 4 .. 9} \cup {-(10^k) : k \in 4 .. 9}
Pointers == (0 .. 300) \cup {4095, 4096, 65535, 65536, IntMax}

\* Reference: the number a text stands for, summed up without leaving its sign.
DigitsOf(text) == SelectSeq(text, LAMBDA c : c # "-")
ValueOf(char) ==
    CHOOSE d \in 0 .. 15 : Stream!digitsHex[d + 1] = char
Number(text, base) ==
    LET sign == IF text[1] = "-" THEN -1 ELSE 1
    IN  FoldLeft(LAMBDA sum, char : base * sum + sign * ValueOf(char),
                 0, DigitsOf(text))

\* LogStream.cc:14-32.  convert writes the decimal text of every int, the most
\* negative one included, without leading zeros, and leaves room for its NUL.
ASSUME ConvertIsDecimal ==
    \A v \in Integers32 :
        LET text == Stream!convert(v)
        IN  /\ Number(text, 10) = v
            /\ (text[1] = "-") = (v < 0) /\ Len(DigitsOf(text)) >= Len(text) - 1
            /\ DigitsOf(text)[1] = "0" => v = 0 /\ Len(text) = 1
            /\ Len(text) + 1 <= NumericSize

\* LogStream.cc:35-51.  The same of convertHex.
ASSUME ConvertHexIsHexadecimal ==
    \A v \in Pointers :
        LET text == Stream!convertHex(v)
        IN  /\ Number(text, 16) = v
            /\ text[1] = "0" => v = 0 /\ Len(text) = 1

\* Logging.cc:61.  The end of a line is added to what there is, whole where
\* there is room, and never takes the stream's last byte: so a line fits into
\* an empty AsyncLogging buffer of the same size, which SizesFit relies on.
ASSUME LinesFit ==
    \A n \in 0 .. SmallBuffer - 1 :
        LET s    == [i \in 1 .. n |-> "x"]
            line == Stream!EndLine(s, <<"a", ".", "c">>, 12)
        IN  /\ IsPrefix(s, line) /\ Len(line) < SmallBuffer
            /\ n = 0 => Len(line) = 11
=============================================================================
