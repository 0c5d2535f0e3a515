------------------------------ MODULE LogStream ------------------------------
(***************************************************************************)
(* base/LogStream: the << operators a log line is made with, and the       *)
(* conversions of numbers they use.  A stream is what its FixedBuffer      *)
(* holds, a sequence of characters; an operator takes a stream and gives   *)
(* the stream after it.                                                    *)
(***************************************************************************)
EXTENDS Integers, SequencesExt

CONSTANTS Size,             \* bytes in the stream's FixedBuffer: SmallBuffer
          kMaxNumericSize   \* room asked for before a number is written

-----------------------------------------------------------------------------
(* Numbers.                                                                *)

\* C's / and %, which round towards zero.
Quotient(i, n) == IF i >= 0 \/ i % n = 0 THEN i \div n ELSE (i \div n) + 1
Remainder(i, n) == i - n * Quotient(i, n)

\* The tables, and zero, which points at the first one's middle.
digits == <<"9", "8", "7", "6", "5", "4", "3", "2", "1", "0",
            "1", "2", "3", "4", "5", "6", "7", "8", "9">>
digitsHex == <<"0", "1", "2", "3", "4", "5", "6", "7",
               "8", "9", "A", "B", "C", "D", "E", "F">>
zero(lsd) == digits[10 + lsd]

\* The loop of convert: the digits of a number, the least significant first.
\* A negative number's remainders are negative; it is never negated.
Lsds[i \in Int] ==
    <<zero(Remainder(i, 10))>>
        \o (IF Quotient(i, 10) = 0 THEN <<>> ELSE Lsds[Quotient(i, 10)])

convert(value) ==
    Reverse(Lsds[value] \o (IF value < 0 THEN <<"-">> ELSE <<>>))

LsdsHex[i \in Nat] ==
    <<digitsHex[1 + (i % 16)]>>
        \o (IF i \div 16 = 0 THEN <<>> ELSE LsdsHex[i \div 16])

convertHex(value) == Reverse(LsdsHex[value])

-----------------------------------------------------------------------------
(* FixedBuffer.                                                            *)

NewStream == <<>>
avail(s)  == Size - Len(s)

\* static_cast<int> of a size_t.
IntMax == 2147483647
AsInt(n) ==
    IF n <= IntMax THEN n
    ELSE ((n + IntMax + 1) % (2 * (IntMax + 1))) - (IntMax + 1)

\* append: a text that would not leave a byte free is dropped, unless it is so
\* long that its length is negative as an int.
append(s, text) == IF avail(s) > AsInt(Len(text)) THEN s \o text ELSE s

\* current and add: a number is written in place, and counted afterwards.
AddNumber(s, text) == IF avail(s) >= kMaxNumericSize THEN s \o text ELSE s

-----------------------------------------------------------------------------
(* The << operators.                                                       *)

\* short, int, long, long long and their unsigned kinds: formatInteger.
PutInteger(s, v) == AddNumber(s, convert(v))

\* float, double, long double: text is what snprintf makes of the number with
\* "%.12g", which is at most twenty characters.
PutDouble(s, text) == AddNumber(s, text)

PutPointer(s, v) == AddNumber(s, <<"0", "x">> \o convertHex(v))

PutBool(s, v) == append(s, IF v THEN <<"1">> ELSE <<"0">>)
PutChar(s, c) == append(s, <<c>>)

\* const char*: a null pointer is written out.  A std::string is never null.
NullText == <<"(", "n", "u", "l", "l", ")">>
PutText(s, str, isNull) == append(s, IF isNull THEN NullText ELSE str)

-----------------------------------------------------------------------------
(* A log line.                                                             *)

\* Logger's destructor ends it with " -- ", the file's name, the line, a space;
\* what does not fit any more is left out, piece by piece.
EndLine(s, basename_, line_) ==
    LET dashes == PutText(s, <<" ", "-", "-", " ">>, FALSE)
        name   == PutText(dashes, basename_, FALSE)
        number == PutInteger(PutChar(name, ":"), line_)
    IN  PutChar(number, " ")
=============================================================================
