------------------------- MODULE AsyncLoggingProofs -------------------------
(***************************************************************************)
(* Theorems about the logging front end, LogStream: the texts of numbers,  *)
(* for every number, and the << operators, for a buffer of any size and    *)
(* texts of any length; and about AsyncLogging, for any capacity, message  *)
(* sizes, flush limit and number of messages: types, the spare buffers,    *)
(* what FlattenSeq does, and with it that nothing is lost and that the     *)
(* logger implements LogQueue.                                             *)
(***************************************************************************)
EXTENDS AsyncLogging, LogStream, SequenceTheorems, FiniteSetTheorems,
        WellFoundedInduction, TLAPS

-----------------------------------------------------------------------------
(* Induction over the numbers.                                             *)

\* Induction over the numbers, for a set: a number outside S would have a least
\* one, whose predecessor is in S.
LEMMA Induction ==
    ASSUME NEW S, 0 \in S, \A n \in Nat : n \in S => n + 1 \in S
    PROVE  Nat \subseteq S
<1> DEFINE less == OpToRel(<, Nat)
           T == Nat \ S
<1> SUFFICES ASSUME T # {} PROVE FALSE
  OBVIOUS
<1>2. PICK n \in T : \A m \in T : ~(<<m, n>> \in less)
  <2>1. T \in SUBSET Nat
    OBVIOUS
  <2> HIDE DEF less, T
  <2> QED
    BY <2>1, NatLessThanWellFounded, WFMin DEF less
<1>3. n \in Nat /\ n # 0 /\ n \notin S
  OBVIOUS
<1>4. n - 1 \in Nat /\ n - 1 < n /\ (n - 1) + 1 = n
  BY <1>3
<1>5. n - 1 \notin S
  BY <1>3, <1>4
<1>6. <<n - 1, n>> \in less
  BY <1>3, <1>4 DEF OpToRel
<1> QED
  BY <1>2, <1>4, <1>5, <1>6

-----------------------------------------------------------------------------
(* convert and convertHex: their recursive functions have a value for      *)
(* every number.                                                           *)

Bases == {10, 16}

\* What the two are for: convert for integers, convertHex for pointers.
Numbers(b) == IF b = 10 THEN Int ELSE Nat
Lsd(b)     == IF b = 10 THEN Lsds ELSE LsdsHex

Rest(b, i)  == Quotient(i, b)
Digit(b, i) == Remainder(i, b)
Char(b, r)  == IF b = 10 THEN zero(r) ELSE digitsHex[1 + r]

Abs(i) == IF i < 0 THEN -i ELSE i

\* C's division leaves a remainder of the number's sign, and comes closer to
\* zero.
LEMMA DivisionByBase ==
    ASSUME NEW b \in Bases, NEW i \in Int
    PROVE  /\ Rest(b, i) \in Int /\ Digit(b, i) \in Int
           /\ -b < Digit(b, i) /\ Digit(b, i) < b
           /\ i = b * Rest(b, i) + Digit(b, i)
           /\ i >= 0 => Rest(b, i) >= 0 /\ Digit(b, i) >= 0
           /\ i <= 0 => Rest(b, i) <= 0 /\ Digit(b, i) <= 0
           /\ Rest(b, i) # 0 => Abs(Rest(b, i)) < Abs(i)
<1>1. CASE b = 10
  <2>1. CASE i >= 0
    BY <1>1, <2>1 DEF Rest, Digit, Quotient, Remainder, Abs
  <2>2. CASE i < 0 /\ i % 10 = 0
    BY <1>1, <2>2 DEF Rest, Digit, Quotient, Remainder, Abs
  <2>3. CASE i < 0 /\ i % 10 # 0
    BY <1>1, <2>3 DEF Rest, Digit, Quotient, Remainder, Abs
  <2> QED
    BY <2>1, <2>2, <2>3
<1>2. CASE b = 16
  <2>1. CASE i >= 0
    BY <1>2, <2>1 DEF Rest, Digit, Quotient, Remainder, Abs
  <2>2. CASE i < 0 /\ i % 16 = 0
    BY <1>2, <2>2 DEF Rest, Digit, Quotient, Remainder, Abs
  <2>3. CASE i < 0 /\ i % 16 # 0
    BY <1>2, <2>3 DEF Rest, Digit, Quotient, Remainder, Abs
  <2> QED
    BY <2>1, <2>2, <2>3
<1> QED
  BY <1>1, <1>2 DEF Bases

\* The equation of the two, on the numbers from -n to n.
Step(b, g, i) == <<Char(b, Digit(b, i))>> \o (IF Rest(b, i) = 0 THEN <<>> ELSE g[Rest(b, i)])

IsLsd(b, g, n) == g = [i \in -n .. n |-> Step(b, g, i)]

LEMMA LsdUpTo ==
    ASSUME NEW b \in Bases, NEW n \in Nat
    PROVE  \E g : IsLsd(b, g, n)
<1> DEFINE S == {k \in Nat : \E g : IsLsd(b, g, k)}
<1>1. 0 \in S
  <2> DEFINE h == [i \in -0 .. 0 |-> <<Char(b, Digit(b, i))>> \o <<>>]
  <2>1. ASSUME NEW i \in -0 .. 0 PROVE h[i] = Step(b, h, i)
    <3>1. i = 0 /\ Rest(b, i) = 0
      BY DEF Rest, Quotient, Bases
    <3> QED
      BY <3>1 DEF Step
  <2>2. h = [i \in -0 .. 0 |-> h[i]]
    OBVIOUS
  <2> HIDE DEF h
  <2>3. IsLsd(b, h, 0)
    BY <2>1, <2>2 DEF IsLsd
  <2> QED
    BY <2>3
<1>2. ASSUME NEW k \in Nat, k \in S
      PROVE  k + 1 \in S
  <2>1. PICK g : IsLsd(b, g, k)
    BY <1>2
  <2> DEFINE h == [i \in -(k + 1) .. k + 1 |-> IF i \in -k .. k THEN g[i] ELSE Step(b, g, i)]
  <2>2. ASSUME NEW i \in -(k + 1) .. k + 1
        PROVE  h[i] = Step(b, h, i)
    <3>1. i \in Int /\ (Rest(b, i) # 0 => Rest(b, i) \in -k .. k)
      BY DivisionByBase DEF Abs
    <3>2. Rest(b, i) # 0 => h[Rest(b, i)] = g[Rest(b, i)]
      BY <3>1
    <3>3. Step(b, h, i) = Step(b, g, i)
      <4> HIDE DEF h
      <4> QED
        BY <3>2 DEF Step
    <3>4. i \in -k .. k => g[i] = Step(b, g, i)
      BY <2>1 DEF IsLsd
    <3>5. h[i] = Step(b, g, i)
      BY <3>4
    <3> HIDE DEF h
    <3> QED
      BY <3>3, <3>5
  <2>3. h = [i \in -(k + 1) .. k + 1 |-> h[i]]
    OBVIOUS
  <2> HIDE DEF h
  <2>4. IsLsd(b, h, k + 1)
    BY <2>2, <2>3 DEF IsLsd
  <2> QED
    BY <2>4
<1> HIDE DEF S
<1>3. Nat \subseteq S
  BY <1>1, <1>2, Induction
<1> QED
  BY <1>3 DEF S

LEMMA LsdAgree ==
    ASSUME NEW b \in Bases, NEW n \in Nat, NEW m \in Nat,
           NEW g, IsLsd(b, g, n), NEW h, IsLsd(b, h, m),
           NEW i \in Int, Abs(i) <= n, Abs(i) <= m
    PROVE  g[i] = h[i]
<1> DEFINE S == {k \in Nat : \A j \in Int : 
                   Abs(j) <= k /\ Abs(j) <= n /\ Abs(j) <= m => g[j] = h[j]}
<1>0. ASSUME NEW j \in Int, Abs(j) <= n, Abs(j) <= m,
             Rest(b, j) # 0 => g[Rest(b, j)] = h[Rest(b, j)]
      PROVE  g[j] = h[j]
  <2>1. j \in -n .. n /\ j \in -m .. m
    BY <1>0 DEF Abs
  <2>2. g[j] = Step(b, g, j) /\ h[j] = Step(b, h, j)
    BY <2>1 DEF IsLsd
  <2> QED
    BY <1>0, <2>2 DEF Step
<1>1. 0 \in S
  <2> SUFFICES ASSUME NEW j \in Int, Abs(j) <= 0, Abs(j) <= n, Abs(j) <= m
               PROVE  g[j] = h[j]
    OBVIOUS
  <2>1. Rest(b, j) = 0
    <3>1. j = 0
      BY DEF Abs
    <3> QED
      BY <3>1 DEF Rest, Quotient, Bases
  <2> QED
    BY <1>0, <2>1
<1>2. ASSUME NEW k \in Nat, k \in S
      PROVE  k + 1 \in S
  <2> SUFFICES ASSUME NEW j \in Int, Abs(j) <= k + 1, Abs(j) <= n, Abs(j) <= m
               PROVE  g[j] = h[j]
    OBVIOUS
  <2>1. ASSUME Rest(b, j) # 0
        PROVE  g[Rest(b, j)] = h[Rest(b, j)]
    <3>1. Rest(b, j) \in Int /\ Abs(Rest(b, j)) < Abs(j)
      BY <2>1, DivisionByBase
    <3>2. Abs(Rest(b, j)) \in Nat /\ Abs(j) \in Nat
      BY <3>1 DEF Abs
    <3>3. Abs(Rest(b, j)) <= k /\ Abs(Rest(b, j)) <= n /\ Abs(Rest(b, j)) <= m
      BY <3>1, <3>2
    <3> QED
      BY <1>2, <3>1, <3>3
  <2> QED
    BY <1>0, <2>1
<1> HIDE DEF S
<1>3. Nat \subseteq S
  BY <1>1, <1>2, Induction
<1>4. Abs(i) \in S
  BY <1>3 DEF Abs
<1>5. Abs(i) <= Abs(i)
  BY DEF Abs
<1> QED
  BY <1>4, <1>5 DEF S

LEMMA LsdIs ==
    ASSUME NEW b \in Bases, NEW v \in Numbers(b)
    PROVE  Lsd(b)[v] = Step(b, Lsd(b), v)
<1>0. \A i \in Int : Abs(i) \in Nat /\ i \in -Abs(i) .. Abs(i) /\ Abs(i) <= Abs(i)
  BY DEF Abs
<1> DEFINE G(i) == CHOOSE g : IsLsd(b, g, Abs(i))
           F == [i \in Numbers(b) |-> G(i)[i]]
<1>1. ASSUME NEW i \in Numbers(b)
      PROVE  i \in Int /\ Abs(i) \in Nat /\ IsLsd(b, G(i), Abs(i))
  <2>1. i \in Int /\ Abs(i) \in Nat
    BY <1>0 DEF Numbers
  <2>2. \E g : IsLsd(b, g, Abs(i))
    BY <2>1, LsdUpTo
  <2> QED
    BY <2>1, <2>2
<1> HIDE DEF G
<1>2. ASSUME NEW i \in Numbers(b)
      PROVE  F[i] = Step(b, F, i)
  <2>1. F[i] = Step(b, G(i), i)
    <3>1. i \in -Abs(i) .. Abs(i)
      BY <1>0, <1>1
    <3>2. G(i) = [j \in -Abs(i) .. Abs(i) |-> Step(b, G(i), j)]
      BY <1>1 DEF IsLsd
    <3>3. G(i)[i] = Step(b, G(i), i)
      BY <3>1, <3>2
    <3> QED
      BY <3>3
  <2>2. ASSUME Rest(b, i) # 0
        PROVE  G(i)[Rest(b, i)] = F[Rest(b, i)]
    <3>1. Rest(b, i) \in Int /\ Abs(Rest(b, i)) < Abs(i)
      BY <1>1, <2>2, DivisionByBase
    <3>2. Abs(Rest(b, i)) <= Abs(i) /\ Abs(Rest(b, i)) <= Abs(Rest(b, i))
      BY <1>0, <1>1, <3>1
    <3>3. Rest(b, i) \in Numbers(b)
      BY <1>1, <3>1, DivisionByBase DEF Numbers
    <3>4. G(i)[Rest(b, i)] = G(Rest(b, i))[Rest(b, i)]
      BY <1>1, <3>1, <3>2, <3>3, LsdAgree
    <3> QED
      BY <3>3, <3>4
  <2> HIDE DEF F
  <2> QED
    BY <2>1, <2>2 DEF Step
<1>3. F = [i \in Numbers(b) |-> F[i]]
  OBVIOUS
<1> HIDE DEF F
<1>4. F = [i \in Numbers(b) |-> Step(b, F, i)]
  BY <1>2, <1>3
<1>5. CASE b = 10
  <2>1. F = [i \in Int |-> <<zero(Remainder(i, 10))>>
                \o (IF Quotient(i, 10) = 0 THEN <<>> ELSE F[Quotient(i, 10)])]
    BY <1>4, <1>5 DEF Step, Rest, Digit, Char, Numbers
  <2>2. Lsds = [i \in Int |-> <<zero(Remainder(i, 10))>>
                \o (IF Quotient(i, 10) = 0 THEN <<>> ELSE Lsds[Quotient(i, 10)])]
    BY <2>1 DEF Lsds
  <2>3. Lsds[v] = <<zero(Remainder(v, 10))>>
                \o (IF Quotient(v, 10) = 0 THEN <<>> ELSE Lsds[Quotient(v, 10)])
    BY <1>5, <2>2 DEF Numbers
  <2> QED
    BY <1>5, <2>3 DEF Step, Rest, Digit, Char, Lsd
<1>6. CASE b = 16
  <2>1. \A i \in Nat : /\ Quotient(i, 16) = i \div 16
                       /\ Remainder(i, 16) = i % 16
    BY DEF Quotient, Remainder
  <2>2. \A g, i : Step(16, g, i) = <<digitsHex[1 + Remainder(i, 16)]>>
                \o (IF Quotient(i, 16) = 0 THEN <<>> ELSE g[Quotient(i, 16)])
    BY DEF Step, Rest, Digit, Char
  <2>3. \A g : \A i \in Nat : Step(16, g, i) = <<digitsHex[1 + (i % 16)]>>
                \o (IF i \div 16 = 0 THEN <<>> ELSE g[i \div 16])
    BY <2>1, <2>2
  <2>4. F = [i \in Nat |-> Step(16, F, i)] /\ v \in Nat
    BY <1>4, <1>6 DEF Numbers
  <2>5. F = [i \in Nat |-> <<digitsHex[1 + (i % 16)]>>
                \o (IF i \div 16 = 0 THEN <<>> ELSE F[i \div 16])]
    BY <2>3, <2>4
  <2>6. LsdsHex = [i \in Nat |-> <<digitsHex[1 + (i % 16)]>>
                \o (IF i \div 16 = 0 THEN <<>> ELSE LsdsHex[i \div 16])]
    BY <2>5 DEF LsdsHex
  <2>7. LsdsHex[v] = <<digitsHex[1 + (v % 16)]>>
                \o (IF v \div 16 = 0 THEN <<>> ELSE LsdsHex[v \div 16])
    BY <2>4, <2>6
  <2>8. LsdsHex[v] = Step(16, LsdsHex, v)
    BY <2>3, <2>4, <2>7
  <2> QED
    BY <1>6, <2>8 DEF Lsd
<1> QED
  BY <1>5, <1>6 DEF Bases
-----------------------------------------------------------------------------
(* convert and convertHex: what their texts are.                           *)

\* The numerals of base b, and the text of a number: its digits, the most
\* significant first, behind a "-" if it is negative, and no zero before
\* another digit.  p[i] is what the first i digits stand for.
Numerals(b) == {digitsHex[1 + d] : d \in 0 .. b - 1}

IsTextOf(text, b, v) ==
    \E n \in Nat \ {0} : \E p \in [0 .. n -> Int] :
        /\ p[0] = 0 /\ p[n] = v
        /\ Len(text) = IF v < 0 THEN n + 1 ELSE n
        /\ v < 0 => text[1] = "-"
        /\ \A i \in 1 .. n : \E d \in 0 .. b - 1 :
              /\ text[IF v < 0 THEN i + 1 ELSE i] = digitsHex[1 + d]
              /\ p[i] = b * p[i - 1] + (IF v < 0 THEN -d ELSE d)
        /\ n > 1 => p[1] # 0

\* The middle of the table of decimal digits is zero, and both halves are the
\* digits in order: a negative remainder finds its own.
LEMMA CharIsNumeral ==
    ASSUME NEW b \in Bases, NEW d \in 0 .. b - 1
    PROVE  /\ Char(b, d) = digitsHex[1 + d]
           /\ b = 10 => Char(b, -d) = digitsHex[1 + d]
<1>1. CASE b = 10
  <2>1. d \in {0, 1, 2, 3, 4, 5, 6, 7, 8, 9}
    BY <1>1
  <2> QED
    BY <1>1, <2>1 DEF Char, zero, digits, digitsHex
<1>2. CASE b = 16
  BY <1>2 DEF Char
<1> QED
  BY <1>1, <1>2 DEF Bases

\* The digits of v, the least significant first: each is the remainder of what
\* the ones before it have left of v, and the last leaves nothing.
Digits(b, v, s, q) ==
    /\ s \in Seq(Numerals(b)) /\ Len(s) # 0
    /\ q \in [0 .. Len(s) -> Int] /\ q[0] = v /\ q[Len(s)] = 0
    /\ \A i \in 1 .. Len(s) : /\ q[i] = Rest(b, q[i - 1])
                             /\ s[i] = Char(b, Digit(b, q[i - 1]))
    /\ \A i \in 1 .. Len(s) - 1 : q[i] # 0
    /\ \A i \in 0 .. Len(s) : IF v >= 0 THEN q[i] >= 0 ELSE q[i] <= 0

LEMMA OneDigit ==
    ASSUME NEW b \in Bases, NEW v \in Numbers(b)
    PROVE  /\ Char(b, Digit(b, v)) \in Numerals(b)
           /\ Rest(b, v) \in Numbers(b)
<1>1. /\ Digit(b, v) \in Int /\ -b < Digit(b, v) /\ Digit(b, v) < b
      /\ Rest(b, v) \in Int
      /\ b # 10 => Digit(b, v) >= 0 /\ Rest(b, v) >= 0
  <2>1. v \in Int /\ (b # 10 => v >= 0)
    BY DEF Numbers
  <2> QED
    BY <2>1, DivisionByBase
<1>2. PICK d \in 0 .. b - 1 : Digit(b, v) = d \/ (b = 10 /\ Digit(b, v) = -d)
  <2>1. CASE Digit(b, v) >= 0
    BY <1>1, <2>1 DEF Bases
  <2>2. CASE Digit(b, v) < 0
    <3>1. -Digit(b, v) \in 0 .. b - 1 /\ Digit(b, v) = -(-Digit(b, v)) /\ b = 10
      BY <1>1, <2>2 DEF Bases
    <3> QED
      BY <3>1
  <2> QED
    BY <1>1, <2>1, <2>2
<1>3. Char(b, Digit(b, v)) = digitsHex[1 + d]
  BY <1>2, CharIsNumeral
<1> QED
  BY <1>1, <1>3 DEF Numerals, Numbers

LEMMA LsdDigits ==
    ASSUME NEW b \in Bases, NEW v \in Numbers(b)
    PROVE  \E q : Digits(b, v, Lsd(b)[v], q)
<1> DEFINE S == {k \in Nat : \A i \in Numbers(b) :
                              Abs(i) <= k => \E q : Digits(b, i, Lsd(b)[i], q)}
<1>0. ASSUME NEW i \in Numbers(b),
             Rest(b, i) # 0 => \E q : Digits(b, Rest(b, i), Lsd(b)[Rest(b, i)], q)
      PROVE  \E q : Digits(b, i, Lsd(b)[i], q)
  <2> DEFINE c == Char(b, Digit(b, i))
             r == Rest(b, i)
  <2>1. c \in Numerals(b) /\ r \in Numbers(b) /\ i \in Int /\ r \in Int
    <3>1. i \in Int /\ c \in Numerals(b) /\ r \in Numbers(b)
      BY OneDigit DEF Numbers
    <3> QED
      BY <3>1, DivisionByBase
  <2>2. Lsd(b)[i] = <<c>> \o (IF r = 0 THEN <<>> ELSE Lsd(b)[r])
    BY LsdIs DEF Step
  <2>3. (i >= 0 /\ r >= 0) \/ (i < 0 /\ r <= 0)
    BY <2>1, DivisionByBase
  <2>4. CASE r = 0
    <3> DEFINE q == [j \in 0 .. 1 |-> IF j = 0 THEN i ELSE 0]
    <3>1. Lsd(b)[i] = <<c>>
      BY <2>2, <2>4
    <3>2. q \in [0 .. 1 -> Int] /\ q[0] = i /\ q[1] = 0
      BY <2>1
    <3>3. <<c>> \in Seq(Numerals(b)) /\ Len(<<c>>) = 1 /\ <<c>>[1] = c
      BY <2>1
    <3> HIDE DEF q, c
    <3>4. \A j \in 1 .. 1 : j = 1 /\ j - 1 = 0
      OBVIOUS
    <3>5. \A j \in 0 .. 1 : j = 0 \/ j = 1
      OBVIOUS
    <3>6. Digits(b, i, <<c>>, q)
      BY <2>1, <2>3, <2>4, <3>2, <3>3, <3>4, <3>5 DEF Digits, c
    <3> QED
      BY <3>1, <3>6
  <2>5. CASE r # 0
    <3>1. PICK p : Digits(b, r, Lsd(b)[r], p)
      BY <1>0, <2>5
    <3> DEFINE t == Lsd(b)[r]
               s == <<c>> \o t
               q == [j \in 0 .. Len(t) + 1 |-> IF j = 0 THEN i ELSE p[j - 1]]
    <3>2. Lsd(b)[i] = s
      BY <2>2, <2>5
    <3>3. t \in Seq(Numerals(b)) /\ Len(t) \in Nat /\ Len(t) # 0
      BY <3>1, LenProperties DEF Digits
    <3>4. /\ s \in Seq(Numerals(b)) /\ Len(s) = Len(t) + 1 /\ s[1] = c
          /\ \A j \in 2 .. Len(t) + 1 : s[j] = t[j - 1]
      <4>1. <<c>> \in Seq(Numerals(b)) /\ Len(<<c>>) = 1 /\ <<c>>[1] = c
        BY <2>1
      <4> HIDE DEF t, c
      <4> QED
        BY <3>3, <4>1, ConcatProperties
    <3>5. /\ p \in [0 .. Len(t) -> Int] /\ p[0] = r /\ p[Len(t)] = 0
          /\ \A j \in 1 .. Len(t) : /\ p[j] = Rest(b, p[j - 1])
                                   /\ t[j] = Char(b, Digit(b, p[j - 1]))
          /\ \A j \in 1 .. Len(t) - 1 : p[j] # 0
          /\ \A j \in 0 .. Len(t) : IF r >= 0 THEN p[j] >= 0 ELSE p[j] <= 0
      BY <3>1 DEF Digits
    <3> HIDE DEF t, s
    <3>6. /\ q \in [0 .. Len(t) + 1 -> Int] /\ q[0] = i
          /\ \A j \in 1 .. Len(t) + 1 : q[j] = p[j - 1]
      BY <2>1, <3>3, <3>5
    <3> HIDE DEF q
    <3>7. \A j \in 1 .. Len(t) + 1 : /\ q[j] = Rest(b, q[j - 1])
                                     /\ s[j] = Char(b, Digit(b, q[j - 1]))
      <4> TAKE j \in 1 .. Len(t) + 1
      <4>1. CASE j = 1
        BY <3>3, <3>4, <3>5, <3>6, <4>1
      <4>2. CASE j # 1
        <5>1. j - 1 \in 1 .. Len(t) /\ j \in 2 .. Len(t) + 1 /\ j - 1 \in 1 .. Len(t) + 1
          BY <3>3, <4>2
        <5>2. q[j] = p[j - 1] /\ q[j - 1] = p[(j - 1) - 1] /\ s[j] = t[j - 1]
          BY <3>4, <3>6, <5>1
        <5> QED
          BY <3>5, <5>1, <5>2
      <4> QED
        BY <4>1, <4>2
    <3>8. \A j \in 1 .. Len(t) : q[j] # 0
      <4> TAKE j \in 1 .. Len(t)
      <4>1. q[j] = p[j - 1]
        BY <3>3, <3>6
      <4>2. CASE j = 1
        BY <2>5, <3>5, <4>1, <4>2
      <4>3. CASE j # 1
        <5>1. j - 1 \in 1 .. Len(t) - 1
          BY <3>3, <4>3
        <5> QED
          BY <3>5, <4>1, <5>1
      <4> QED
        BY <4>2, <4>3
    <3>9. \A j \in 0 .. Len(t) + 1 : IF i >= 0 THEN q[j] >= 0 ELSE q[j] <= 0
      <4> TAKE j \in 0 .. Len(t) + 1
      <4>1. CASE j = 0
        BY <2>1, <3>6, <4>1
      <4>2. CASE j # 0
        <5>1. j - 1 \in 0 .. Len(t) /\ j \in 1 .. Len(t) + 1
          BY <3>3, <4>2
        <5>2. q[j] = p[j - 1] /\ (IF r >= 0 THEN p[j - 1] >= 0 ELSE p[j - 1] <= 0)
          BY <3>5, <3>6, <5>1
        <5>3. r # 0 /\ r \in Int /\ i \in Int
          BY <2>1, <2>5
        <5> HIDE DEF r
        <5> QED
          BY <2>3, <5>2, <5>3
      <4> QED
        BY <4>1, <4>2
    <3>10. q[Len(t) + 1] = 0
      BY <3>3, <3>5, <3>6
    <3>11. (Len(t) + 1) - 1 = Len(t) /\ Len(t) + 1 # 0
      BY <3>3
    <3>12. Digits(b, i, s, q)
      BY <3>4, <3>6, <3>7, <3>8, <3>9, <3>10, <3>11 DEF Digits
    <3> QED
      BY <3>2, <3>12
  <2> QED
    BY <2>4, <2>5
<1>1. 0 \in S
  <2> SUFFICES ASSUME NEW i \in Numbers(b), Abs(i) <= 0
               PROVE  \E q : Digits(b, i, Lsd(b)[i], q)
    OBVIOUS
  <2>1. Rest(b, i) = 0
    <3>1. i = 0
      BY DEF Abs, Numbers
    <3> QED
      BY <3>1 DEF Rest, Quotient, Bases
  <2> QED
    BY <1>0, <2>1
<1>2. ASSUME NEW k \in Nat, k \in S
      PROVE  k + 1 \in S
  <2> SUFFICES ASSUME NEW i \in Numbers(b), Abs(i) <= k + 1
               PROVE  \E q : Digits(b, i, Lsd(b)[i], q)
    OBVIOUS
  <2>1. ASSUME Rest(b, i) # 0
        PROVE  \E q : Digits(b, Rest(b, i), Lsd(b)[Rest(b, i)], q)
    <3>1. i \in Int /\ Rest(b, i) \in Numbers(b) /\ Abs(Rest(b, i)) < Abs(i)
      BY <2>1, DivisionByBase, OneDigit DEF Numbers
    <3>2. Rest(b, i) \in Int
      BY <3>1 DEF Numbers
    <3>3. Abs(Rest(b, i)) <= k
      BY <3>1, <3>2 DEF Abs
    <3> QED
      BY <1>2, <3>1, <3>3
  <2> QED
    BY <1>0, <2>1
<1> HIDE DEF S
<1>3. Nat \subseteq S
  BY <1>1, <1>2, Induction
<1>4. Abs(v) \in Nat /\ Abs(v) <= Abs(v)
  BY DEF Abs, Numbers
<1> QED
  BY <1>3, <1>4 DEF S
\* What convert and convertHex return: the digits turned round, the sign in
\* front of them.
Written(b, v) == Reverse(Lsd(b)[v] \o (IF v < 0 THEN <<"-">> ELSE <<>>))

LEMMA TurnedRound ==
    ASSUME NEW b \in Bases, NEW v \in Numbers(b)
    PROVE  LET s == Lsd(b)[v]
               n == Len(s)
               m == IF v < 0 THEN n + 1 ELSE n
               text == Written(b, v)
           IN  /\ text \in Seq(Numerals(b) \cup {"-"}) /\ Len(text) = m
               /\ v < 0 => text[1] = "-"
               /\ \A i \in 1 .. n :
                     text[IF v < 0 THEN i + 1 ELSE i] = s[(n - i) + 1]
<1> DEFINE s == Lsd(b)[v]
           n == Len(s)
           sign == IF v < 0 THEN <<"-">> ELSE <<>>
           m == IF v < 0 THEN n + 1 ELSE n
           w == s \o sign
           text == Written(b, v)
           C == Numerals(b) \cup {"-"}
<1>0. v \in Int
  BY DEF Numbers
<1>1. s \in Seq(Numerals(b))
  BY LsdDigits DEF Digits
<1>2. n \in Nat /\ s \in Seq(C) /\ \A i \in 1 .. n : s[i] \in C
  <2> HIDE DEF s
  <2>1. \A i \in 1 .. Len(s) : s[i] \in Numerals(b)
    BY <1>1, ElementOfSeq
  <2>2. Len(s) \in Nat /\ s \in Seq(C)
    BY <1>1, LenProperties
  <2> QED
    BY <2>1, <2>2
<1>3. /\ sign \in Seq(C) /\ Len(sign) = (IF v < 0 THEN 1 ELSE 0)
      /\ v < 0 => sign[1] = "-"
  <2>1. <<"-">> \in Seq(C) /\ Len(<<"-">>) = 1 /\ <<"-">>[1] = "-"
    OBVIOUS
  <2>2. <<>> \in Seq(C) /\ Len(<<>>) = 0
    BY EmptySeq
  <2>3. CASE v < 0
    <3>1. sign = <<"-">>
      BY <2>3
    <3> HIDE DEF sign
    <3> QED
      BY <2>1, <2>3, <3>1
  <2>4. CASE ~(v < 0)
    <3>1. sign = <<>>
      BY <2>4
    <3> HIDE DEF sign
    <3> QED
      BY <2>2, <2>4, <3>1
  <2> QED
    BY <2>3, <2>4
<1> HIDE DEF s, C, sign
<1>4. /\ w \in Seq(C) /\ Len(w) = m /\ m \in Nat /\ n <= m
      /\ \A i \in 1 .. n : w[i] = s[i]
      /\ v < 0 => w[m] = "-"
  <2>1. /\ w \in Seq(C) /\ Len(w) = n + Len(sign)
        /\ \A i \in 1 .. n + Len(sign) :
              w[i] = IF i <= n THEN s[i] ELSE sign[i - n]
    BY <1>2, <1>3, ConcatProperties
  <2> HIDE DEF w, n
  <2>2. CASE v < 0
    <3>1. n + 1 \in 1 .. n + Len(sign) /\ ~(n + 1 <= n) /\ (n + 1) - n = 1
      BY <1>2, <1>3, <2>2
    <3>2. w[n + 1] = "-"
      BY <1>3, <2>1, <2>2, <3>1
    <3> QED
      BY <1>2, <1>3, <2>1, <2>2, <3>2
  <2>3. CASE ~(v < 0)
    BY <1>2, <1>3, <2>1, <2>3
  <2> QED
    BY <2>2, <2>3
<1>5. text = [i \in 1 .. Len(w) |-> w[(Len(w) - i) + 1]]
  BY DEF Written, Reverse, s, sign
<1> HIDE DEF w, n, text
<1>6. text \in [1 .. m -> C]
  <2>1. \A i \in 1 .. m : w[i] \in C
    BY <1>4, ElementOfSeq
  <2>2. \A i \in 1 .. m : (m - i) + 1 \in 1 .. m
    BY <1>4
  <2> QED
    BY <1>4, <1>5, <2>1, <2>2
<1>7. text \in Seq(C) /\ Len(text) = m
  <2> HIDE DEF m
  <2>1. text \in Seq(C)
    BY <1>4, <1>6, SeqDef, Zenon
  <2>2. DOMAIN text = 1 .. Len(text) /\ Len(text) \in Nat
    BY <2>1, LenProperties
  <2>3. DOMAIN text = 1 .. m
    BY <1>6
  <2>4. 1 .. m = 1 .. Len(text) /\ m \in Nat
    BY <1>4, <2>2, <2>3
  <2> DEFINE l == Len(text)
  <2> HIDE DEF l
  <2>5. 1 .. m = 1 .. l /\ l \in Nat
    BY <2>2, <2>4 DEF l
  <2>6. \A i \in Nat : i \in 1 .. m <=> i \in 1 .. l
    BY <2>5, Zenon
  <2>7. l <= m
    <3> SUFFICES ASSUME l > m
                 PROVE  FALSE
      BY <2>4, <2>5
    <3> QED
      BY <2>4, <2>5, <2>6
  <2>8. m <= l
    <3> SUFFICES ASSUME m > l
                 PROVE  FALSE
      BY <2>4, <2>5
    <3> QED
      BY <2>4, <2>5, <2>6
  <2>9. m = l
    BY <2>4, <2>5, <2>7, <2>8
  <2> QED
    BY <2>1, <2>9 DEF l
<1>8. v < 0 => text[1] = "-"
  <2> SUFFICES ASSUME v < 0
               PROVE  text[1] = "-"
    OBVIOUS
  <2>1. 1 \in 1 .. m /\ (m - 1) + 1 = m
    BY <1>2
  <2> QED
    BY <1>4, <1>5, <2>1
<1>9. ASSUME NEW i \in 1 .. n
      PROVE  text[IF v < 0 THEN i + 1 ELSE i] = s[(n - i) + 1]
  <2> DEFINE j == IF v < 0 THEN i + 1 ELSE i
  <2>1. j \in 1 .. m /\ (m - j) + 1 = (n - i) + 1 /\ (n - i) + 1 \in 1 .. n
    BY <1>2
  <2> HIDE DEF j, m
  <2>2. text[j] = w[(m - j) + 1]
    BY <1>4, <1>5, <2>1
  <2> QED
    BY <1>4, <2>1, <2>2 DEF j
<1> QED
  BY <1>7, <1>8, <1>9 DEF text, n, s, C

\* The text of a number stands for it.
LEMMA WrittenIsText ==
    ASSUME NEW b \in Bases, NEW v \in Numbers(b)
    PROVE  /\ IsTextOf(Written(b, v), b, v)
           /\ Written(b, v) \in Seq(Numerals(b) \cup {"-"})
<1> DEFINE s == Lsd(b)[v]
           n == Len(s)
           text == Written(b, v)
<1>1. PICK q : Digits(b, v, s, q)
  BY LsdDigits
<1>2. /\ text \in Seq(Numerals(b) \cup {"-"})
      /\ Len(text) = (IF v < 0 THEN n + 1 ELSE n)
      /\ v < 0 => text[1] = "-"
      /\ \A i \in 1 .. n :
            text[IF v < 0 THEN i + 1 ELSE i] = s[(n - i) + 1]
  BY TurnedRound
<1>3. n \in Nat \ {0} /\ v \in Int /\ b \in Nat /\ (v < 0 => b = 10)
  <2>1. n \in Nat
    BY <1>1, LenProperties DEF Digits
  <2> QED
    BY <1>1, <2>1 DEF Digits, Numbers, Bases
<1>4. /\ q \in [0 .. n -> Int] /\ q[0] = v /\ q[n] = 0
      /\ \A i \in 1 .. n : /\ q[i] = Rest(b, q[i - 1])
                          /\ s[i] = Char(b, Digit(b, q[i - 1]))
      /\ \A i \in 1 .. n - 1 : q[i] # 0
      /\ \A i \in 0 .. n : IF v >= 0 THEN q[i] >= 0 ELSE q[i] <= 0
  BY <1>1 DEF Digits
<1> HIDE DEF s, n, text
<1> DEFINE p == [i \in 0 .. n |-> q[n - i]]
<1>5. p \in [0 .. n -> Int] /\ \A i \in 0 .. n : p[i] = q[n - i]
  <2>1. \A i \in 0 .. n : n - i \in 0 .. n
    BY <1>3
  <2> QED
    BY <1>4, <2>1
<1> HIDE DEF p
<1>6. p[0] = 0 /\ p[n] = v
  <2>1. 0 \in 0 .. n /\ n \in 0 .. n /\ n - 0 = n /\ n - n = 0
    BY <1>3
  <2> QED
    BY <1>4, <1>5, <2>1
<1>7. ASSUME NEW i \in 1 .. n
      PROVE  \E d \in 0 .. b - 1 :
               /\ text[IF v < 0 THEN i + 1 ELSE i] = digitsHex[1 + d]
               /\ p[i] = b * p[i - 1] + (IF v < 0 THEN -d ELSE d)
  <2> DEFINE x == q[n - i]
             r == Digit(b, x)
             d == IF v < 0 THEN -r ELSE r
  <2>1. /\ n - i \in 0 .. n /\ (n - i) + 1 \in 1 .. n
        /\ ((n - i) + 1) - 1 = n - i /\ n - (i - 1) = (n - i) + 1
        /\ i \in 0 .. n /\ i - 1 \in 0 .. n
    BY <1>3
  <2>2. x \in Int /\ (v >= 0 => x >= 0) /\ (v < 0 => x <= 0)
    BY <1>3, <1>4, <2>1
  <2>3. p[i] = x /\ p[i - 1] = Rest(b, x) /\ s[(n - i) + 1] = Char(b, r)
    BY <1>4, <1>5, <2>1
  <2> HIDE DEF x
  <2>4. /\ r \in Int /\ -b < r /\ r < b /\ x = b * Rest(b, x) + r
        /\ (v >= 0 => r >= 0) /\ (v < 0 => r <= 0)
    BY <1>3, <2>2, DivisionByBase
  <2> HIDE DEF r
  <2>5. d \in 0 .. b - 1 /\ r = (IF v < 0 THEN -d ELSE d)
    BY <1>3, <2>4
  <2>6. Char(b, r) = digitsHex[1 + d]
    <3> HIDE DEF d
    <3>1. /\ Char(b, d) = digitsHex[1 + d]
          /\ b = 10 => Char(b, -d) = digitsHex[1 + d]
      BY <2>5, CharIsNumeral
    <3> QED
      BY <1>3, <2>5, <3>1
  <2> HIDE DEF d
  <2>7. text[IF v < 0 THEN i + 1 ELSE i] = digitsHex[1 + d]
    BY <1>2, <2>3, <2>6
  <2>8. p[i] = b * p[i - 1] + (IF v < 0 THEN -d ELSE d)
    BY <2>3, <2>4, <2>5
  <2> QED
    BY <2>5, <2>7, <2>8
<1>8. n > 1 => p[1] # 0
  <2> SUFFICES ASSUME n > 1
               PROVE  p[1] # 0
    OBVIOUS
  <2>1. 1 \in 0 .. n /\ n - 1 \in 1 .. n - 1
    BY <1>3
  <2> QED
    BY <1>4, <1>5, <2>1
<1>9. IsTextOf(text, b, v)
  BY <1>2, <1>3, <1>5, <1>6, <1>7, <1>8 DEF IsTextOf
<1> QED
  BY <1>2, <1>9 DEF text

\* convert and convertHex are this.
LEMMA ConvertIsWritten ==
    /\ \A v \in Int : convert(v) = Written(10, v)
    /\ \A v \in Nat : convertHex(v) = Written(16, v)
<1>1. \A v \in Int : convert(v) = Written(10, v)
  BY DEF convert, Written, Lsd
<1>2. ASSUME NEW v \in Nat
      PROVE  convertHex(v) = Written(16, v)
  <2>1. Lsd(16)[v] \in Seq(Numerals(16)) /\ Lsd(16) = LsdsHex
    <3>1. 16 \in Bases /\ v \in Numbers(16)
      BY DEF Bases, Numbers
    <3> QED
      BY <3>1, LsdDigits DEF Digits, Lsd
  <2>2. LsdsHex[v] \o <<>> = LsdsHex[v]
    BY <2>1, ConcatEmptySeq
  <2>3. ~(v < 0)
    OBVIOUS
  <2> QED
    BY <2>1, <2>2, <2>3 DEF convertHex, Written
<1> QED
  BY <1>1, <1>2

\* LogStream.cc:14-32.  convert's text is the decimal one of every integer, also
\* of the most negative one, whose negation C's type has no room for: its sign,
\* then its digits, none of them a leading zero.
THEOREM ConvertIsDecimal ==
    ASSUME NEW v \in Int
    PROVE  /\ IsTextOf(convert(v), 10, v)
           /\ convert(v) \in Seq(Numerals(10) \cup {"-"})
<1>1. 10 \in Bases /\ v \in Numbers(10)
  BY DEF Bases, Numbers
<1> QED
  BY <1>1, WrittenIsText, ConvertIsWritten

\* LogStream.cc:35-51.  The same of convertHex and addresses.
THEOREM ConvertHexIsHexadecimal ==
    ASSUME NEW v \in Nat
    PROVE  /\ IsTextOf(convertHex(v), 16, v)
           /\ convertHex(v) \in Seq(Numerals(16) \cup {"-"})
<1>1. 16 \in Bases /\ v \in Numbers(16)
  BY DEF Bases, Numbers
<1> QED
  BY <1>1, WrittenIsText, ConvertIsWritten

-----------------------------------------------------------------------------
(* convert and convertHex: how long their texts get.                       *)

\* Numbers closer to zero than B have at most k digits.
AtMost(b, B, k) == \A v \in Numbers(b) : Abs(v) < B => Len(Lsd(b)[v]) <= k

LEMMA DigitsOf ==
    ASSUME NEW b \in Bases, NEW v \in Numbers(b)
    PROVE  /\ Len(Lsd(b)[v]) \in Nat
           /\ Rest(b, v) = 0 => Len(Lsd(b)[v]) = 1
           /\ Rest(b, v) # 0 => Len(Lsd(b)[v]) = 1 + Len(Lsd(b)[Rest(b, v)])
<1> DEFINE c == Char(b, Digit(b, v))
           C == Numerals(b)
           r == Rest(b, v)
           s == Lsd(b)[r]
<1>1. c \in C /\ r \in Numbers(b)
  BY OneDigit
<1>2. Lsd(b)[v] = <<c>> \o (IF r = 0 THEN <<>> ELSE s)
  BY LsdIs DEF Step
<1>3. s \in Seq(C) /\ Lsd(b)[v] \in Seq(C)
  BY <1>1, LsdDigits DEF Digits
<1> HIDE DEF c, C, r, s
<1>4. <<c>> \in Seq(C) /\ Len(<<c>>) = 1
  BY <1>1
<1>5. <<>> \in Seq(C) /\ Len(<<>>) = 0
  BY EmptySeq
<1>6. Len(Lsd(b)[v]) \in Nat
  BY <1>3, LenProperties
<1>7. CASE r = 0
  <2>1. Lsd(b)[v] = <<c>> \o <<>>
    BY <1>2, <1>7
  <2>2. Len(<<c>> \o <<>>) = 1 + 0
    BY <1>4, <1>5, ConcatProperties
  <2> QED
    BY <1>6, <1>7, <2>1, <2>2 DEF r
<1>8. CASE r # 0
  <2>1. Lsd(b)[v] = <<c>> \o s
    BY <1>2, <1>8
  <2>2. Len(<<c>> \o s) = 1 + Len(s)
    BY <1>3, <1>4, ConcatProperties
  <2> QED
    BY <1>6, <1>8, <2>1, <2>2 DEF r, s
<1> QED
  BY <1>7, <1>8

LEMMA OneMoreDigit ==
    ASSUME NEW b \in Bases, NEW B \in Nat, NEW k \in Nat, AtMost(b, B, k), k # 0
    PROVE  AtMost(b, b * B, k + 1)
<1> SUFFICES ASSUME NEW v \in Numbers(b), Abs(v) < b * B
             PROVE  Len(Lsd(b)[v]) <= k + 1
  BY DEF AtMost
<1> DEFINE r == Rest(b, v)
<1>1. v \in Int /\ r \in Numbers(b)
  BY OneDigit DEF Numbers
<1>2. Abs(r) < B
  <2>1. /\ r \in Int /\ Digit(b, v) \in Int
        /\ v = b * r + Digit(b, v)
        /\ v >= 0 => r >= 0 /\ Digit(b, v) >= 0
        /\ v <= 0 => r <= 0 /\ Digit(b, v) <= 0
    BY <1>1, DivisionByBase
  <2> DEFINE d == Digit(b, v)
  <2> HIDE DEF r, d
  <2>2. CASE b = 10
    BY <1>1, <2>1, <2>2 DEF Abs, d
  <2>3. CASE b = 16
    BY <1>1, <2>1, <2>3 DEF Abs, d
  <2> QED
    BY <2>2, <2>3 DEF Bases
<1>3. Len(Lsd(b)[r]) \in Nat /\ Len(Lsd(b)[r]) <= k
  BY <1>1, <1>2, DigitsOf DEF AtMost
<1> DEFINE n == Len(Lsd(b)[v])
           m == Len(Lsd(b)[r])
<1>4. n \in Nat /\ (r = 0 => n = 1) /\ (r # 0 => n = 1 + m)
  BY DigitsOf
<1> HIDE DEF n, m, r
<1>5. m \in Nat /\ m <= k
  BY <1>3 DEF m
<1>6. n <= k + 1
  BY <1>4, <1>5
<1> QED
  BY <1>6 DEF n

LEMMA FourMoreDigits ==
    ASSUME NEW b \in Bases, NEW B \in Nat, NEW k \in Nat, AtMost(b, B, k), k # 0
    PROVE  AtMost(b, b * (b * (b * (b * B))), k + 4)
<1>1. b \in Nat
  BY DEF Bases
<1>2. AtMost(b, b * B, k + 1) /\ b * B \in Nat
  BY <1>1, OneMoreDigit
<1>3. AtMost(b, b * (b * B), (k + 1) + 1) /\ b * (b * B) \in Nat
  <2> DEFINE C == b * B
  <2> HIDE DEF C
  <2> QED
    BY <1>1, <1>2, OneMoreDigit DEF C
<1>4. AtMost(b, b * (b * (b * B)), ((k + 1) + 1) + 1) /\ b * (b * (b * B)) \in Nat
  BY <1>1, <1>3, OneMoreDigit
<1>5. AtMost(b, b * (b * (b * (b * B))), (((k + 1) + 1) + 1) + 1)
  BY <1>1, <1>4, OneMoreDigit
<1>6. (((k + 1) + 1) + 1) + 1 = k + 4
  OBVIOUS
<1> QED
  BY <1>5, <1>6

\* The integers of LogStream's operators, the longest of which are long long
\* and unsigned long long, and the addresses, of 64 bits.
Integers64  == {v \in Int : -9223372036854775808 <= v /\ v < 18446744073709551616}
Addresses64 == {v \in Nat : v < 18446744073709551616}

\* The longest text is 20 characters, "-9223372036854775808" one of them, and
\* an address has 16 digits.
LEMMA LongestTexts ==
    /\ \A v \in Integers64 : Len(convert(v)) <= 20
    /\ \A v \in Addresses64 : Len(convertHex(v)) <= 16
<1>0. 10 \in Bases /\ 16 \in Bases
  BY DEF Bases
<1>1. ASSUME NEW b \in Bases
      PROVE  AtMost(b, b, 1)
  <2> SUFFICES ASSUME NEW v \in Numbers(b), Abs(v) < b
               PROVE  Len(Lsd(b)[v]) <= 1
    BY DEF AtMost
  <2>1. v \in Int
    BY DEF Numbers
  <2>2. Rest(b, v) = 0
    <3>1. /\ Rest(b, v) \in Int /\ Digit(b, v) \in Int
          /\ v = b * Rest(b, v) + Digit(b, v)
          /\ v >= 0 => Rest(b, v) >= 0 /\ Digit(b, v) >= 0
          /\ v <= 0 => Rest(b, v) <= 0 /\ Digit(b, v) <= 0
      BY <2>1, DivisionByBase
    <3> DEFINE r == Rest(b, v)
               d == Digit(b, v)
    <3> HIDE DEF r, d
    <3>2. r = 0
      BY <2>1, <3>1 DEF Abs, Bases, r, d
    <3> QED
      BY <3>2 DEF r
  <2>3. Len(Lsd(b)[v]) = 1
    BY <2>2, DigitsOf
  <2> QED
    BY <2>3
<1>2. AtMost(10, 10000000000000000000, 19)
  <2>1. AtMost(10, 100, 2)
    BY <1>0, <1>1, OneMoreDigit
  <2>2. AtMost(10, 1000, 3)
    BY <1>0, <2>1, OneMoreDigit
  <2>3. AtMost(10, 10000000, 7)
    BY <1>0, <2>2, FourMoreDigits
  <2>4. AtMost(10, 100000000000, 11)
    BY <1>0, <2>3, FourMoreDigits
  <2>5. AtMost(10, 1000000000000000, 15)
    BY <1>0, <2>4, FourMoreDigits
  <2> QED
    BY <1>0, <2>5, FourMoreDigits
<1>3. AtMost(10, 100000000000000000000, 20)
  BY <1>0, <1>2, OneMoreDigit
<1>4. AtMost(16, 18446744073709551616, 16)
  <2>1. AtMost(16, 256, 2)
    BY <1>0, <1>1, OneMoreDigit
  <2>2. AtMost(16, 4096, 3)
    BY <1>0, <2>1, OneMoreDigit
  <2>3. AtMost(16, 65536, 4)
    BY <1>0, <2>2, OneMoreDigit
  <2>4. AtMost(16, 4294967296, 8)
    BY <1>0, <2>3, FourMoreDigits
  <2>5. AtMost(16, 281474976710656, 12)
    BY <1>0, <2>4, FourMoreDigits
  <2> QED
    BY <1>0, <2>5, FourMoreDigits
<1>5. ASSUME NEW v \in Integers64
      PROVE  Len(convert(v)) <= 20
  <2>1. v \in Int /\ v \in Numbers(10)
    BY DEF Integers64, Numbers
  <2> DEFINE n == Len(Lsd(10)[v])
  <2>2. n \in Nat
    BY <1>0, <2>1, DigitsOf
  <2>3. Len(convert(v)) = IF v < 0 THEN n + 1 ELSE n
    <3>1. Len(Written(10, v)) = IF v < 0 THEN n + 1 ELSE n
      BY <1>0, <2>1, TurnedRound
    <3> QED
      BY <2>1, <3>1, ConvertIsWritten
  <2>4. v < 0 => n <= 19
    <3>1. v < 0 => Abs(v) < 10000000000000000000
      BY <2>1 DEF Integers64, Abs
    <3> QED
      BY <1>2, <2>1, <3>1 DEF AtMost
  <2>5. v >= 0 => n <= 20
    <3>1. v >= 0 => Abs(v) < 100000000000000000000
      BY <2>1 DEF Integers64, Abs
    <3> QED
      BY <1>3, <2>1, <3>1 DEF AtMost
  <2> HIDE DEF n
  <2> QED
    BY <2>1, <2>2, <2>3, <2>4, <2>5
<1>6. ASSUME NEW v \in Addresses64
      PROVE  Len(convertHex(v)) <= 16
  <2>1. v \in Nat /\ v \in Numbers(16) /\ ~(v < 0)
    BY DEF Addresses64, Numbers
  <2>2. Len(convertHex(v)) = Len(Lsd(16)[v])
    <3>1. Len(Written(16, v)) = Len(Lsd(16)[v])
      BY <1>0, <2>1, TurnedRound
    <3> QED
      BY <2>1, <3>1, ConvertIsWritten
  <2>3. Abs(v) < 18446744073709551616
    BY <2>1 DEF Addresses64, Abs
  <2> QED
    BY <1>4, <2>1, <2>2, <2>3 DEF AtMost
<1> QED
  BY <1>5, <1>6

-----------------------------------------------------------------------------
(* LogStream's operators.                                                  *)

\* LogStream.h:120 has 32 for kMaxNumericSize: what it takes for the longest text
\* of a number and for its NUL is 21.
SizesAreNumbers == Size \in Nat \ {0} /\ kMaxNumericSize \in Nat /\ kMaxNumericSize > 20

\* A stream over some characters that still has its last byte.
IsStream(s, Chars) == s \in Seq(Chars) /\ Len(s) < Size

\* What the text of a number has to be for the room asked for to be enough,
\* the NUL that convert writes after it included.
FitsNumber(text, Chars) == text \in Seq(Chars) /\ Len(text) + 1 <= kMaxNumericSize

\* A text whose length is one as an int too.
IsText(text, Chars) == text \in Seq(Chars) /\ Len(text) <= IntMax

\* append drops a text or adds it whole, and leaves a byte of the buffer free.
LEMMA AppendWholeOrNot ==
    ASSUME SizesAreNumbers, NEW Chars, NEW s, IsStream(s, Chars),
           NEW text, IsText(text, Chars)
    PROVE  /\ IsStream(append(s, text), Chars)
           /\ append(s, text) \in {s, s \o text}
<1>1. Len(s) \in Nat /\ Len(text) \in Nat /\ Size \in Nat
  BY LenProperties DEF SizesAreNumbers, IsStream, IsText
<1>2. s \o text \in Seq(Chars) /\ Len(s \o text) = Len(s) + Len(text)
  BY ConcatProperties DEF IsStream, IsText
<1>3. AsInt(Len(text)) = Len(text)
  BY DEF AsInt, IsText
<1>4. CASE avail(s) > Len(text)
  BY <1>1, <1>2, <1>3, <1>4 DEF append, avail, IsStream
<1>5. CASE ~(avail(s) > Len(text))
  BY <1>3, <1>5 DEF append
<1> QED
  BY <1>4, <1>5

\* A number is written only where it fits, its NUL included.
LEMMA AddNumberWholeOrNot ==
    ASSUME SizesAreNumbers, NEW Chars, NEW s, IsStream(s, Chars),
           NEW text, FitsNumber(text, Chars)
    PROVE  /\ IsStream(AddNumber(s, text), Chars)
           /\ AddNumber(s, text) \in {s, s \o text}
<1>1. Len(s) \in Nat /\ Len(text) \in Nat /\ Size \in Nat
      /\ kMaxNumericSize \in Nat
  BY LenProperties DEF SizesAreNumbers, IsStream, FitsNumber
<1>2. s \o text \in Seq(Chars) /\ Len(s \o text) = Len(s) + Len(text)
  BY ConcatProperties DEF IsStream, FitsNumber
<1>3. CASE avail(s) >= kMaxNumericSize
  BY <1>1, <1>2, <1>3 DEF AddNumber, avail, IsStream, FitsNumber
<1>4. CASE ~(avail(s) >= kMaxNumericSize)
  BY <1>4 DEF AddNumber
<1> QED
  BY <1>3, <1>4

\* LogStream.cc:57-144.  The texts of every integer, double (an snprintf of
\* "%.12g": at most 20 characters) and address fit into the room asked for.
LEMMA NumbersFit ==
    ASSUME SizesAreNumbers, NEW Chars,
           Numerals(16) \cup {"-", "x"} \subseteq Chars
    PROVE  /\ \A v \in Integers64 : FitsNumber(convert(v), Chars)
           /\ \A v \in Addresses64 : FitsNumber(<<"0", "x">> \o convertHex(v), Chars)
<1>1. Numerals(10) \subseteq Numerals(16) /\ "0" \in Numerals(16)
  <2>1. digitsHex[1 + 0] = "0" /\ 0 \in 0 .. 16 - 1
    BY DEF digitsHex
  <2> QED
    BY <2>1 DEF Numerals
<1>2. ASSUME NEW v \in Integers64
      PROVE  FitsNumber(convert(v), Chars)
  <2>1. convert(v) \in Seq(Chars)
    <3>1. v \in Int /\ Numerals(10) \cup {"-"} \subseteq Chars
      BY <1>1 DEF Integers64
    <3> QED
      BY <3>1, ConvertIsDecimal, SeqMonotonic
  <2>2. Len(convert(v)) \in Nat /\ Len(convert(v)) <= 20
    BY <2>1, LenProperties, LongestTexts
  <2> QED
    BY <2>1, <2>2 DEF FitsNumber, SizesAreNumbers
<1>3. ASSUME NEW v \in Addresses64
      PROVE  FitsNumber(<<"0", "x">> \o convertHex(v), Chars)
  <2>1. convertHex(v) \in Seq(Chars)
    <3>1. v \in Nat /\ Numerals(16) \cup {"-"} \subseteq Chars
      BY DEF Addresses64
    <3> QED
      BY <3>1, ConvertHexIsHexadecimal, SeqMonotonic
  <2>2. Len(convertHex(v)) \in Nat /\ Len(convertHex(v)) <= 16
    BY <2>1, LenProperties, LongestTexts
  <2>3. <<"0", "x">> \in Seq(Chars) /\ Len(<<"0", "x">>) = 2
    BY <1>1
  <2> DEFINE t == convertHex(v)
             x == <<"0", "x">>
  <2> HIDE DEF t, x
  <2>4. x \o t \in Seq(Chars) /\ Len(x \o t) = Len(x) + Len(t)
    BY <2>1, <2>3, ConcatProperties DEF t, x
  <2>5. Len(x \o t) <= 18 /\ Len(x \o t) \in Nat
    BY <2>2, <2>3, <2>4 DEF t, x
  <2>6. FitsNumber(x \o t, Chars)
    BY <2>4, <2>5 DEF FitsNumber, SizesAreNumbers
  <2> QED
    BY <2>6 DEF t, x
<1> QED
  BY <1>2, <1>3

LEMMA ShortTexts ==
    ASSUME NEW Chars, NEW a \in Chars, NEW b \in Chars,
           NEW c \in Chars, NEW d \in Chars
    PROVE  IsText(<<a>>, Chars) /\ IsText(<<a, b, c, d>>, Chars)
<1>1. <<a>> \in Seq(Chars) /\ <<a, b, c, d>> \in Seq(Chars)
  OBVIOUS
<1>2. Len(<<a>>) = 1 /\ Len(<<a, b, c, d>>) = 4
  OBVIOUS
<1>3. 1 <= IntMax /\ 4 <= IntMax
  BY DEF IntMax
<1> QED
  BY <1>1, <1>2, <1>3 DEF IsText

\* LogStream.cc:57-144, LogStream.h:53-106.  Every << operator adds the whole of
\* what it is given or nothing of it, and never takes the buffer's last byte: no
\* number is written past the end of the buffer, its NUL included.  A text of
\* 2^31 bytes or more, whose length append casts to a negative int, is none that
\* the theorem is about.
THEOREM OperatorsAddWhole ==
    ASSUME SizesAreNumbers, NEW Chars, NEW s, IsStream(s, Chars),
           Numerals(16) \cup {"-", "x"} \subseteq Chars,
           {"(", "n", "u", "l", ")"} \subseteq Chars
    PROVE  /\ \A v \in Integers64 : /\ IsStream(PutInteger(s, v), Chars)
                                   /\ PutInteger(s, v) \in {s, s \o convert(v)}
           /\ \A v \in Addresses64 :
                 /\ IsStream(PutPointer(s, v), Chars)
                 /\ PutPointer(s, v) \in {s, s \o (<<"0", "x">> \o convertHex(v))}
           /\ \A text \in Seq(Chars) :
                 Len(text) <= 20 => /\ IsStream(PutDouble(s, text), Chars)
                                    /\ PutDouble(s, text) \in {s, s \o text}
           /\ \A c \in Chars : /\ IsStream(PutChar(s, c), Chars)
                                /\ PutChar(s, c) \in {s, s \o <<c>>}
           /\ \A v \in BOOLEAN :
                 /\ IsStream(PutBool(s, v), Chars)
                 /\ PutBool(s, v) \in {s, s \o <<IF v THEN "1" ELSE "0">>}
           /\ \A str \in Seq(Chars) :
                 Len(str) <= IntMax => /\ IsStream(PutText(s, str, FALSE), Chars)
                                       /\ PutText(s, str, FALSE) \in {s, s \o str}
           /\ \A str : /\ IsStream(PutText(s, str, TRUE), Chars)
                       /\ PutText(s, str, TRUE) \in {s, s \o NullText}
<1>1. /\ \A v \in Integers64 : FitsNumber(convert(v), Chars)
      /\ \A v \in Addresses64 : FitsNumber(<<"0", "x">> \o convertHex(v), Chars)
  BY NumbersFit
<1>2. ASSUME NEW v \in Integers64
      PROVE  /\ IsStream(PutInteger(s, v), Chars)
             /\ PutInteger(s, v) \in {s, s \o convert(v)}
  BY <1>1, AddNumberWholeOrNot DEF PutInteger
<1>3. ASSUME NEW v \in Addresses64
      PROVE  /\ IsStream(PutPointer(s, v), Chars)
             /\ PutPointer(s, v) \in {s, s \o (<<"0", "x">> \o convertHex(v))}
  BY <1>1, AddNumberWholeOrNot DEF PutPointer
<1>4. ASSUME NEW text \in Seq(Chars), Len(text) <= 20
      PROVE  /\ IsStream(PutDouble(s, text), Chars)
             /\ PutDouble(s, text) \in {s, s \o text}
  <2>1. FitsNumber(text, Chars)
    BY <1>4, LenProperties DEF FitsNumber, SizesAreNumbers
  <2> QED
    BY <2>1, AddNumberWholeOrNot DEF PutDouble
<1>5. ASSUME NEW c \in Chars
      PROVE  /\ IsStream(PutChar(s, c), Chars)
             /\ PutChar(s, c) \in {s, s \o <<c>>}
  <2>1. IsText(<<c>>, Chars)
    BY ShortTexts
  <2> QED
    BY <2>1, AppendWholeOrNot DEF PutChar
<1>6. ASSUME NEW str \in Seq(Chars), Len(str) <= IntMax
      PROVE  /\ IsStream(PutText(s, str, FALSE), Chars)
             /\ PutText(s, str, FALSE) \in {s, s \o str}
  <2>1. IsText(str, Chars)
    BY <1>6 DEF IsText
  <2> QED
    BY <2>1, AppendWholeOrNot DEF PutText
<1>7. ASSUME NEW v \in BOOLEAN
      PROVE  /\ IsStream(PutBool(s, v), Chars)
             /\ PutBool(s, v) \in {s, s \o <<IF v THEN "1" ELSE "0">>}
  <2> DEFINE text == <<IF v THEN "1" ELSE "0">>
  <2>1. "1" \in Chars /\ "0" \in Chars
    <3>1. /\ digitsHex[1 + 0] = "0" /\ 0 \in 0 .. 16 - 1
          /\ digitsHex[1 + 1] = "1" /\ 1 \in 0 .. 16 - 1
      BY DEF digitsHex
    <3> QED
      BY <3>1 DEF Numerals
  <2>2. IsText(text, Chars)
    BY <2>1, ShortTexts
  <2>3. PutBool(s, v) = append(s, text)
    BY DEF PutBool
  <2> HIDE DEF text
  <2>4. IsStream(append(s, text), Chars) /\ append(s, text) \in {s, s \o text}
    BY <2>2, AppendWholeOrNot
  <2> QED
    BY <2>3, <2>4 DEF text
<1>8. ASSUME NEW str
      PROVE  /\ IsStream(PutText(s, str, TRUE), Chars)
             /\ PutText(s, str, TRUE) \in {s, s \o NullText}
  <2>1. NullText \in Seq(Chars) /\ Len(NullText) = 6
    BY DEF NullText
  <2>2. IsText(NullText, Chars)
    <3>1. 6 <= IntMax
      BY DEF IntMax
    <3> QED
      BY <2>1, <3>1 DEF IsText
  <2> QED
    BY <2>2, AppendWholeOrNot DEF PutText
<1> QED
  BY <1>2, <1>3, <1>4, <1>5, <1>6, <1>7, <1>8

\* Logging.cc:61.  Whatever the line holds when the Logger is destroyed, its
\* name and number are added without taking the buffer's last byte: the line
\* that reaches AsyncLogging::append is shorter than SmallBuffer, which is what
\* AsyncLogging's SizesFit asks of a message.
THEOREM LineLeavesAByte ==
    ASSUME SizesAreNumbers, NEW Chars, NEW s, IsStream(s, Chars),
           Numerals(16) \cup {"-", "x", " ", ":"} \subseteq Chars,
           NEW basename_, IsText(basename_, Chars),
           NEW line_ \in Integers64
    PROVE  IsStream(EndLine(s, basename_, line_), Chars)
<1> DEFINE dashes == PutText(s, <<" ", "-", "-", " ">>, FALSE)
           name   == PutText(dashes, basename_, FALSE)
           number == PutInteger(PutChar(name, ":"), line_)
<1>0. " " \in Chars /\ "-" \in Chars /\ ":" \in Chars
  OBVIOUS
<1>1. IsStream(dashes, Chars)
  <2>1. IsText(<<" ", "-", "-", " ">>, Chars)
    BY <1>0, ShortTexts
  <2> QED
    BY <2>1, AppendWholeOrNot DEF PutText
<1>2. IsStream(name, Chars)
  <2> HIDE DEF dashes
  <2> QED
    BY <1>1, AppendWholeOrNot DEF PutText
<1>3. IsStream(PutChar(name, ":"), Chars)
  <2> HIDE DEF name
  <2>1. IsText(<<":">>, Chars)
    BY <1>0, ShortTexts
  <2> QED
    BY <1>2, <2>1, AppendWholeOrNot DEF PutChar
<1>4. IsStream(number, Chars)
  <2> HIDE DEF name
  <2>1. FitsNumber(convert(line_), Chars)
    BY NumbersFit
  <2> QED
    BY <1>3, <2>1, AddNumberWholeOrNot DEF PutInteger
<1>5. IsStream(PutChar(number, " "), Chars)
  <2> HIDE DEF number
  <2>1. IsText(<<" ">>, Chars)
    BY <1>0, ShortTexts
  <2> QED
    BY <1>4, <2>1, AppendWholeOrNot DEF PutChar
<1> QED
  BY <1>5 DEF EndLine

-----------------------------------------------------------------------------
(* AsyncLogging: type correctness.                                         *)

LEMMA EmptyIsBuffer == Empty \in Buffer
BY SizesFit, EmptySeq DEF Empty, Buffer

\* FixedBuffer::append leaves at least one byte of the buffer free.
LEMMA BufferAppendFits ==
    ASSUME NEW b \in Buffer, NEW m \in Message
    PROVE  BufferAppend(b, m) \in Buffer
<1>1. CASE Avail(b) > m.len
  <2>1. b.length + m.len \in 0 .. Capacity - 1
    <3>1. Capacity \in Nat \ {0}
      BY SizesFit
    <3>2. m.len \in 1 .. Capacity - 1
      <4>1. m.len \in Sizes
        BY DEF Message
      <4>2. Sizes \subseteq 1 .. Capacity - 1
        BY SizesFit
      <4> QED
        BY <4>1, <4>2
    <3>3. b.length \in 0 .. Capacity - 1
      BY DEF Buffer
    <3> QED
      BY <1>1, <3>1, <3>2, <3>3 DEF Avail
  <2>2. Append(b.data, m) \in Seq(Message)
    BY AppendProperties DEF Buffer
  <2> QED
    BY <1>1, <2>1, <2>2 DEF BufferAppend, Put, Buffer
<1>2. CASE ~(Avail(b) > m.len)
  BY <1>2 DEF BufferAppend
<1> QED
  BY <1>1, <1>2

LEMMA AppendMessageTypes ==
    ASSUME TypeOK, NEW len \in Sizes, AppendMessage(len)
    PROVE  TypeOK'
<1> DEFINE m == [id |-> Len(logged) + 1, len |-> len]
<1>1. Len(logged) \in Nat /\ Len(logged) < MaxMessages
  BY LenProperties DEF TypeOK, AppendMessage
<1>2. m \in Message
  BY <1>1, SizesFit DEF Message
<1>3. logged' \in Seq(Message)
  BY <1>2, AppendProperties DEF TypeOK, AppendMessage
<1>4. /\ currentBuffer_' \in Buffer /\ nextBuffer_' \in Buffer \cup {Null}
      /\ buffers_' \in Seq(Buffer)
      /\ lpc' \in {"loop", "lock", "wait", "write", "done"}
  <2>1. CASE Fill(m)
    <3>1. BufferAppend(currentBuffer_, m) \in Buffer
      BY <1>2, BufferAppendFits DEF TypeOK
    <3> HIDE DEF m
    <3> QED
      BY <2>1, <3>1 DEF Fill, TypeOK
  <2>2. CASE Switch(m)
    <3>1. (IF nextBuffer_ # Null THEN nextBuffer_ ELSE Empty) \in Buffer
      BY EmptyIsBuffer DEF TypeOK
    <3>2. currentBuffer_' \in Buffer
      <4> HIDE DEF m
      <4> QED
        BY <1>2, <2>2, <3>1, BufferAppendFits DEF Switch
    <3>3. buffers_' \in Seq(Buffer)
      BY <2>2, AppendProperties DEF Switch, TypeOK
    <3> QED
      BY <2>2, <3>2, <3>3 DEF Switch, Notified, TypeOK
  <2> QED
    BY <2>1, <2>2 DEF AppendMessage
<1> QED
  BY <1>3, <1>4 DEF TypeOK, AppendMessage, local, output

LEMMA SwapBuffersTypes ==
    ASSUME TypeOK, SwapBuffers, newBuffer1 = Empty, newBuffer2 = Empty
    PROVE  TypeOK'
<1>1. buffersToWrite' \in Seq(Buffer) /\ written' \in 0 .. Len(buffersToWrite')
  BY AppendProperties, LenProperties DEF TypeOK, SwapBuffers
<1>2. /\ currentBuffer_' \in Buffer
      /\ nextBuffer_' \in Buffer \cup {Null}
      /\ newBuffer1' \in Buffer \cup {Null} /\ newBuffer2' \in Buffer \cup {Null}
  BY EmptyIsBuffer DEF TypeOK, SwapBuffers
<1>3. buffers_' \in Seq(Buffer)
  BY EmptySeq DEF SwapBuffers
<1> QED
  BY <1>1, <1>2, <1>3 DEF TypeOK, SwapBuffers, output

LEMMA WriteBufferTypes ==
    ASSUME TypeOK, WriteBuffer
    PROVE  TypeOK'
<1> DEFINE data == buffersToWrite[written + 1].data
           all  == stdio \o data
<1>1. written + 1 \in 1 .. Len(buffersToWrite)
  BY LenProperties DEF TypeOK, WriteBuffer
<1>2. all \in Seq(Message)
  <2>1. buffersToWrite[written + 1] \in Buffer
    BY <1>1, ElementOfSeq DEF TypeOK
  <2>2. data \in Seq(Message)
    BY <2>1 DEF Buffer
  <2> HIDE DEF data
  <2> QED
    BY <2>2, ConcatProperties DEF TypeOK
<1>3. PICK n \in 0 .. Len(all) :
         /\ file' = file \o SubSeq(all, 1, n)
         /\ stdio' = SubSeq(all, n + 1, Len(all))
  BY DEF WriteBuffer
<1> HIDE DEF all
<1>4. SubSeq(all, 1, n) \in Seq(Message) /\ stdio' \in Seq(Message)
  <2>1. \A i \in 1 .. Len(all) : all[i] \in Message
    BY <1>2, ElementOfSeq
  <2>2. Len(all) \in Nat
    BY <1>2, LenProperties
  <2>3. SubSeq(all, 1, n) \in Seq(Message)
    <3>1. \A i \in 1 .. n : all[i] \in Message
      BY <2>1, <2>2
    <3> QED
      BY <2>2, <3>1, SubSeqProperties
  <2>4. SubSeq(all, n + 1, Len(all)) \in Seq(Message)
    <3>1. \A i \in n + 1 .. Len(all) : all[i] \in Message
      BY <2>1, <2>2
    <3> QED
      BY <2>2, <3>1, SubSeqProperties
  <2> QED
    BY <1>3, <2>3, <2>4
<1>5. file' \in Seq(Message)
  BY <1>3, <1>4, ConcatProperties DEF TypeOK
<1>6. count' \in 0 .. Limit /\ written' \in 0 .. Len(buffersToWrite)
  BY <1>1, SizesFit DEF WriteBuffer, TypeOK
<1> QED
  BY <1>4, <1>5, <1>6 DEF TypeOK, WriteBuffer, shared

-----------------------------------------------------------------------------
(* The spare buffers.                                                      *)

\* Outside a round both spares are empty.  In a round the first is gone, the
\* second may be, and at least two buffers are there to take them from.
Spares ==
    /\ lpc # "write" =>
          newBuffer1 = Empty /\ newBuffer2 = Empty /\ buffersToWrite = <<>>
    /\ lpc = "write" =>
          /\ newBuffer1 = Null /\ newBuffer2 \in {Null, Empty}
          /\ Len(buffersToWrite) >= 2

LogInv == TypeOK /\ Spares

\* AsyncLogging.cc:110-131.  Two of the buffers that were written come back
\* empty, so the asserts at 118 and 126 hold.
LEMMA GiveBackRefills ==
    ASSUME LogInv, GiveBack
    PROVE  newBuffer1' = Empty /\ newBuffer2' = Empty
<1> DEFINE kept == SubSeq(buffersToWrite, 1, IF written > 2 THEN 2 ELSE written)
<1>1. /\ lpc = "write" /\ written = Len(buffersToWrite) /\ written >= 2
      /\ written \in Nat
  BY LenProperties DEF GiveBack, LogInv, Spares, TypeOK
<1>2. Len(kept) = 2
  <2>1. kept = SubSeq(buffersToWrite, 1, 2)
    BY <1>1
  <2>2. \A i \in 1 .. 2 : buffersToWrite[i] \in Buffer
    BY <1>1, ElementOfSeq DEF LogInv, TypeOK
  <2>3. Len(SubSeq(buffersToWrite, 1, 2)) = IF 1 <= 2 THEN 2 - 1 + 1 ELSE 0
    BY <2>2, SubSeqProperties
  <2> HIDE DEF kept
  <2> QED
    BY <2>1, <2>3
<1>3. newBuffer1 = Null /\ newBuffer2 \in {Null, Empty}
  BY <1>1 DEF LogInv, Spares
<1> HIDE DEF kept
<1>4. /\ newBuffer1' = IF 0 < Len(kept) THEN Empty ELSE Null
      /\ newBuffer2' = IF newBuffer2 = Null
                       THEN IF 1 < Len(kept) THEN Empty ELSE Null
                       ELSE newBuffer2
  BY <1>3 DEF GiveBack, kept, Reset
<1> QED
  BY <1>2, <1>3, <1>4

LEMMA NextLog == LogInv /\ [Next]_vars => LogInv'
<1> SUFFICES ASSUME LogInv, [Next]_vars
             PROVE  LogInv'
  OBVIOUS
<1> USE DEF LogInv
<1>1. ASSUME NEW len \in Sizes, AppendMessage(len)
      PROVE  LogInv'
  <2>1. /\ UNCHANGED local
        /\ lpc' = lpc \/ (lpc = "wait" /\ lpc' = "lock")
    BY <1>1 DEF AppendMessage, Fill, Switch, Notified
  <2>2. Spares'
    BY <2>1 DEF Spares, local
  <2> QED
    BY <1>1, <2>2, AppendMessageTypes
<1>2. CASE StopRunning \/ StopJoins \/ StopNotifies
  <2>1. TypeOK'
    BY <1>2 DEF StopRunning, StopJoins, StopNotifies, Notified, TypeOK,
                shared, local, output
  <2>2. Spares'
    BY <1>2 DEF StopRunning, StopJoins, StopNotifies, Notified, Spares, local
  <2> QED
    BY <2>1, <2>2
<1>3. CASE TestRunning
  <2>1. file' \in Seq(Message) /\ stdio' \in Seq(Message)
    BY <1>3, EmptySeq, ConcatProperties DEF TestRunning, TypeOK
  <2>2. TypeOK'
    BY <1>3, <2>1 DEF TestRunning, TypeOK, shared, local
  <2>3. Spares'
    BY <1>3 DEF TestRunning, Spares, local
  <2> QED
    BY <2>2, <2>3
<1>4. CASE Wait \/ WakeSpuriously
  <2>1. TypeOK'
    BY <1>4 DEF Wait, WakeSpuriously, TypeOK, shared, local, output
  <2>2. Spares'
    BY <1>4 DEF Wait, WakeSpuriously, Spares, local
  <2> QED
    BY <2>1, <2>2
<1>5. CASE SwapBuffers
  <2>1. newBuffer1 = Empty /\ newBuffer2 = Empty
    BY <1>5 DEF SwapBuffers, Spares
  <2>2. TypeOK'
    BY <1>5, <2>1, SwapBuffersTypes
  <2>3. Len(buffersToWrite') >= 2
    <3>1. Len(buffers_) # 0 /\ Len(buffers_) \in Nat
      BY <1>5, EmptySeq, LenProperties DEF SwapBuffers, TypeOK
    <3>2. Len(buffersToWrite') = Len(buffers_) + 1
      BY <1>5, AppendProperties DEF SwapBuffers, TypeOK
    <3> QED
      BY <3>1, <3>2
  <2>4. Spares'
    BY <1>5, <2>1, <2>3 DEF SwapBuffers, Spares
  <2> QED
    BY <2>2, <2>4
<1>6. CASE WriteBuffer
  <2>1. Spares'
    BY <1>6 DEF WriteBuffer, Spares
  <2> QED
    BY <1>6, <2>1, WriteBufferTypes
<1>7. CASE GiveBack
  <2>1. /\ newBuffer1' = Empty /\ newBuffer2' = Empty /\ buffersToWrite' = <<>>
        /\ written' = 0 /\ lpc' = "loop"
    BY <1>7, GiveBackRefills DEF GiveBack
  <2>2. file' \in Seq(Message) /\ stdio' \in Seq(Message)
    BY <1>7, EmptySeq, ConcatProperties DEF GiveBack, TypeOK
  <2>3. buffersToWrite' \in Seq(Buffer) /\ written' \in 0 .. Len(buffersToWrite')
    BY <2>1, EmptySeq
  <2>4. TypeOK'
    BY <1>7, <2>1, <2>2, <2>3, EmptyIsBuffer DEF GiveBack, TypeOK, shared
  <2>5. Spares'
    BY <2>1 DEF Spares
  <2> QED
    BY <2>4, <2>5
<1>8. CASE UNCHANGED vars
  BY <1>8 DEF vars, shared, local, output, TypeOK, Spares
<1> QED
  BY <1>1, <1>2, <1>3, <1>4, <1>5, <1>6, <1>7, <1>8 DEF Next, LoggerStep

LEMMA InitLog == Init => LogInv
<1> SUFFICES ASSUME Init
             PROVE  LogInv
  OBVIOUS
<1>1. TypeOK
  BY EmptyIsBuffer, EmptySeq, SizesFit DEF Init, TypeOK
<1>2. Spares
  BY DEF Init, Spares
<1> QED
  BY <1>1, <1>2 DEF LogInv

\* The inductive invariant of AsyncLogging.cc:51-136's rounds: each takes away
\* one spare buffer or two and at least two to refill them from.
THEOREM LogInvariant == Spec => []LogInv
BY InitLog, NextLog, PTL DEF Spec

-----------------------------------------------------------------------------
(* The properties.                                                         *)

\* Every variable keeps its type: no buffer is ever filled to its last byte,
\* and currentBuffer_ is never a pointer that was moved from.
THEOREM TypeCorrect == Spec => []TypeOK
<1>1. LogInv => TypeOK
  BY DEF LogInv
<1> QED
  BY <1>1, LogInvariant, PTL

\* The asserts of AsyncLogging.cc:64-66, 89, 118 and 126 hold for buffers and
\* messages of any length and however many buffers a round has to write.
THEOREM SparesAreReady == Spec => []SparesReady
<1>1. LogInv => SparesReady
  <2> SUFFICES ASSUME LogInv
               PROVE  SparesReady
    OBVIOUS
  <2> DEFINE gone == {i \in {1, 2} : <<newBuffer1, newBuffer2>>[i] = Null}
  <2>1. IsFiniteSet({1, 2}) /\ Cardinality({1, 2}) = 2
    <3>1. IsFiniteSet({1}) /\ Cardinality({1}) = 1
      BY FS_Singleton
    <3>2. IsFiniteSet({1} \cup {2})
          /\ Cardinality({1} \cup {2}) = Cardinality({1}) + 1
      BY <3>1, FS_AddElement
    <3>3. {1} \cup {2} = {1, 2}
      OBVIOUS
    <3> QED
      BY <3>1, <3>2, <3>3
  <2>2. Cardinality(gone) <= 2 /\ Cardinality(gone) \in Nat
    <3>1. gone \subseteq {1, 2}
      OBVIOUS
    <3> HIDE DEF gone
    <3>2. IsFiniteSet(gone) /\ Cardinality(gone) <= Cardinality({1, 2})
      BY <2>1, <3>1, FS_Subset
    <3>3. Cardinality(gone) \in Nat
      BY <3>2, FS_CardinalityType
    <3> QED
      BY <2>1, <3>2, <3>3
  <2>3. lpc = "write" => Len(buffersToWrite) >= 2 /\ Len(buffersToWrite) \in Nat
    BY LenProperties DEF LogInv, Spares, TypeOK
  <2>4. lpc = "write" => Len(buffersToWrite) >= Cardinality(gone)
    <3> HIDE DEF gone
    <3> QED
      BY <2>2, <2>3
  <2> QED
    BY <2>4 DEF LogInv, Spares, SparesReady
<1> QED
  BY <1>1, LogInvariant, PTL

\* AsyncLogging.cc:133: whatever Logfile's own count is, a round leaves
\* nothing in the FILE.
THEOREM NothingStaysBack == Spec => []NothingHeldBack
<1>1. Init => NothingHeldBack
  BY DEF Init, NothingHeldBack
<1>2. NothingHeldBack /\ [Next]_vars => NothingHeldBack'
  <2> SUFFICES ASSUME NothingHeldBack, [Next]_vars
               PROVE  NothingHeldBack'
    OBVIOUS
  <2> USE DEF NothingHeldBack
  <2>1. ASSUME NEW len \in Sizes, AppendMessage(len)
        PROVE  NothingHeldBack'
    BY <2>1 DEF AppendMessage, Fill, Switch, Notified, output
  <2>2. CASE StopRunning \/ StopJoins \/ StopNotifies
    BY <2>2 DEF StopRunning, StopJoins, StopNotifies, Notified, output
  <2>3. CASE TestRunning \/ Wait \/ WakeSpuriously
    BY <2>3 DEF TestRunning, Wait, WakeSpuriously, output
  <2>4. CASE SwapBuffers \/ WriteBuffer \/ GiveBack
    BY <2>4 DEF SwapBuffers, WriteBuffer, GiveBack, output
  <2>5. CASE UNCHANGED vars
    BY <2>5 DEF vars, output
  <2> QED
    BY <2>1, <2>2, <2>3, <2>4, <2>5 DEF Next, LoggerStep
<1> QED
  BY <1>1, <1>2, PTL DEF Spec

-----------------------------------------------------------------------------
(* FlattenSeq, and so the contents of a sequence of buffers.               *)

LEMMA NextNumber ==
    \A n \in Nat : /\ n + 1 \in Nat /\ n + 1 \in 1 .. n + 1 /\ (n + 1) - 1 = n
                  /\ n <= n + 1 /\ (n # 0 => n \in 1 .. n)
OBVIOUS

LEMMA FewerPlaces ==
    \A n, m \in Nat : n <= m => 1 .. n \subseteq 1 .. m
OBVIOUS

\* The recursive function inside FlattenSeq, on the first n sequences of s.
IsFlat(g, s, n) ==
    g = [i \in 1 .. n |-> IF i = 1 THEN s[i] ELSE g[i - 1] \o s[i]]

\* There is one ...
LEMMA FlatExists ==
    ASSUME NEW s, NEW n \in Nat
    PROVE  \E g : IsFlat(g, s, n)
<1> DEFINE S == {k \in Nat : \E g : IsFlat(g, s, k)}
<1>1. 0 \in S
  <2>1. IsFlat([i \in 1 .. 0 |-> 0], s, 0)
    BY DEF IsFlat
  <2> QED
    BY <2>1
<1>2. ASSUME NEW k \in Nat, k \in S
      PROVE  k + 1 \in S
  <2>1. PICK g : IsFlat(g, s, k)
    BY <1>2
  <2> DEFINE h == [i \in 1 .. k + 1 |->
                     IF i = k + 1
                     THEN IF i = 1 THEN s[i] ELSE g[i - 1] \o s[i]
                     ELSE g[i]]
  <2>2. ASSUME NEW i \in 1 .. k + 1
        PROVE  h[i] = IF i = 1 THEN s[i] ELSE h[i - 1] \o s[i]
    <3>1. CASE i = k + 1
      BY <3>1
    <3>2. CASE i # k + 1
      <4>1. i \in 1 .. k /\ h[i] = g[i]
        BY <3>2
      <4>2. g[i] = IF i = 1 THEN s[i] ELSE g[i - 1] \o s[i]
        BY <2>1, <4>1 DEF IsFlat
      <4>3. i # 1 => h[i - 1] = g[i - 1]
        BY <4>1
      <4> QED
        BY <4>1, <4>2, <4>3
    <3> QED
      BY <3>1, <3>2
  <2>3. IsFlat(h, s, k + 1)
    <3>1. h = [i \in 1 .. k + 1 |-> h[i]]
      OBVIOUS
    <3> HIDE DEF h
    <3> QED
      BY <2>2, <3>1 DEF IsFlat
  <2> HIDE DEF h
  <2> QED
    BY <2>3
<1> HIDE DEF S
<1>3. Nat \subseteq S
  BY <1>1, <1>2, Induction
<1> QED
  BY <1>3 DEF S

LEMMA FlattenIs ==
    ASSUME NEW s, Len(s) \in Nat, Len(s) # 0
    PROVE  \E g : IsFlat(g, s, Len(s)) /\ FlattenSeq(s) = g[Len(s)]
<1>1. \E g : g = [i \in 1 .. Len(s) |-> IF i = 1 THEN s[i] ELSE g[i - 1] \o s[i]]
  BY FlatExists DEF IsFlat
<1> QED
  BY <1>1 DEF FlattenSeq, IsFlat

\* ... and any two agree as far as the sequences do.
SameUpTo(s, t, n) == \A i \in 1 .. n : s[i] = t[i]

LEMMA FlatAgree ==
    ASSUME NEW s, NEW t, NEW n \in Nat, NEW m \in Nat, n <= m,
           SameUpTo(s, t, n),
           NEW g, IsFlat(g, s, n), NEW h, IsFlat(h, t, m)
    PROVE  SameUpTo(g, h, n)
<1> USE DEF SameUpTo
<1> DEFINE S == {k \in Nat : k \in 1 .. n => g[k] = h[k]}
<1>1. 0 \in S
  OBVIOUS
<1>2. ASSUME NEW k \in Nat, k \in S
      PROVE  k + 1 \in S
  <2> SUFFICES ASSUME k + 1 \in 1 .. n
               PROVE  g[k + 1] = h[k + 1]
    OBVIOUS
  <2>1. /\ g[k + 1] = IF k + 1 = 1 THEN s[k + 1] ELSE g[k] \o s[k + 1]
        /\ h[k + 1] = IF k + 1 = 1 THEN t[k + 1] ELSE h[k] \o t[k + 1]
    <3>1. k + 1 \in 1 .. m /\ (k + 1) - 1 = k
      <4> HIDE DEF S
      <4>1. 1 .. n \subseteq 1 .. m
        BY FewerPlaces
      <4> QED
        BY <4>1, NextNumber, Zenon
    <3>2. /\ \A i \in 1 .. n : g[i] = IF i = 1 THEN s[i] ELSE g[i - 1] \o s[i]
          /\ \A i \in 1 .. m : h[i] = IF i = 1 THEN t[i] ELSE h[i - 1] \o t[i]
      BY DEF IsFlat
    <3> HIDE DEF S
    <3> QED
      BY <3>1, <3>2, Zenon
  <2>2. s[k + 1] = t[k + 1]
    OBVIOUS
  <2>3. CASE k = 0
    BY <2>1, <2>2, <2>3
  <2>4. CASE k # 0
    <3>1. g[k] = h[k]
      BY <1>2, <2>4
    <3> QED
      BY <2>1, <2>2, <2>4, <3>1
  <2> QED
    BY <2>3, <2>4
<1> HIDE DEF S
<1>3. Nat \subseteq S
  BY <1>1, <1>2, Induction
<1> QED
  BY <1>3 DEF S

LEMMA FlatTypes ==
    ASSUME NEW M, NEW s \in Seq(Seq(M)), NEW g, IsFlat(g, s, Len(s))
    PROVE  \A i \in 1 .. Len(s) : g[i] \in Seq(M)
<1> DEFINE S == {k \in Nat : k \in 1 .. Len(s) => g[k] \in Seq(M)}
<1>0. Len(s) \in Nat
  BY LenProperties
<1>1. 0 \in S
  OBVIOUS
<1>2. ASSUME NEW k \in Nat, k \in S
      PROVE  k + 1 \in S
  <2> SUFFICES ASSUME k + 1 \in 1 .. Len(s)
               PROVE  g[k + 1] \in Seq(M)
    OBVIOUS
  <2>1. g[k + 1] = IF k + 1 = 1 THEN s[k + 1] ELSE g[k] \o s[k + 1]
    <3>1. (k + 1) - 1 = k
      OBVIOUS
    <3> QED
      BY <3>1 DEF IsFlat
  <2>2. s[k + 1] \in Seq(M)
    BY ElementOfSeq
  <2>3. CASE k = 0
    BY <2>1, <2>2, <2>3
  <2>4. CASE k # 0
    <3>1. g[k] \in Seq(M)
      BY <1>0, <1>2, <2>4
    <3>2. g[k] \o s[k + 1] \in Seq(M)
      BY <2>2, <3>1, ConcatProperties
    <3> QED
      BY <2>1, <2>4, <3>2
  <2> QED
    BY <2>3, <2>4
<1> HIDE DEF S
<1>3. Nat \subseteq S
  BY <1>1, <1>2, Induction
<1> QED
  BY <1>0, <1>3 DEF S

LEMMA FlattenTypes ==
    ASSUME NEW M, NEW s \in Seq(Seq(M))
    PROVE  FlattenSeq(s) \in Seq(M)
<1>1. Len(s) \in Nat
  BY LenProperties
<1>2. CASE Len(s) = 0
  <2>1. s = <<>>
    BY <1>2, EmptySeq
  <2> QED
    BY <1>2, <2>1, EmptySeq DEF FlattenSeq
<1>3. CASE Len(s) # 0
  <2>1. PICK g : IsFlat(g, s, Len(s)) /\ FlattenSeq(s) = g[Len(s)]
    BY <1>1, <1>3, FlattenIs
  <2> QED
    BY <1>1, <1>3, <2>1, FlatTypes
<1> QED
  BY <1>2, <1>3

\* One more sequence is concatenated at the end.
LEMMA FlattenAppend ==
    ASSUME NEW M, NEW s \in Seq(Seq(M)), NEW e \in Seq(M)
    PROVE  FlattenSeq(Append(s, e)) = FlattenSeq(s) \o e
<1> DEFINE t == Append(s, e)
           n == Len(s)
<1>1. /\ n \in Nat /\ Len(t) = n + 1 /\ t[n + 1] = e
      /\ \A i \in 1 .. n : s[i] = t[i]
  BY LenProperties, AppendProperties
<1> HIDE DEF t, n
<1>2. PICK h : IsFlat(h, t, n + 1) /\ FlattenSeq(t) = h[n + 1]
  <2>1. Len(t) \in Nat /\ Len(t) # 0
    BY <1>1
  <2> QED
    BY <1>1, <2>1, FlattenIs
<1>3. h[n + 1] = IF n + 1 = 1 THEN t[n + 1] ELSE h[n] \o t[n + 1]
  <2>1. n + 1 \in 1 .. n + 1 /\ (n + 1) - 1 = n
    BY <1>1, NextNumber
  <2> QED
    BY <1>2, <2>1 DEF IsFlat
<1>4. CASE n = 0
  <2>1. s = <<>> /\ FlattenSeq(s) = <<>>
    <3>1. s = <<>>
      BY <1>4, EmptySeq DEF n
    <3> QED
      BY <1>4, <3>1 DEF FlattenSeq, n
  <2>2. <<>> \o e = e
    BY ConcatEmptySeq
  <2> QED
    BY <1>1, <1>2, <1>3, <1>4, <2>1, <2>2 DEF t
<1>5. CASE n # 0
  <2>1. PICK g : IsFlat(g, s, n) /\ FlattenSeq(s) = g[n]
    BY <1>1, <1>5, FlattenIs DEF n
  <2>2. g[n] = h[n]
    <3>1. n \in Nat /\ n + 1 \in Nat /\ n <= n + 1 /\ n \in 1 .. n
      <4>1. n \in Nat /\ n # 0
        BY <1>1, <1>5
      <4> QED
        BY <4>1, NextNumber, Zenon
    <3>2. SameUpTo(s, t, n)
      BY <1>1 DEF SameUpTo
    <3>3. SameUpTo(g, h, n)
      <4>1. IsFlat(g, s, n) /\ IsFlat(h, t, n + 1)
        BY <1>2, <2>1
      <4> QED
        BY <3>1, <3>2, <4>1, FlatAgree
    <3> QED
      BY <3>1, <3>3 DEF SameUpTo
  <2> QED
    BY <1>1, <1>2, <1>3, <1>5, <2>1, <2>2 DEF t
<1> QED
  BY <1>4, <1>5

-----------------------------------------------------------------------------
(* Sequences of messages, with \o behind a name of its own: the provers then  *)
(* see these four facts about it and no other.                             *)

Texts == Seq(Message)
Cat(s, t) == s \o t

LEMMA CatIn == \A s, t \in Texts : Cat(s, t) \in Texts
BY ConcatProperties DEF Cat, Texts

LEMMA CatAssoc ==
    \A s, t, u \in Texts : Cat(s, Cat(t, u)) = Cat(Cat(s, t), u)
BY ConcatAssociative DEF Cat, Texts

LEMMA CatNone == \A s \in Texts : Cat(s, <<>>) = s /\ Cat(<<>>, s) = s
BY ConcatEmptySeq DEF Cat, Texts

LEMMA NoneIn == <<>> \in Texts
BY EmptySeq DEF Texts

LEMMA AppendIs ==
    \A s \in Texts, m \in Message : <<m>> \in Texts /\ Append(s, m) = Cat(s, <<m>>)
BY AppendIsConcat DEF Cat, Texts

-----------------------------------------------------------------------------
(* Contents.                                                               *)

\* The messages of each buffer of a sequence.
DataOf(bufs) == [i \in DOMAIN bufs |-> bufs[i].data]

LEMMA DataTypes ==
    ASSUME NEW bufs \in Seq(Buffer)
    PROVE  DataOf(bufs) \in Seq(Seq(Message))
<1>1. Len(bufs) \in Nat /\ DOMAIN bufs = 1 .. Len(bufs)
  BY LenProperties
<1>2. \A i \in 1 .. Len(bufs) : bufs[i].data \in Seq(Message)
  <2>1. \A i \in 1 .. Len(bufs) : bufs[i] \in Buffer
    BY ElementOfSeq
  <2> QED
    BY <2>1 DEF Buffer
<1>3. DataOf(bufs) \in [1 .. Len(bufs) -> Seq(Message)]
  BY <1>1, <1>2 DEF DataOf
<1> QED
  BY <1>1, <1>3, SeqDef

LEMMA ContentsTypes ==
    ASSUME NEW bufs \in Seq(Buffer)
    PROVE  Contents(bufs) \in Seq(Message)
BY DataTypes, FlattenTypes DEF Contents, DataOf

LEMMA ContentsOfNone == Contents(<<>>) = <<>>
<1>1. DataOf(<<>>) = <<>>
  BY DEF DataOf
<1>2. FlattenSeq(<<>>) = <<>>
  BY DEF FlattenSeq
<1> QED
  BY <1>1, <1>2 DEF Contents, DataOf

\* A buffer at the end adds its messages at the end.
LEMMA ContentsAppend ==
    ASSUME NEW bufs \in Seq(Buffer), NEW b \in Buffer
    PROVE  Contents(Append(bufs, b)) = Contents(bufs) \o b.data
<1>1. b.data \in Seq(Message)
  BY DEF Buffer
<1>2. DataOf(Append(bufs, b)) = Append(DataOf(bufs), b.data)
  BY LenProperties, AppendProperties DEF DataOf
<1>3. FlattenSeq(Append(DataOf(bufs), b.data))
        = FlattenSeq(DataOf(bufs)) \o b.data
  BY <1>1, DataTypes, FlattenAppend
<1> QED
  BY <1>2, <1>3 DEF Contents, DataOf

\* The part of a sequence from its m-th buffer on is the m-th and the rest.
LEMMA ContentsFirst ==
    ASSUME NEW bufs \in Seq(Buffer), NEW m \in 1 .. Len(bufs)
    PROVE  Contents(SubSeq(bufs, m, Len(bufs)))
             = bufs[m].data \o Contents(SubSeq(bufs, m + 1, Len(bufs)))
<1> DEFINE d == bufs[m].data
           From(j, k) == Contents(SubSeq(bufs, j, m + k))
           S == {k \in Nat : m + k <= Len(bufs) =>
                                From(m, k) = d \o From(m + 1, k)}
<1>0. /\ Len(bufs) \in Nat /\ m \in Nat
      /\ \A i \in 1 .. Len(bufs) : bufs[i] \in Buffer
  BY LenProperties, ElementOfSeq
<1>a. \A j \in Nat, k \in Nat : j > 0 /\ m + k <= Len(bufs) =>
         SubSeq(bufs, j, m + k) \in Seq(Buffer)
  <2> SUFFICES ASSUME NEW j \in Nat, NEW k \in Nat, j > 0, m + k <= Len(bufs)
               PROVE  SubSeq(bufs, j, m + k) \in Seq(Buffer)
    OBVIOUS
  <2>1. \A i \in j .. m + k : bufs[i] \in Buffer
    BY <1>0
  <2> QED
    BY <1>0, <2>1, SubSeqProperties
<1>b. \A i \in 1 .. Len(bufs) : bufs[i].data \in Seq(Message)
  BY <1>0 DEF Buffer
<1>1. 0 \in S
  <2> SUFFICES From(m, 0) = d \o From(m + 1, 0)
    OBVIOUS
  <2>1. m + 0 = m /\ m \in Int /\ m + 1 \in Int /\ m < m + 1
    BY <1>0
  <2>2. SubSeq(bufs, m, m) = SubSeq(bufs, m, m - 1) \o <<bufs[m]>>
    <3>1. m \in m .. Len(bufs)
      BY <1>0
    <3> QED
      BY <3>1, SubSeqRecursiveSecond
  <2>3. SubSeq(bufs, m, m - 1) = <<>> /\ SubSeq(bufs, m + 1, m) = <<>>
    <3>1. m - 1 \in Int /\ m - 1 < m
      BY <1>0
    <3> QED
      BY <2>1, <3>1, SubSeqEmpty
  <2>4. SubSeq(bufs, m, m) = Append(<<>>, bufs[m])
    <3>1. <<>> \in Seq(Buffer) /\ bufs[m] \in Buffer
      BY <1>0, EmptySeq
    <3> QED
      BY <2>2, <2>3, <3>1, AppendIsConcat
  <2>5. Contents(SubSeq(bufs, m, m)) = <<>> \o d
    BY <1>0, <2>4, EmptySeq, ContentsAppend, ContentsOfNone
  <2>6. <<>> \o d = d /\ d \o <<>> = d
    BY <1>b, ConcatEmptySeq
  <2> QED
    BY <2>1, <2>3, <2>5, <2>6, ContentsOfNone
<1>2. ASSUME NEW k \in Nat, k \in S
      PROVE  k + 1 \in S
  <2> SUFFICES ASSUME m + (k + 1) <= Len(bufs)
               PROVE  From(m, k + 1) = d \o From(m + 1, k + 1)
    <3> HIDE DEF From, d
    <3> QED
      BY DEF S
  <2> DEFINE b == bufs[m + (k + 1)]
  <2>1. /\ m + (k + 1) \in 1 .. Len(bufs) /\ m + (k + 1) \in m .. Len(bufs)
        /\ m + (k + 1) \in m + 1 .. Len(bufs) /\ m + 1 \in 1 .. Len(bufs)
        /\ (m + (k + 1)) - 1 = m + k /\ m + k <= Len(bufs) /\ m + 1 \in Nat
        /\ m > 0 /\ m + 1 > 0
    BY <1>0
  <2>2. b \in Buffer /\ b.data \in Seq(Message)
    BY <1>0, <1>b, <2>1
  <2>3. \A j \in {m, m + 1} : From(j, k + 1) = From(j, k) \o b.data
    <3> SUFFICES ASSUME NEW j \in {m, m + 1}
                 PROVE  From(j, k + 1) = From(j, k) \o b.data
      OBVIOUS
    <3>1. SubSeq(bufs, j, m + (k + 1)) = SubSeq(bufs, j, m + k) \o <<b>>
      BY <2>1, SubSeqRecursiveSecond
    <3>2. SubSeq(bufs, j, m + k) \in Seq(Buffer)
      BY <1>0, <1>a, <2>1
    <3>3. SubSeq(bufs, j, m + (k + 1)) = Append(SubSeq(bufs, j, m + k), b)
      BY <2>2, <3>1, <3>2, AppendIsConcat
    <3> HIDE DEF b
    <3> QED
      BY <2>2, <3>2, <3>3, ContentsAppend
  <2>4. From(m + 1, k) \in Texts /\ d \in Texts /\ b.data \in Texts
    BY <1>0, <1>a, <1>b, <2>1, <2>2, ContentsTypes DEF Texts
  <2>5. From(m, k) = d \o From(m + 1, k)
    BY <1>2, <2>1
  <2> HIDE DEF From, b, d
  <2>6. Cat(Cat(d, From(m + 1, k)), b.data) = Cat(d, Cat(From(m + 1, k), b.data))
    BY <2>4, CatAssoc
  <2> QED
    BY <2>3, <2>5, <2>6 DEF Cat
<1>3. Nat \subseteq S
  <2> HIDE DEF S
  <2> QED
    BY <1>1, <1>2, Induction
<1>4. Len(bufs) - m \in Nat /\ m + (Len(bufs) - m) = Len(bufs)
  BY <1>0
<1>5. From(m, Len(bufs) - m) = d \o From(m + 1, Len(bufs) - m)
  <2> HIDE DEF From, d
  <2> QED
    BY <1>0, <1>3, <1>4 DEF S
<1> QED
  BY <1>4, <1>5

-----------------------------------------------------------------------------
(* Nothing is lost.                                                        *)

\* A spare buffer that append finds is empty: a message always fits into it,
\* and nothing old is written again.
NextEmpty == nextBuffer_ \in {Null, Empty}

QueueInv == LogInv /\ NextEmpty /\ NothingLost

LEMMA RestTypes ==
    ASSUME NEW bufs \in Seq(Buffer), NEW n \in 0 .. Len(bufs)
    PROVE  SubSeq(bufs, n + 1, Len(bufs)) \in Seq(Buffer)
<1>1. /\ Len(bufs) \in Nat
      /\ \A i \in 1 .. Len(bufs) : bufs[i] \in Buffer
  BY LenProperties, ElementOfSeq
<1>2. \A i \in n + 1 .. Len(bufs) : bufs[i] \in Buffer
  BY <1>1
<1> QED
  BY <1>1, <1>2, SubSeqProperties

\* A sequence cut in two.
LEMMA CutTypes ==
    ASSUME NEW M, NEW s \in Seq(M), NEW n \in 0 .. Len(s)
    PROVE  /\ SubSeq(s, 1, n) \in Seq(M) /\ SubSeq(s, n + 1, Len(s)) \in Seq(M)
           /\ SubSeq(s, 1, n) \o SubSeq(s, n + 1, Len(s)) = s
<1>1. Len(s) \in Nat /\ \A i \in 1 .. Len(s) : s[i] \in M
  BY LenProperties, ElementOfSeq
<1>2. SubSeq(s, 1, n) \in Seq(M)
  <2>1. \A i \in 1 .. n : s[i] \in M
    BY <1>1
  <2> QED
    BY <1>1, <2>1, SubSeqProperties
<1>3. SubSeq(s, n + 1, Len(s)) \in Seq(M)
  <2>1. \A i \in n + 1 .. Len(s) : s[i] \in M
    BY <1>1
  <2> QED
    BY <1>1, <2>1, SubSeqProperties
<1>4. SubSeq(s, 1, n) \o SubSeq(s, n + 1, Len(s)) = s
  <2>1. /\ 1 \in 1 .. Len(s) + 1 /\ n \in 1 - 1 .. Len(s)
        /\ Len(s) \in n .. Len(s)
    BY <1>1
  <2>2. SubSeq(s, 1, n) \o SubSeq(s, n + 1, Len(s)) = SubSeq(s, 1, Len(s))
    BY <2>1, ConcatAdjacentSubSeq
  <2> QED
    BY <2>2, SubSeqFull
<1> QED
  BY <1>2, <1>3, <1>4

LEMMA PartTypes ==
    LogInv => /\ file \in Texts /\ stdio \in Texts /\ logged \in Texts
              /\ Contents(ToWrite) \in Texts /\ Contents(buffers_) \in Texts
              /\ currentBuffer_.data \in Texts
<1> SUFFICES ASSUME LogInv
             PROVE  /\ file \in Texts /\ stdio \in Texts /\ logged \in Texts
                    /\ Contents(ToWrite) \in Texts /\ Contents(buffers_) \in Texts
                    /\ currentBuffer_.data \in Texts
  OBVIOUS
<1>1. ToWrite \in Seq(Buffer)
  BY RestTypes DEF LogInv, TypeOK, ToWrite
<1> QED
  BY <1>1, ContentsTypes DEF LogInv, TypeOK, Buffer, Texts

\* NothingLost in these terms, of a state and of the next.
LEMMA InOrder ==
    NothingLost <=>
        Cat(Cat(Cat(Cat(file, stdio), Contents(ToWrite)), Contents(buffers_)),
            currentBuffer_.data) = logged
BY DEF NothingLost, Cat

LEMMA InOrderNext ==
    NothingLost' <=>
        Cat(Cat(Cat(Cat(file', stdio'), Contents(ToWrite')), Contents(buffers_')),
            currentBuffer_'.data) = logged'
BY DEF NothingLost, Cat

\* AsyncLogging.cc:29-49.  The message goes behind all the others, in the
\* current buffer or behind it in the next.
LEMMA AppendOrdered ==
    ASSUME QueueInv, NEW len \in Sizes, AppendMessage(len)
    PROVE  NextEmpty' /\ NothingLost'
<1> DEFINE m == [id |-> Len(logged) + 1, len |-> len]
           front == Cat(Cat(file, stdio), Contents(ToWrite))
           b == Contents(buffers_)
           c == currentBuffer_.data
<1>1. m \in Message
  BY LenProperties, SizesFit DEF Message, QueueInv, LogInv, TypeOK, AppendMessage
<1>2. ToWrite' = ToWrite /\ file' = file /\ stdio' = stdio
      /\ logged' = Append(logged, m)
  BY DEF AppendMessage, ToWrite, local, output
<1>3. front \in Texts /\ b \in Texts /\ c \in Texts /\ logged \in Texts
  BY PartTypes, CatIn DEF QueueInv
<1>4. Cat(Cat(front, b), c) = logged
  BY InOrder DEF QueueInv
<1>5. CASE Fill(m)
  <2>1. /\ currentBuffer_'.data = Append(c, m)
        /\ buffers_' = buffers_ /\ nextBuffer_' = nextBuffer_
    BY <1>5 DEF Fill, BufferAppend, Put
  <2>2. Cat(Cat(front, b), Append(c, m)) = Append(logged, m)
    <3> HIDE DEF m, front, b, c
    <3>1. Cat(front, b) \in Texts /\ <<m>> \in Texts
      BY <1>1, <1>3, CatIn, AppendIs
    <3>2. Cat(Cat(front, b), Cat(c, <<m>>)) = Cat(Cat(Cat(front, b), c), <<m>>)
      BY <1>3, <3>1, CatAssoc
    <3> QED
      BY <1>1, <1>3, <1>4, <3>2, AppendIs
  <2>3. NextEmpty'
    BY <2>1 DEF NextEmpty, QueueInv
  <2> QED
    BY <1>2, <2>1, <2>2, <2>3, InOrderNext
<1>6. CASE Switch(m)
  <2>1. currentBuffer_' = BufferAppend(Empty, m)
    BY <1>6 DEF Switch, QueueInv, NextEmpty
  <2>2. Avail(Empty) > m.len
    BY SizesFit DEF Avail, Empty
  <2>3. currentBuffer_'.data = Append(<<>>, m)
    BY <2>1, <2>2 DEF BufferAppend, Put, Empty
  <2>4. Contents(buffers_') = Cat(b, c)
    BY <1>6, ContentsAppend DEF Switch, QueueInv, LogInv, TypeOK, Cat
  <2>5. Cat(Cat(front, Cat(b, c)), Append(<<>>, m)) = Append(logged, m)
    <3> HIDE DEF m, front, b, c
    <3>1. Cat(front, Cat(b, c)) = logged
      BY <1>3, <1>4, CatAssoc
    <3>2. Append(<<>>, m) = <<m>>
      BY <1>1, AppendIs, CatNone, NoneIn
    <3> QED
      BY <1>1, <1>3, <3>1, <3>2, AppendIs
  <2>6. NextEmpty'
    BY <1>6 DEF Switch, NextEmpty
  <2> QED
    BY <1>2, <2>3, <2>4, <2>5, <2>6, InOrderNext
<1> QED
  BY <1>5, <1>6 DEF AppendMessage

\* AsyncLogging.cc:80-86.  The buffers move to the logging thread with the
\* current one at their end, and an empty one takes its place.
LEMMA SwapOrdered ==
    ASSUME QueueInv, SwapBuffers
    PROVE  NextEmpty' /\ NothingLost'
<1> DEFINE out == Cat(file, stdio)
           b == Contents(buffers_)
           c == currentBuffer_.data
<1>1. /\ newBuffer1 = Empty /\ newBuffer2 = Empty /\ buffersToWrite = <<>>
      /\ currentBuffer_' = Empty /\ buffers_' = <<>>
      /\ file' = file /\ stdio' = stdio /\ logged' = logged
  BY DEF SwapBuffers, QueueInv, LogInv, Spares, output
<1>2. NextEmpty'
  BY <1>1 DEF SwapBuffers, QueueInv, NextEmpty
<1>3. Contents(ToWrite) = <<>>
  <2>1. Len(<<>>) = 0 /\ written = 0
    BY <1>1 DEF QueueInv, LogInv, TypeOK
  <2>2. ToWrite = <<>>
    <3>1. SubSeq(<<>>, 1, 0) = <<>>
      BY SubSeqEmpty
    <3> QED
      BY <1>1, <2>1, <3>1 DEF ToWrite
  <2> QED
    BY <2>2, ContentsOfNone
<1>4. Contents(ToWrite') = Cat(b, c)
  <2>1. /\ buffersToWrite' = Append(buffers_, currentBuffer_)
        /\ buffersToWrite' \in Seq(Buffer) /\ written' = 0
    BY AppendProperties DEF SwapBuffers, QueueInv, LogInv, TypeOK
  <2>2. ToWrite' = buffersToWrite'
    BY <2>1, SubSeqFull DEF ToWrite
  <2> QED
    BY <2>1, <2>2, ContentsAppend DEF QueueInv, LogInv, TypeOK, Cat
<1>5. out \in Texts /\ b \in Texts /\ c \in Texts /\ logged \in Texts
  BY PartTypes, CatIn DEF QueueInv
<1>6. Cat(Cat(Cat(out, <<>>), b), c) = logged
  BY <1>3, InOrder DEF QueueInv
<1>7. Contents(buffers_') = <<>> /\ currentBuffer_'.data = <<>>
  BY <1>1, ContentsOfNone DEF Empty
<1>8. Cat(Cat(Cat(out, Cat(b, c)), <<>>), <<>>) = logged
  <2> HIDE DEF out, b, c
  <2>1. Cat(out, Cat(b, c)) = logged
    BY <1>5, <1>6, CatNone, CatAssoc
  <2> QED
    BY <1>5, <2>1, CatNone
<1>9. NothingLost'
  BY <1>1, <1>4, <1>7, <1>8, InOrderNext
<1> QED
  BY <1>2, <1>9

\* AsyncLogging.cc:106-109.  A buffer goes through the FILE to the file,
\* however much of it stdio keeps.
LEMMA WriteOrdered ==
    ASSUME QueueInv, LogInv', WriteBuffer
    PROVE  NextEmpty' /\ NothingLost'
<1> DEFINE data == buffersToWrite[written + 1].data
           all  == Cat(stdio, data)
           rest == Contents(ToWrite')
<1>1. /\ written + 1 \in 1 .. Len(buffersToWrite) /\ written \in Nat
      /\ Len(buffersToWrite) \in Nat /\ buffersToWrite \in Seq(Buffer)
  BY LenProperties DEF QueueInv, LogInv, TypeOK, WriteBuffer
<1>2. Contents(ToWrite) = Cat(data, rest)
  <2>1. ToWrite' = SubSeq(buffersToWrite, (written + 1) + 1, Len(buffersToWrite))
    BY DEF WriteBuffer, ToWrite
  <2> QED
    BY <1>1, <2>1, ContentsFirst DEF ToWrite, Cat
<1>3. /\ data \in Texts /\ rest \in Texts /\ all \in Texts
      /\ file \in Texts /\ stdio \in Texts
  <2>1. buffersToWrite[written + 1] \in Buffer
    BY <1>1, ElementOfSeq
  <2>2. data \in Texts
    BY <2>1 DEF Buffer, Texts
  <2>3. rest \in Texts
    <3>1. ToWrite' \in Seq(Buffer)
      BY RestTypes DEF LogInv, TypeOK, ToWrite
    <3> QED
      BY <3>1, ContentsTypes DEF Texts
  <2>4. file \in Texts /\ stdio \in Texts
    BY PartTypes DEF QueueInv
  <2> HIDE DEF data, rest
  <2> QED
    BY <2>2, <2>3, <2>4, CatIn
<1>4. PICK n \in 0 .. Len(all) : /\ file' = Cat(file, SubSeq(all, 1, n))
                                 /\ stdio' = SubSeq(all, n + 1, Len(all))
  BY DEF WriteBuffer, Cat
<1>5. Cat(file', stdio') = Cat(file, all)
  <2> DEFINE x == SubSeq(all, 1, n)
             y == SubSeq(all, n + 1, Len(all))
  <2> HIDE DEF all
  <2>1. x \in Texts /\ y \in Texts /\ Cat(x, y) = all
    BY <1>3, CutTypes DEF Texts, Cat
  <2>2. file' = Cat(file, x) /\ stdio' = y
    BY <1>4
  <2> HIDE DEF x, y
  <2> QED
    BY <1>3, <2>1, <2>2, CatAssoc
<1>6. Cat(Cat(file', stdio'), rest) = Cat(Cat(file, stdio), Contents(ToWrite))
  <2> HIDE DEF data, rest
  <2>1. Cat(file, stdio) \in Texts
    BY <1>3, CatIn
  <2>2. Cat(Cat(file, stdio), Cat(data, rest)) = Cat(Cat(Cat(file, stdio), data), rest)
    BY <1>3, <2>1, CatAssoc
  <2>3. Cat(file, Cat(stdio, data)) = Cat(Cat(file, stdio), data)
    BY <1>3, CatAssoc
  <2> QED
    BY <1>2, <1>5, <2>2, <2>3
<1>7. UNCHANGED <<currentBuffer_, nextBuffer_, buffers_, logged>>
  BY DEF WriteBuffer, shared
<1>8. NothingLost'
  BY <1>6, <1>7, InOrder, InOrderNext DEF QueueInv
<1> QED
  BY <1>7, <1>8 DEF NextEmpty, QueueInv

\* AsyncLogging.cc:111-133.  All is written when the buffers are given back, and
\* the flush only moves it on.
LEMMA GiveBackOrdered ==
    ASSUME QueueInv, GiveBack
    PROVE  NextEmpty' /\ NothingLost'
<1>1. /\ Len(buffersToWrite) \in Nat /\ written = Len(buffersToWrite)
      /\ buffersToWrite' = <<>> /\ written' = 0
      /\ file' = Cat(file, stdio) /\ stdio' = <<>>
      /\ UNCHANGED <<currentBuffer_, nextBuffer_, buffers_, logged>>
  BY LenProperties DEF GiveBack, QueueInv, LogInv, TypeOK, shared, Cat
<1>2. ToWrite = <<>> /\ ToWrite' = <<>>
  <2>1. SubSeq(buffersToWrite, written + 1, Len(buffersToWrite)) = <<>>
    BY <1>1, SubSeqEmpty
  <2>2. SubSeq(<<>>, 1, 0) = <<>> /\ Len(<<>>) = 0
    BY SubSeqEmpty
  <2> QED
    BY <1>1, <2>1, <2>2 DEF ToWrite
<1>3. Cat(file', stdio') = Cat(file, stdio)
  BY <1>1, PartTypes, CatIn, CatNone DEF QueueInv
<1>4. NothingLost'
  BY <1>1, <1>2, <1>3, InOrder, InOrderNext DEF QueueInv
<1> QED
  BY <1>1, <1>4 DEF NextEmpty, QueueInv

LEMMA NextQueue ==
    QueueInv /\ LogInv' /\ [Next]_vars => NextEmpty' /\ NothingLost'
<1> SUFFICES ASSUME QueueInv, LogInv', [Next]_vars
             PROVE  NextEmpty' /\ NothingLost'
  OBVIOUS
<1>1. ASSUME NEW len \in Sizes, AppendMessage(len)
      PROVE  NextEmpty' /\ NothingLost'
  BY <1>1, AppendOrdered
<1>2. ASSUME UNCHANGED <<shared, local, output, logged>>
      PROVE  NextEmpty' /\ NothingLost'
  BY <1>2 DEF NextEmpty, NothingLost, ToWrite, QueueInv, shared, local, output
<1>3. CASE TestRunning
  <2>1. /\ UNCHANGED <<shared, local, logged>>
        /\ \/ UNCHANGED <<file, stdio>>
           \/ file' = Cat(file, stdio) /\ stdio' = <<>>
    BY <1>3 DEF TestRunning, Cat
  <2>2. Cat(file', stdio') = Cat(file, stdio)
    BY <2>1, PartTypes, CatIn, CatNone DEF QueueInv
  <2>3. /\ ToWrite' = ToWrite
        /\ UNCHANGED <<currentBuffer_, nextBuffer_, buffers_, logged>>
    BY <2>1 DEF ToWrite, shared, local
  <2>4. NothingLost'
    BY <2>2, <2>3, InOrder, InOrderNext DEF QueueInv
  <2> QED
    BY <2>3, <2>4 DEF NextEmpty, QueueInv
<1>4. CASE SwapBuffers
  BY <1>4, SwapOrdered
<1>5. CASE WriteBuffer
  BY <1>5, WriteOrdered
<1>6. CASE GiveBack
  BY <1>6, GiveBackOrdered
<1>7. CASE StopRunning \/ StopNotifies \/ StopJoins \/ Wait \/ WakeSpuriously
  BY <1>2, <1>7 DEF StopRunning, StopNotifies, StopJoins, Wait, WakeSpuriously
<1>8. CASE UNCHANGED vars
  BY <1>2, <1>8 DEF vars
<1> QED
  BY <1>1, <1>3, <1>4, <1>5, <1>6, <1>7, <1>8 DEF Next, LoggerStep

LEMMA InitQueue == Init => NextEmpty /\ NothingLost
<1> SUFFICES ASSUME Init PROVE NextEmpty /\ NothingLost
  OBVIOUS
<1>1. ToWrite = <<>>
  <2>1. SubSeq(<<>>, 1, 0) = <<>> /\ Len(<<>>) = 0
    BY SubSeqEmpty
  <2> QED
    BY <2>1 DEF Init, ToWrite
<1>2. Contents(<<>>) = <<>> /\ <<>> \o <<>> = <<>>
  <2>1. <<>> \in Seq({})
    BY EmptySeq
  <2> QED
    BY <2>1, ContentsOfNone, ConcatEmptySeq
<1> QED
  BY <1>1, <1>2 DEF Init, NextEmpty, NothingLost, Empty

\* The spare buffers' state and the order of the messages hold together: one
\* is lost if a buffer handed to append is not empty.
THEOREM QueueInvariant == Spec => []QueueInv
<1>1. Init => QueueInv
  BY InitLog, InitQueue DEF QueueInv
<1>2. QueueInv /\ [Next]_vars => QueueInv'
  BY NextLog, NextQueue DEF QueueInv
<1> QED
  BY <1>1, <1>2, PTL DEF Spec

\* AsyncLogging.cc:25-136: whatever the sizes, no message is dropped, written
\* twice or overtaken when buffers are switched, swapped and given back.
THEOREM NothingIsLost == Spec => []NothingLost
<1>1. QueueInv => NothingLost
  BY DEF QueueInv
<1> QED
  BY <1>1, QueueInvariant, PTL

\* A sequence that starts another is its subsequence from 1 to its length.
LEMMA PrefixIsSubSeq ==
    ASSUME NEW M, NEW s \in Seq(M), NEW t \in Seq(M)
    PROVE  /\ SubSeq(s \o t, 1, Len(s)) = s
           /\ Len(s) \in Nat /\ Len(s) <= Len(s \o t) /\ Len(s \o t) \in Nat
<1>1. Len(s) \in Nat /\ Len(t) \in Nat /\ Len(s \o t) = Len(s) + Len(t)
  BY LenProperties, ConcatProperties
<1>2. CASE Len(s) = 0
  BY <1>1, <1>2, SubSeqEmpty, EmptySeq
<1>3. CASE Len(s) # 0
  <2>1. 1 \in 1 .. Len(s) /\ Len(s) \in 1 .. Len(s)
    BY <1>1, <1>3
  <2>2. SubSeq(s \o t, 1, Len(s)) = SubSeq(s, 1, Len(s))
    BY <2>1, SubSeqOfConcat1
  <2> QED
    BY <1>1, <2>2, SubSeqFull
<1> QED
  BY <1>1, <1>2, <1>3

\* What is in the file starts what was appended.
FileStartsLog == \E t \in Texts : logged = Cat(file, t)

LEMMA FileIsPrefix == QueueInv => FileStartsLog
<1> SUFFICES ASSUME QueueInv
             PROVE  FileStartsLog
  OBVIOUS
<1> DEFINE w == Contents(ToWrite)
           b == Contents(buffers_)
           c == currentBuffer_.data
<1>1. /\ file \in Texts /\ stdio \in Texts /\ w \in Texts /\ b \in Texts
      /\ c \in Texts
  BY PartTypes DEF QueueInv
<1>2. Cat(Cat(Cat(Cat(file, stdio), w), b), c) = logged
  BY InOrder DEF QueueInv
<1> HIDE DEF w, b, c
<1>3. Cat(stdio, w) \in Texts /\ Cat(Cat(stdio, w), b) \in Texts
      /\ Cat(Cat(Cat(stdio, w), b), c) \in Texts
  BY <1>1, CatIn
<1>4. /\ Cat(Cat(file, stdio), w) = Cat(file, Cat(stdio, w))
      /\ Cat(Cat(file, Cat(stdio, w)), b) = Cat(file, Cat(Cat(stdio, w), b))
      /\ Cat(Cat(file, Cat(Cat(stdio, w), b)), c)
            = Cat(file, Cat(Cat(Cat(stdio, w), b), c))
  BY <1>1, <1>3, CatAssoc
<1> QED
  BY <1>2, <1>3, <1>4 DEF FileStartsLog

\* A message appended is accepted; a step of the logging thread puts some more
\* of what was accepted into the file.
LEMMA QueueStep ==
    QueueInv /\ FileStartsLog' /\ [Next]_vars
        => [Queue!Accept \/ Queue!Emit]_(Queue!vars)
<1> SUFFICES ASSUME QueueInv, FileStartsLog', [Next]_vars
             PROVE  [Queue!Accept \/ Queue!Emit]_(Queue!vars)
  OBVIOUS
<1>1. ASSUME NEW len \in Sizes, AppendMessage(len)
      PROVE  Queue!Accept
  <2> DEFINE m == [id |-> Len(logged) + 1, len |-> len]
  <2>1. m \in Message
    BY <1>1, LenProperties, SizesFit
       DEF Message, QueueInv, LogInv, TypeOK, AppendMessage
  <2>2. logged' = Append(logged, m) /\ file' = file
    BY <1>1 DEF AppendMessage, output
  <2> HIDE DEF m
  <2> QED
    BY <2>1, <2>2 DEF Queue!Accept
<1>2. ASSUME logged' = logged, file' = file
      PROVE  UNCHANGED Queue!vars
  BY <1>2 DEF Queue!vars
<1>3. ASSUME logged' = logged, NEW more \in Seq(Message), file' = file \o more
      PROVE  Queue!Emit
  <2>0. PICK t \in Texts : logged' = Cat(file', t)
    BY DEF FileStartsLog
  <2>1. /\ file' = SubSeq(logged, 1, Len(file')) /\ Len(file') \in Nat
        /\ Len(file') <= Len(logged) /\ Len(logged) \in Nat
    <3>1. file' \in Seq(Message) /\ t \in Seq(Message) /\ logged = file' \o t
      <4>1. file \in Texts /\ more \in Texts
        BY PartTypes DEF QueueInv, Texts
      <4>2. Cat(file, more) \in Texts
        BY <4>1, CatIn
      <4> QED
        BY <1>3, <2>0, <4>2 DEF Cat, Texts
    <3> QED
      BY <3>1, PrefixIsSubSeq
  <2>2. Len(file) \in Nat /\ Len(file) <= Len(file')
    BY <1>3, PrefixIsSubSeq DEF QueueInv, LogInv, TypeOK
  <2>3. Len(file') \in Len(file) .. Len(logged)
    BY <2>1, <2>2
  <2> QED
    BY <1>3, <2>1, <2>3 DEF Queue!Emit
<1>4. CASE TestRunning
  <2>1. logged' = logged /\ (file' = file \/ file' = file \o stdio)
    BY <1>4 DEF TestRunning
  <2> QED
    BY <1>2, <1>3, <2>1, PartTypes DEF QueueInv, Texts
<1>5. CASE WriteBuffer
  <2> DEFINE data == buffersToWrite[written + 1].data
             all  == stdio \o data
  <2>1. PICK n \in 0 .. Len(all) : file' = file \o SubSeq(all, 1, n)
    BY <1>5 DEF WriteBuffer
  <2>2. all \in Seq(Message)
    <3>1. written + 1 \in 1 .. Len(buffersToWrite)
      BY <1>5, LenProperties DEF QueueInv, LogInv, TypeOK, WriteBuffer
    <3>2. buffersToWrite[written + 1] \in Buffer
      BY <3>1, ElementOfSeq DEF QueueInv, LogInv, TypeOK
    <3>3. data \in Seq(Message)
      BY <3>2 DEF Buffer
    <3>4. stdio \in Seq(Message)
      BY PartTypes DEF QueueInv, Texts
    <3> HIDE DEF data
    <3> QED
      BY <3>3, <3>4, ConcatProperties
  <2> HIDE DEF all
  <2>3. SubSeq(all, 1, n) \in Seq(Message)
    BY <2>2, CutTypes
  <2>4. logged' = logged
    BY <1>5 DEF WriteBuffer
  <2> QED
    BY <1>3, <2>1, <2>3, <2>4
<1>6. CASE GiveBack
  <2>1. logged' = logged /\ file' = file \o stdio
    BY <1>6 DEF GiveBack
  <2> QED
    BY <1>3, <2>1, PartTypes DEF QueueInv, Texts
<1>7. CASE StopRunning \/ StopNotifies \/ StopJoins \/ Wait \/ WakeSpuriously
           \/ SwapBuffers
  BY <1>2, <1>7 DEF StopRunning, StopNotifies, StopJoins, Wait, WakeSpuriously,
                    SwapBuffers, output
<1>8. CASE UNCHANGED vars
  BY <1>2, <1>8 DEF vars, output
<1> QED
  BY <1>1, <1>4, <1>5, <1>6, <1>7, <1>8 DEF Next, LoggerStep

\* The logger implements LogQueue: at every moment the file is a prefix of what
\* append was given, in that order, and it only grows.
THEOREM ImplementsLogQueue == Spec => LogQueueSpec
<1>1. Init => Queue!Init
  BY DEF Init, Queue!Init
<1>2. Spec => [][Queue!Accept \/ Queue!Emit]_(Queue!vars)
  BY QueueStep, FileIsPrefix, QueueInvariant, PTL DEF Spec
<1> QED
  BY <1>1, <1>2, PTL DEF Spec, LogQueueSpec, Queue!Spec
=============================================================================
