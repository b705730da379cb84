----------------------------- MODULE WireProofs -----------------------------
(***************************************************************************)
(* Wire for paths, pages, buffers and pipes of any size: the invariant and *)
(* what it shows.  Two loops are recursive functions, Unescape's over the  *)
(* rests of a token and Escape's over the bytes: that each is defined, for *)
(* every input, is a lemma here, and so is that the one undoes the other.  *)
(***************************************************************************)
EXTENDS Wire, SequenceTheorems, InductionLemmas

Digits == 0..15

\* A digit is read as what was written, and is no percent sign.
LEMMA HexIsRead ==
    ASSUME NEW d \in Digits
    PROVE  Hex(d) \in Int /\ Hex(d) # PERCENT /\ HexValue(Hex(d)) = d
<1>1. CASE d < 10
  <2>1. Hex(d) = 48 + d /\ Hex(d) \in 48..57
    BY <1>1 DEF Hex, Digits
  <2> QED  BY <2>1 DEF HexValue, PERCENT, Digits
<1>2. CASE d >= 10
  <2>1. Hex(d) = 87 + d /\ Hex(d) \in 97..102 /\ Hex(d) \notin 48..57
    BY <1>2 DEF Hex, Digits
  <2> QED  BY <2>1 DEF HexValue, PERCENT, Digits
<1> QED  BY <1>1, <1>2 DEF Digits

\* The bytes that stand for themselves.
Plain == (33..126) \ {PERCENT}

\* Any other byte is escaped to a percent sign and its two digits.
LEMMA EscapedFacts ==
    ASSUME NEW c \in 1..255
    PROVE  /\ Escaped(c) \in Seq(Int)
           /\ c \in Plain => Escaped(c) = <<c>> /\ c # PERCENT /\ Len(Escaped(c)) = 1
           /\ c \notin Plain =>
                /\ Len(Escaped(c)) = 3 /\ Escaped(c)[1] = PERCENT
                /\ HexValue(Escaped(c)[2]) \in Int /\ HexValue(Escaped(c)[3]) \in Int
                /\ 16 * HexValue(Escaped(c)[2]) + HexValue(Escaped(c)[3]) = c
<1>1. c \div 16 \in Digits /\ c % 16 \in Digits /\ 16 * (c \div 16) + (c % 16) = c
  BY DEF Digits
<1> DEFINE h == Hex(c \div 16)
           l == Hex(c % 16)
<1>2. /\ h \in Int /\ HexValue(h) = c \div 16
      /\ l \in Int /\ HexValue(l) = c % 16
  BY <1>1, HexIsRead
<1> HIDE DEF h, l
<1>3. c \in Plain => Escaped(c) = <<c>>
  BY DEF Escaped, Plain
<1>4. c \notin Plain => Escaped(c) = <<PERCENT, h, l>>
  BY DEF Escaped, Plain, h, l
<1>5. CASE c \in Plain
  <2>1. <<c>> \in Seq(Int) /\ Len(<<c>>) = 1 /\ c # PERCENT
    BY <1>5 DEF Plain
  <2> QED  BY <1>3, <1>5, <2>1
<1>6. CASE c \notin Plain
  <2>1. <<PERCENT, h, l>> \in Seq(Int)
    BY <1>2 DEF PERCENT
  <2>2. HexValue(h) \in Int /\ HexValue(l) \in Int /\ 16 * HexValue(h) + HexValue(l) = c
    BY <1>1, <1>2 DEF Digits
  <2>3. /\ <<PERCENT, h, l>>[1] = PERCENT /\ <<PERCENT, h, l>>[2] = h /\ <<PERCENT, h, l>>[3] = l
        /\ Len(<<PERCENT, h, l>>) = 3
    OBVIOUS
  <2> QED  BY <1>4, <1>6, <2>1, <2>2, <2>3
<1> QED  BY <1>5, <1>6
-----------------------------------------------------------------------------
\* What unescape makes of the rest of a token from a place, given what it makes of
\* the rests after it: the definition of Unescape as a step.
Rest(token, i, from) ==
    IF i > Len(token) THEN <<>>
    ELSE IF token[i] # PERCENT
    THEN IF from[i + 1] = None THEN None ELSE <<token[i]>> \o from[i + 1]
    ELSE IF i + 2 > Len(token) \/ from[i + 3] = None THEN None
    ELSE IF HexValue(token[i + 1]) = None \/ HexValue(token[i + 2]) = None THEN None
    ELSE <<16 * HexValue(token[i + 1]) + HexValue(token[i + 2])>> \o from[i + 3]

IsReading(token, from) ==
    from = [i \in 1..(Len(token) + 3) |-> Rest(token, i, from)]

Texts == Seq(Int) \cup {None}

\* The definition of Unescape by that step.
LEMMA UnescapeIsReading ==
    ASSUME NEW token
    PROVE  Unescape(token) = (CHOOSE from : IsReading(token, from))[1]
BY DEF Unescape, IsReading, Rest

\* A digit's value is a number, if it has one.
LEMMA HexValueType ==
    ASSUME NEW c \in Int PROVE HexValue(c) \in Int \cup {None}
BY DEF HexValue

\* What is made of a rest is a text, if that of the rests after it is.
LEMMA RestType ==
    ASSUME NEW token \in Seq(Int), NEW i \in 1..(Len(token) + 3), NEW from,
           i <= Len(token) => from[i + 1] \in Texts,
           i + 2 <= Len(token) => from[i + 3] \in Texts
    PROVE  Rest(token, i, from) \in Texts
<1>1. CASE i > Len(token)
  BY <1>1 DEF Rest, Texts
<1>2. CASE i <= Len(token) /\ token[i] # PERCENT
  <2>1. token[i] \in Int /\ <<token[i]>> \in Seq(Int)
    BY <1>2, ElementOfSeq
  <2>2. CASE from[i + 1] = None
    BY <1>2, <2>2 DEF Rest, Texts
  <2>3. CASE from[i + 1] \in Seq(Int)
    <3>1. <<token[i]>> \o from[i + 1] \in Seq(Int)
      BY <2>1, <2>3, ConcatProperties
    <3> QED  BY <1>2, <2>3, <3>1 DEF Rest, Texts
  <2> QED  BY <1>2, <2>2, <2>3 DEF Texts
<1>3. CASE i <= Len(token) /\ token[i] = PERCENT
  <2>1. CASE Rest(token, i, from) = None
    BY <2>1 DEF Texts
  <2>2. CASE Rest(token, i, from) # None
    <3> DEFINE h == HexValue(token[i + 1])
               l == HexValue(token[i + 2])
    <3>1. /\ i + 2 <= Len(token) /\ from[i + 3] # None
          /\ h # None /\ l # None
          /\ Rest(token, i, from) = <<16 * h + l>> \o from[i + 3]
      BY <1>3, <2>2, ~(i > Len(token)) DEF Rest
    <3>2. token[i + 1] \in Int /\ token[i + 2] \in Int
      BY <3>1, ElementOfSeq
    <3>3. h \in Int /\ l \in Int
      BY <3>1, <3>2, HexValueType
    <3>4. from[i + 3] \in Seq(Int)
      BY <3>1 DEF Texts
    <3> HIDE DEF h, l
    <3>5. <<16 * h + l>> \in Seq(Int)
      BY <3>3
    <3> QED  BY <3>1, <3>4, <3>5, ConcatProperties DEF Texts
  <2> QED  BY <2>1, <2>2
<1> QED  BY <1>1, <1>2, <1>3

\* A reading exists: unescape's loop ends, for every token.
LEMMA ReadingExists ==
    ASSUME NEW token \in Seq(Int)
    PROVE  \E from : IsReading(token, from)
<1> DEFINE n == Len(token) + 2
           Back(g) == [i \in 1..(n + 1) |-> g[n + 1 - i]]
           step == [g \in [0..n -> Texts] |-> [k \in 0..n |-> Rest(token, n + 1 - k, Back(g))]]
<1>1. n \in Nat /\ Len(token) \in Nat /\ Texts # {}
  BY LenProperties DEF Texts
<1>2. ASSUME NEW g \in [0..n -> Texts], NEW k \in 0..n
      PROVE  Rest(token, n + 1 - k, Back(g)) \in Texts
  <2> DEFINE i == n + 1 - k
  <2>1. i \in 1..(Len(token) + 3)
    BY <1>1
  <2>2. \A j \in 1..(n + 1) : Back(g)[j] \in Texts
    BY <1>1
  <2>3. /\ i <= Len(token) => Back(g)[i + 1] \in Texts
        /\ i + 2 <= Len(token) => Back(g)[i + 3] \in Texts
    <3>1. /\ i <= Len(token) => i + 1 \in 1..(n + 1)
          /\ i + 2 <= Len(token) => i + 3 \in 1..(n + 1)
      BY <1>1, <2>1
    <3> QED  BY <2>2, <3>1
  <2> HIDE DEF i, Back
  <2>4. Rest(token, i, Back(g)) \in Texts
    BY <2>1, <2>3, RestType
  <2> QED  BY <2>4 DEF i
<1>3. step \in [[0..n -> Texts] -> [0..n -> Texts]]
  BY <1>2
<1>4. ASSUME NEW f \in [0..n -> Texts], NEW g \in [0..n -> Texts], NEW k \in 0..n,
             \A j \in 0..(k - 1) : f[j] = g[j]
      PROVE  step[f][k] = step[g][k]
  <2> DEFINE i == n + 1 - k
  <2>1. i \in 1..(n + 1) /\ (i <= Len(token) => i + 1 \in 1..(n + 1) /\ n + 1 - (i + 1) \in 0..(k - 1))
        /\ (i + 2 <= Len(token) => i + 3 \in 1..(n + 1) /\ n + 1 - (i + 3) \in 0..(k - 1))
    BY <1>1
  <2>2. /\ i <= Len(token) => Back(f)[i + 1] = Back(g)[i + 1]
        /\ i + 2 <= Len(token) => Back(f)[i + 3] = Back(g)[i + 3]
    BY <1>4, <2>1
  <2>3. step[f][k] = Rest(token, i, Back(f)) /\ step[g][k] = Rest(token, i, Back(g))
    OBVIOUS
  <2> HIDE DEF i, Back, step
  <2>4. Rest(token, i, Back(f)) = Rest(token, i, Back(g))
    <3>1. CASE i > Len(token)
      BY <3>1 DEF Rest
    <3>2. CASE i <= Len(token) /\ token[i] # PERCENT
      BY <2>2, <3>2 DEF Rest
    <3>3. CASE i <= Len(token) /\ token[i] = PERCENT /\ i + 2 > Len(token)
      BY <3>3 DEF Rest
    <3>4. CASE i <= Len(token) /\ token[i] = PERCENT /\ i + 2 <= Len(token)
      BY <2>2, <3>4 DEF Rest
    <3>5. i \in Int
      BY <2>1
    <3> QED  BY <1>1, <3>1, <3>2, <3>3, <3>4, <3>5
  <2> QED  BY <2>3, <2>4
<1>5. PICK g \in [0..n -> Texts] : \A k \in 0..n : g[k] = step[g][k]
  <2>1. LooksBack(step, n, Texts)
    BY <1>3, <1>4 DEF LooksBack
  <2> HIDE DEF step, n
  <2> QED  BY <1>1, <2>1, Recursion
<1>6. \A i \in 1..(Len(token) + 3) : Back(g)[i] = Rest(token, i, Back(g))
  <2> SUFFICES ASSUME NEW i \in 1..(Len(token) + 3)
               PROVE  Back(g)[i] = Rest(token, i, Back(g))
    OBVIOUS
  <2>1. n + 1 - i \in 0..n /\ n + 1 - (n + 1 - i) = i /\ i \in 1..(n + 1)
    BY <1>1
  <2>2. Back(g)[i] = g[n + 1 - i]
    BY <2>1
  <2>3. g[n + 1 - i] = Rest(token, n + 1 - (n + 1 - i), Back(g))
    BY <1>5, <2>1
  <2> QED  BY <2>1, <2>2, <2>3
<1>7. 1..(Len(token) + 3) = 1..(n + 1)
  BY <1>1
<1>8. IsReading(token, Back(g))
  BY <1>6, <1>7 DEF IsReading
<1> QED  BY <1>8

\* What a reading gives for the rest of a token from i, with what it gives after.
LEMMA ReadingType ==
    ASSUME NEW token \in Seq(Int), NEW from, IsReading(token, from)
    PROVE  \A i \in 1..(Len(token) + 3) : from[i] = Rest(token, i, from) /\ from[i] \in Texts
<1> DEFINE n == Len(token) + 2
           G == {k \in 0..n : \A j \in 0..k : from[n + 1 - j] \in Texts}
<1>1. n \in Nat /\ Len(token) \in Nat
  BY LenProperties
<1>2. \A i \in 1..(Len(token) + 3) : from[i] = Rest(token, i, from)
  BY DEF IsReading
<1>3. \A i \in (Len(token) + 1)..(Len(token) + 3) : from[i] \in Texts
  <2> SUFFICES ASSUME NEW i \in (Len(token) + 1)..(Len(token) + 3) PROVE from[i] \in Texts
    OBVIOUS
  <2>1. i \in 1..(Len(token) + 3) /\ i > Len(token)
    BY <1>1
  <2>2. Rest(token, i, from) = <<>>
    BY <2>1 DEF Rest
  <2>3. <<>> \in Seq(Int)
    OBVIOUS
  <2> QED  BY <1>2, <2>1, <2>2, <2>3 DEF Texts
<1>4. 0 \in G
  BY <1>1, <1>3
<1>5. ASSUME NEW k \in 0..(n - 1), k \in G PROVE k + 1 \in G
  <2> DEFINE i == n - k
  <2>1. i \in 1..(Len(token) + 3) /\ i = n + 1 - (k + 1)
    BY <1>1
  <2>2. \A m \in (i + 1)..(n + 1) : from[m] \in Texts
    <3> SUFFICES ASSUME NEW m \in (i + 1)..(n + 1) PROVE from[m] \in Texts
      OBVIOUS
    <3>1. n + 1 - m \in 0..k /\ n + 1 - (n + 1 - m) = m
      BY <1>1
    <3>2. from[n + 1 - (n + 1 - m)] \in Texts
      BY <1>5, <3>1
    <3> QED  BY <3>1, <3>2
  <2>3. /\ i <= Len(token) => from[i + 1] \in Texts
        /\ i + 2 <= Len(token) => from[i + 3] \in Texts
    BY <1>1, <2>1, <2>2
  <2> HIDE DEF i
  <2>4. Rest(token, i, from) \in Texts
    BY <2>1, <2>3, RestType
  <2>5. from[n + 1 - (k + 1)] \in Texts
    BY <1>2, <2>1, <2>4
  <2>6. \A j \in 0..(k + 1) : j \in 0..k \/ j = k + 1
    BY <1>1
  <2>7. k + 1 \in 0..n
    BY <1>1
  <2> QED  BY <1>5, <2>5, <2>6, <2>7
<1>6. n \in G
  <2> HIDE DEF G
  <2>1. \A k \in 0..n : k \in G
    BY <1>1, <1>4, <1>5, Climb
  <2> QED  BY <1>1, <2>1
<1>7. ASSUME NEW i \in 1..(Len(token) + 3) PROVE from[i] \in Texts
  <2>1. n + 1 - i \in 0..n /\ n + 1 - (n + 1 - i) = i
    BY <1>1
  <2>2. from[n + 1 - (n + 1 - i)] \in Texts
    BY <1>6, <2>1
  <2> QED  BY <2>1, <2>2
<1> QED  BY <1>2, <1>7

\* unescape returns the first entry of a reading.
LEMMA UnescapeReads ==
    ASSUME NEW token \in Seq(Int)
    PROVE  \E from : IsReading(token, from) /\ Unescape(token) = from[1]
BY ReadingExists, UnescapeIsReading

\* What is read of a token is never nothing.
LEMMA SomeText == \A text \in Seq(Int) : text # None
BY NoneAssumption

\* One byte is a text.
LEMMA OneByte == \A c \in Int : <<c>> \in Seq(Int)
OBVIOUS

\* Concatenation is associative.
LEMMA Regroup == \A s, t, u \in Seq(Int) : (s \o t) \o u = s \o (t \o u)
BY ConcatAssociative

\* longer begins with the token; what readings f and h make of their rests after i
\* is the same, but for c at the end.
Starts(token, longer) ==
    Len(longer) \in Nat /\ Len(longer) >= Len(token) /\ \A j \in 1..Len(token) : longer[j] = token[j]
Grows(token, c, i, f, h) ==
    \A j \in (i + 1)..(Len(token) + 1) : f[j] \in Texts /\ (f[j] # None => h[j] = f[j] \o <<c>>)

\* If each rest of a token after i is one byte longer when read in a longer token,
\* so is the rest from i.
LEMMA RestAppends ==
    ASSUME NEW token \in Seq(Int), NEW longer, NEW c \in Int, NEW i \in 1..Len(token), NEW f, NEW h,
           Starts(token, longer), Grows(token, c, i, f, h), Rest(token, i, f) # None
    PROVE  Rest(longer, i, h) = Rest(token, i, f) \o <<c>>
<1> USE DEF Starts, Grows
<1>1. Len(token) \in Nat /\ <<c>> \in Seq(Int)
  BY LenProperties, OneByte
<1>2. ~(i > Len(token)) /\ ~(i > Len(longer)) /\ longer[i] = token[i]
  BY <1>1
<1>3. \A j \in (i + 1)..(Len(token) + 1) :
          f[j] # None => f[j] \in Seq(Int) /\ h[j] = f[j] \o <<c>> /\ h[j] # None
  <2> SUFFICES ASSUME NEW j \in (i + 1)..(Len(token) + 1), f[j] # None
               PROVE  f[j] \in Seq(Int) /\ h[j] = f[j] \o <<c>> /\ h[j] # None
    OBVIOUS
  <2>1. f[j] \in Seq(Int) /\ h[j] = f[j] \o <<c>>
    BY DEF Texts
  <2>2. f[j] \o <<c>> \in Seq(Int)
    BY <1>1, <2>1, ConcatProperties
  <2> QED  BY <2>1, <2>2, SomeText
<1>4. CASE token[i] # PERCENT
  <2>1. f[i + 1] # None /\ Rest(token, i, f) = <<token[i]>> \o f[i + 1]
    BY <1>2, <1>4 DEF Rest
  <2>2. i + 1 \in (i + 1)..(Len(token) + 1)
    BY <1>1
  <2>3. f[i + 1] \in Seq(Int) /\ h[i + 1] = f[i + 1] \o <<c>> /\ h[i + 1] # None
    BY <1>3, <2>1, <2>2
  <2>4. Rest(longer, i, h) = <<token[i]>> \o h[i + 1]
    BY <1>2, <1>4, <2>3 DEF Rest
  <2>5. <<token[i]>> \in Seq(Int)
    BY ElementOfSeq, OneByte
  <2>6. (<<token[i]>> \o f[i + 1]) \o <<c>> = <<token[i]>> \o (f[i + 1] \o <<c>>)
    BY <1>1, <2>3, <2>5, Regroup
  <2> QED  BY <2>1, <2>3, <2>4, <2>6
<1>5. CASE token[i] = PERCENT
  <2> DEFINE x == HexValue(token[i + 1])
             y == HexValue(token[i + 2])
  <2>1. /\ ~(i + 2 > Len(token)) /\ f[i + 3] # None /\ x # None /\ y # None
        /\ Rest(token, i, f) = <<16 * x + y>> \o f[i + 3]
    BY <1>2, <1>5 DEF Rest
  <2>2. /\ i + 1 \in 1..Len(token) /\ i + 2 \in 1..Len(token)
        /\ i + 3 \in (i + 1)..(Len(token) + 1) /\ ~(i + 2 > Len(longer))
    <3> HIDE DEF x, y
    <3> QED  BY <1>1, <2>1
  <2>3. f[i + 3] \in Seq(Int) /\ h[i + 3] = f[i + 3] \o <<c>> /\ h[i + 3] # None
    BY <1>3, <2>1, <2>2
  <2>4. token[i + 1] \in Int /\ token[i + 2] \in Int
    BY <2>2, ElementOfSeq
  <2>5. longer[i + 1] = token[i + 1] /\ longer[i + 2] = token[i + 2]
    BY <2>2
  <2>6. Rest(longer, i, h) = <<16 * x + y>> \o h[i + 3]
    BY <1>2, <1>5, <2>1, <2>2, <2>3, <2>5 DEF Rest
  <2>7. <<16 * x + y>> \in Seq(Int)
    <3>1. x \in Int /\ y \in Int
      BY <2>1, <2>4, HexValueType
    <3> HIDE DEF x, y
    <3>2. 16 * x + y \in Int
      BY <3>1
    <3> QED  BY <3>2, OneByte
  <2> HIDE DEF x, y
  <2>8. (<<16 * x + y>> \o f[i + 3]) \o <<c>> = <<16 * x + y>> \o (f[i + 3] \o <<c>>)
    BY <1>1, <2>3, <2>7, Regroup
  <2> QED  BY <2>1, <2>3, <2>6, <2>8
<1> QED  BY <1>4, <1>5

\* The escape of c at the end of a token is read as c.
LEMMA EscapedIsRead ==
    ASSUME NEW longer, NEW n \in Nat, NEW c \in 1..255, NEW h,
           Len(longer) + 1 = n + Len(Escaped(c)),
           \A k \in 1..Len(Escaped(c)) : longer[n - 1 + k] = Escaped(c)[k],
           h[n + Len(Escaped(c))] = <<>>
    PROVE  Rest(longer, n, h) = <<c>>
<1> DEFINE e == Escaped(c)
<1>1. /\ c \in Plain => e = <<c>> /\ c # PERCENT /\ Len(e) = 1
      /\ c \notin Plain =>
            /\ Len(e) = 3 /\ e[1] = PERCENT
            /\ HexValue(e[2]) \in Int /\ HexValue(e[3]) \in Int
            /\ 16 * HexValue(e[2]) + HexValue(e[3]) = c
  BY EscapedFacts
<1>a. /\ Len(longer) + 1 = n + Len(e) /\ h[n + Len(e)] = <<>>
      /\ \A k \in 1..Len(e) : longer[n - 1 + k] = e[k]
  OBVIOUS
<1> HIDE DEF e
<1>2. <<>> # None /\ <<c>> \o <<>> = <<c>>
  <2>1. <<c>> \in Seq(Int) /\ <<>> \in Seq(Int)
    BY OneByte
  <2> QED  BY <2>1, SomeText, ConcatEmptySeq
<1>3. CASE c \in Plain
  <2>1. Len(e) = 1 /\ c # PERCENT /\ e[1] = c
    BY <1>1, <1>3
  <2>2. n - 1 + 1 = n /\ Len(longer) = n /\ ~(n > Len(longer)) /\ n + Len(e) = n + 1
    BY <1>a, <2>1
  <2>3. longer[n] = c /\ h[n + 1] = <<>>
    BY <1>a, <2>1, <2>2
  <2> QED  BY <1>2, <2>1, <2>2, <2>3 DEF Rest
<1>4. CASE c \notin Plain
  <2>1. Len(e) = 3 /\ e[1] = PERCENT
    BY <1>1, <1>4
  <2>2. /\ n - 1 + 1 = n /\ n - 1 + 2 = n + 1 /\ n - 1 + 3 = n + 2 /\ n + Len(e) = n + 3
        /\ ~(n > Len(longer)) /\ ~(n + 2 > Len(longer))
    BY <1>a, <2>1
  <2>3. longer[n] = PERCENT /\ longer[n + 1] = e[2] /\ longer[n + 2] = e[3] /\ h[n + 3] = <<>>
    <3>1. 1 \in 1..Len(e) /\ 2 \in 1..Len(e) /\ 3 \in 1..Len(e)
      BY <2>1
    <3>2. longer[n - 1 + 1] = e[1] /\ longer[n - 1 + 2] = e[2] /\ longer[n - 1 + 3] = e[3]
      BY <1>a, <3>1
    <3> QED  BY <1>a, <2>1, <2>2, <3>2
  <2>4. HexValue(e[2]) # None /\ HexValue(e[3]) # None
    BY <1>1, <1>4, NoneAssumption
  <2>5. Rest(longer, n, h) = <<16 * HexValue(e[2]) + HexValue(e[3])>> \o <<>>
    BY <1>2, <2>1, <2>2, <2>3, <2>4 DEF Rest
  <2> QED  BY <1>1, <1>2, <1>4, <2>5
<1> QED  BY <1>3, <1>4

\* A byte put after a token that can be read is read after it.
LEMMA UnescapeAppends ==
    ASSUME NEW token \in Seq(Int), NEW c \in 1..255, Unescape(token) \in Seq(Int)
    PROVE  Unescape(token \o Escaped(c)) = Unescape(token) \o <<c>>
<1> DEFINE L == Len(token)
           e == Escaped(c)
           longer == token \o e
<1>1. L \in Nat /\ Len(e) \in Nat /\ Len(e) > 0
  <2>1. L \in Nat
    BY LenProperties
  <2>2. Len(e) = 1 \/ Len(e) = 3
    BY EscapedFacts
  <2> HIDE DEF L, e
  <2> QED  BY <2>1, <2>2, SMTT(30)
<1>2. e \in Seq(Int)
  BY EscapedFacts
<1> HIDE DEF e
<1>3. longer \in Seq(Int) /\ Len(longer) = L + Len(e)
  BY <1>2, ConcatProperties
<1>a. \A i \in 1..(L + Len(e)) : longer[i] = IF i <= L THEN token[i] ELSE e[i - L]
  BY <1>2, ConcatProperties
<1> HIDE DEF L, longer
<1>4. \A i \in 1..L : longer[i] = token[i]
  <2>1. \A i \in 1..L : i \in 1..(L + Len(e)) /\ i <= L
    BY <1>1
  <2> QED  BY <1>a, <2>1
<1>5. \A i \in 1..Len(e) : longer[L + i] = e[i]
  <2>1. \A i \in 1..Len(e) : L + i \in 1..(L + Len(e)) /\ ~(L + i <= L) /\ L + i - L = i
    BY <1>1
  <2> QED  BY <1>1, <1>a, <2>1, SMTT(30)
<1> USE DEF L
<1>6. PICK f : IsReading(token, f) /\ Unescape(token) = f[1]
  BY UnescapeReads
<1>7. PICK h : IsReading(longer, h) /\ Unescape(longer) = h[1]
  BY <1>3, UnescapeReads
<1>8. \A i \in 1..(L + 3) : f[i] = Rest(token, i, f) /\ f[i] \in Texts
  BY <1>6, ReadingType
<1>9. \A i \in 1..(Len(longer) + 3) : h[i] = Rest(longer, i, h)
  BY <1>3, <1>7, ReadingType
<1>10. h[L + 1] = <<c>>
  <2>1. PICK n \in Nat : n = L + 1
    BY <1>1
  <2> HIDE DEF L
  <2>2. /\ n \in 1..(Len(longer) + 3) /\ n + Len(e) \in 1..(Len(longer) + 3)
        /\ n + Len(e) > Len(longer) /\ Len(longer) + 1 = n + Len(e)
    BY <1>1, <1>3, <2>1
  <2>3. h[n + Len(e)] = <<>>
    BY <1>9, <2>2 DEF Rest
  <2>4. \A k \in 1..Len(e) : longer[n - 1 + k] = e[k]
    <3>1. n - 1 = L
      BY <1>1, <2>1
    <3> QED  BY <1>5, <3>1
  <2>5. Rest(longer, n, h) = <<c>>
    BY <2>2, <2>3, <2>4, EscapedIsRead DEF e
  <2> QED  BY <1>9, <2>1, <2>2, <2>5
<1>11. f[L + 1] = <<>> /\ <<>> \o <<c>> = <<c>>
  <2>1. L + 1 \in 1..(L + 3) /\ L + 1 > Len(token)
    BY <1>1
  <2>2. <<c>> \in Seq(Int)
    BY OneByte
  <2> QED  BY <1>8, <2>1, <2>2, ConcatEmptySeq DEF Rest
<1> DEFINE Claim(i) == f[i] # None => h[i] = f[i] \o <<c>>
           G == {k \in 0..L : \A m \in (L + 1 - k)..(L + 1) : Claim(m)}
<1>12. 0 \in G
  <2>1. Claim(L + 1)
    BY <1>10, <1>11
  <2> HIDE DEF L, Claim
  <2>2. \A m \in (L + 1 - 0)..(L + 1) : m = L + 1
    BY <1>1
  <2> QED  BY <1>1, <2>1, <2>2
<1>13. ASSUME NEW k \in 0..(L - 1), k \in G PROVE k + 1 \in G
  <2>1. PICK i \in 1..L : i = L + 1 - (k + 1) /\ i + 1 = L + 1 - k
    <3> HIDE DEF L
    <3>1. L - k \in 1..L /\ L - k = L + 1 - (k + 1) /\ L - k + 1 = L + 1 - k
      BY <1>1
    <3> QED  BY <3>1
  <2>2. \A m \in (i + 1)..(L + 1) : Claim(m)
    BY <1>13, <2>1
  <2>3. \A m \in (i + 1)..(L + 1) : f[m] \in Texts /\ (f[m] # None => h[m] = f[m] \o <<c>>)
    <3>1. \A m \in (i + 1)..(L + 1) : m \in 1..(L + 3)
      <4> HIDE DEF L
      <4> QED  BY <1>1
    <3> QED  BY <1>8, <2>2, <3>1
  <2>4. i \in 1..(L + 3) /\ i \in 1..(Len(longer) + 3) /\ Len(longer) \in Nat /\ Len(longer) >= L
    <3> HIDE DEF L
    <3> QED  BY <1>1, <1>3
  <2>5. Claim(i)
    <3> SUFFICES ASSUME f[i] # None PROVE h[i] = f[i] \o <<c>>
      OBVIOUS
    <3>1. f[i] = Rest(token, i, f) /\ h[i] = Rest(longer, i, h)
      BY <1>8, <1>9, <2>4
    <3>2. Rest(token, i, f) # None /\ c \in Int
      BY <3>1
    <3>3. Rest(longer, i, h) = Rest(token, i, f) \o <<c>>
      <4>1. Starts(token, longer) /\ Grows(token, c, i, f, h)
        BY <1>4, <2>3, <2>4 DEF Starts, Grows
      <4> QED  BY <3>2, <4>1, RestAppends
    <3> QED  BY <3>1, <3>3
  <2> HIDE DEF L, Claim
  <2>6. \A m \in (L + 1 - (k + 1))..(L + 1) : m = i \/ m \in (i + 1)..(L + 1)
    BY <1>1, <2>1
  <2>7. k + 1 \in 0..L
    BY <1>1
  <2> QED  BY <2>2, <2>5, <2>6, <2>7
<1>14. L \in G
  <2> HIDE DEF G, L
  <2>1. \A k \in 0..L : k \in G
    BY <1>1, <1>12, <1>13, Climb
  <2> QED  BY <1>1, <2>1
<1>15. Claim(1)
  <2> HIDE DEF L, Claim
  <2>1. 1 \in (L + 1 - L)..(L + 1)
    BY <1>1
  <2> QED  BY <1>14, <2>1
<1>16. f[1] # None
  BY <1>6, SomeText
<1> QED  BY <1>6, <1>7, <1>15, <1>16 DEF longer, e

-----------------------------------------------------------------------------
\* The loop of read_child_string as a step: the token after n bytes.
Take(token, escape) ==
    IF token.cut \/ Len(token.out) + Len(escape) >= OUT_CAP
    THEN [token EXCEPT !.cut = TRUE] ELSE [token EXCEPT !.out = @ \o escape]

Taken(bytes, n, token) ==
    IF n = 0 THEN [out |-> <<>>, cut |-> FALSE]
    ELSE Take(token[n - 1], Escaped(bytes[n]))

IsEscaping(bytes, token) == token = [n \in 0..Len(bytes) |-> Taken(bytes, n, token)]

Token == [out : Seq(Int), cut : BOOLEAN]

\* The definition of Escape by that step.
LEMMA EscapeIsEscaping ==
    ASSUME NEW bytes
    PROVE  Escape(bytes) = (CHOOSE token : IsEscaping(bytes, token))[Len(bytes)].out
BY DEF Escape, IsEscaping, Taken, Take

\* Each step makes a token of a token.
LEMMA TakenType ==
    ASSUME NEW bytes \in Seq(1..255), NEW n \in 0..Len(bytes), NEW token,
           n # 0 => token[n - 1] \in Token
    PROVE  Taken(bytes, n, token) \in Token
<1>1. CASE n = 0
  BY <1>1 DEF Taken, Token
<1>2. CASE n # 0
  <2> DEFINE t == token[n - 1]
             e == Escaped(bytes[n])
  <2>1. t \in Token
    BY <1>2
  <2>2. bytes[n] \in 1..255
    BY <1>2, ElementOfSeq
  <2>3. e \in Seq(Int)
    BY <2>2, EscapedFacts
  <2>4. t.out \o e \in Seq(Int)
    BY <2>1, <2>3, ConcatProperties DEF Token
  <2>5. Taken(bytes, n, token) \in {[t EXCEPT !.cut = TRUE], [t EXCEPT !.out = t.out \o e]}
    BY <1>2 DEF Taken, Take
  <2> HIDE DEF t, e
  <2> QED  BY <2>1, <2>4, <2>5 DEF Token
<1> QED  BY <1>1, <1>2

\* The loop ends, for all bytes.
LEMMA EscapingExists ==
    ASSUME NEW bytes \in Seq(1..255)
    PROVE  \E token : IsEscaping(bytes, token)
<1> DEFINE n == Len(bytes)
           step == [token \in [0..n -> Token] |-> [k \in 0..n |-> Taken(bytes, k, token)]]
<1>1. n \in Nat
  BY LenProperties
<1>2. [out |-> <<>>, cut |-> FALSE] \in Token
  BY DEF Token
<1>3. \A token \in [0..n -> Token] : \A k \in 0..n : Taken(bytes, k, token) \in Token
  <2> SUFFICES ASSUME NEW token \in [0..n -> Token], NEW k \in 0..n
               PROVE  Taken(bytes, k, token) \in Token
    OBVIOUS
  <2>1. k # 0 => k - 1 \in 0..n
    BY <1>1
  <2> QED  BY <2>1, TakenType
<1>4. \A f, g \in [0..n -> Token] : \A k \in 0..n :
          (\A j \in 0..(k - 1) : f[j] = g[j]) => step[f][k] = step[g][k]
  <2> SUFFICES ASSUME NEW f \in [0..n -> Token], NEW g \in [0..n -> Token], NEW k \in 0..n,
                      \A j \in 0..(k - 1) : f[j] = g[j]
               PROVE  step[f][k] = step[g][k]
    OBVIOUS
  <2>1. step[f][k] = Taken(bytes, k, f) /\ step[g][k] = Taken(bytes, k, g)
    OBVIOUS
  <2>2. k # 0 => f[k - 1] = g[k - 1]
    <3>1. k # 0 => k - 1 \in 0..(k - 1)
      BY <1>1
    <3> QED  BY <3>1
  <2>3. Taken(bytes, k, f) = Taken(bytes, k, g)
    BY <2>2 DEF Taken
  <2> HIDE DEF step
  <2> QED  BY <2>1, <2>3
<1>5. LooksBack(step, n, Token)
  <2>1. step \in [[0..n -> Token] -> [0..n -> Token]]
    BY <1>3
  <2> HIDE DEF step, n
  <2> QED  BY <1>4, <2>1 DEF LooksBack
<1>6. PICK token \in [0..n -> Token] : \A k \in 0..n : token[k] = step[token][k]
  <2>1. Token # {}
    BY <1>2
  <2> HIDE DEF step, n
  <2> QED  BY <1>1, <1>5, <2>1, Recursion
<1>7. \A k \in 0..n : token[k] = Taken(bytes, k, token)
  BY <1>6
<1>8. token = [k \in 0..n |-> Taken(bytes, k, token)]
  BY <1>7
<1> QED  BY <1>8 DEF IsEscaping

\* The escapes of the first n bytes together.
Width(bytes, n) == n + 2 * Cardinality({i \in 1..n : bytes[i] \notin Plain})

\* One byte more adds its own escape.
LEMMA WidthFacts ==
    ASSUME NEW bytes \in Seq(1..255)
    PROVE  /\ Width(bytes, 0) = 0
           /\ \A n \in 0..Len(bytes) : Width(bytes, n) \in Nat
           /\ \A n \in 0..(Len(bytes) - 1) :
                 Width(bytes, n + 1) = Width(bytes, n) + Len(Escaped(bytes[n + 1]))
<1> DEFINE S(n) == {i \in 1..n : bytes[i] \notin Plain}
<1>1. ASSUME NEW n \in 0..Len(bytes)
      PROVE  IsFiniteSet(S(n)) /\ Cardinality(S(n)) \in Nat /\ n \in Nat
  <2>1. n \in Nat
    BY LenProperties
  <2>2. IsFiniteSet(1..n)
    BY <2>1, FS_Interval
  <2>3. IsFiniteSet(S(n))
    BY <2>2, FS_Subset
  <2> QED  BY <2>1, <2>3, FS_CardinalityType
<1>2. Width(bytes, 0) = 0
  <2>1. S(0) = {} /\ Cardinality({}) = 0
    BY FS_EmptySet
  <2> QED  BY <2>1 DEF Width
<1>3. ASSUME NEW n \in 0..Len(bytes) PROVE Width(bytes, n) \in Nat
  <2> HIDE DEF S
  <2>1. Width(bytes, n) = n + 2 * Cardinality(S(n))
    BY DEF Width, S
  <2> QED  BY <1>1, <2>1
<1>4. ASSUME NEW n \in 0..(Len(bytes) - 1)
      PROVE  Width(bytes, n + 1) = Width(bytes, n) + Len(Escaped(bytes[n + 1]))
  <2>1. n \in 0..Len(bytes) /\ n \in Nat /\ n + 1 \in 1..Len(bytes)
    BY LenProperties
  <2>2. IsFiniteSet(S(n)) /\ Cardinality(S(n)) \in Nat
    BY <1>1, <2>1
  <2>3. bytes[n + 1] \in 1..255
    BY <2>1, ElementOfSeq
  <2>4. n + 1 \notin S(n)
    BY <2>1
  <2>5. /\ Width(bytes, n) = n + 2 * Cardinality(S(n))
        /\ Width(bytes, n + 1) = n + 1 + 2 * Cardinality(S(n + 1))
    BY DEF Width
  <2>6. CASE bytes[n + 1] \in Plain
    <3>1. S(n + 1) = S(n)
      BY <2>1, <2>6
    <3>2. Len(Escaped(bytes[n + 1])) = 1
      BY <2>3, <2>6, EscapedFacts
    <3> HIDE DEF S
    <3> QED  BY <2>1, <2>2, <2>5, <3>1, <3>2
  <2>7. CASE bytes[n + 1] \notin Plain
    <3>1. S(n + 1) = S(n) \cup {n + 1}
      BY <2>1, <2>7
    <3>2. Len(Escaped(bytes[n + 1])) = 3
      BY <2>3, <2>7, EscapedFacts
    <3> HIDE DEF S
    <3>3. Cardinality(S(n + 1)) = Cardinality(S(n)) + 1
      BY <2>2, <2>4, <3>1, FS_AddElement
    <3> QED  BY <2>1, <2>2, <2>5, <3>2, <3>3
  <2> QED  BY <2>6, <2>7
<1> QED  BY <1>2, <1>3, <1>4
-----------------------------------------------------------------------------
\* A token after n bytes: the escapes of all of them, or of the first m when the
\* next one did not fit.
Holds(bytes, m, out) ==
    /\ out \in Seq(Int)
    /\ Len(out) = Width(bytes, m) /\ Len(out) < OUT_CAP
    /\ Unescape(out) = SubSeq(bytes, 1, m)

Cut(bytes, n, token) ==
    /\ token \in Token
    /\ \E m \in 0..n :
          /\ Holds(bytes, m, token.out)
          /\ IF token.cut THEN m < n /\ Width(bytes, m + 1) >= OUT_CAP ELSE m = n

\* Nothing is escaped to nothing.
LEMMA HoldsNothing ==
    ASSUME NEW bytes \in Seq(1..255)
    PROVE  Holds(bytes, 0, <<>>)
<1>1. <<>> \in Seq(Int) /\ Len(<<>>) = 0
  BY EmptySeq
<1>2. Width(bytes, 0) = 0 /\ 0 < OUT_CAP
  BY WidthFacts, SizeAssumption
<1>3. SubSeq(bytes, 1, 0) = <<>>
  BY SubSeqEmpty
<1>4. PICK from : IsReading(<<>>, from) /\ Unescape(<<>>) = from[1]
  BY <1>1, UnescapeReads
<1>5. from[1] = Rest(<<>>, 1, from)
  <2>1. 1 \in 1..(Len(<<>>) + 3)
    BY <1>1
  <2> QED  BY <1>1, <1>4, <2>1, ReadingType
<1>6. Unescape(<<>>) = <<>>
  BY <1>1, <1>4, <1>5 DEF Rest
<1> QED  BY <1>1, <1>2, <1>3, <1>6 DEF Holds

\* One byte more.
LEMMA HoldsOneMore ==
    ASSUME NEW bytes \in Seq(1..255), NEW m \in 0..(Len(bytes) - 1), NEW out,
           Holds(bytes, m, out), Len(out) + Len(Escaped(bytes[m + 1])) < OUT_CAP
    PROVE  Holds(bytes, m + 1, out \o Escaped(bytes[m + 1]))
<1> DEFINE c == bytes[m + 1]
<1>1. Len(bytes) \in Nat /\ m \in Nat /\ m + 1 \in 1..Len(bytes) /\ m \in 0..Len(bytes) /\ m + 1 - 1 = m
  BY LenProperties
<1>2. c \in 1..255
  BY <1>1, ElementOfSeq
<1>3. out \in Seq(Int) /\ Escaped(c) \in Seq(Int)
  BY <1>2, EscapedFacts DEF Holds
<1>4. out \o Escaped(c) \in Seq(Int) /\ Len(out \o Escaped(c)) = Len(out) + Len(Escaped(c))
  BY <1>3, ConcatProperties
<1>5. Width(bytes, m + 1) = Width(bytes, m) + Len(Escaped(c))
  BY WidthFacts
<1>6. SubSeq(bytes, 1, m) \in Seq(Int)
  <2>1. \A i \in 1..m : bytes[i] \in Int
    <3> SUFFICES ASSUME NEW i \in 1..m PROVE bytes[i] \in Int
      OBVIOUS
    <3>1. i \in 1..Len(bytes)
      BY <1>1
    <3>2. bytes[i] \in 1..255 /\ 1..255 \subseteq Int
      BY <3>1, ElementOfSeq
    <3> QED  BY <3>2, Zenon
  <2> QED  BY <1>1, <2>1, SubSeqProperties
<1>7. Unescape(out \o Escaped(c)) = SubSeq(bytes, 1, m) \o <<c>>
  BY <1>2, <1>3, <1>6, UnescapeAppends DEF Holds
<1>8. SubSeq(bytes, 1, m + 1) = SubSeq(bytes, 1, m) \o <<c>>
  <2>1. 1 \in 1..Len(bytes) /\ m + 1 \in 1..Len(bytes)
    BY <1>1
  <2> QED  BY <1>1, <2>1, SubSeqRecursiveSecond
<1> HIDE DEF c
<1> QED  BY <1>4, <1>5, <1>7, <1>8 DEF Holds, c

\* One step of the loop.
LEMMA CutOneMore ==
    ASSUME NEW bytes \in Seq(1..255), NEW n \in 0..(Len(bytes) - 1), NEW token,
           Cut(bytes, n, token[n])
    PROVE  Cut(bytes, n + 1, Taken(bytes, n + 1, token))
<1> DEFINE t == token[n]
           e == Escaped(bytes[n + 1])
           u == Taken(bytes, n + 1, token)
<1>1. Len(bytes) \in Nat /\ n \in Nat /\ n + 1 \in 0..Len(bytes) /\ n + 1 - 1 = n /\ n + 1 # 0 /\ n \in 0..Len(bytes)
  BY LenProperties
<1>2. u \in Token
  BY <1>1, TakenType DEF Cut
<1>3. PICK m \in 0..n :
          /\ Holds(bytes, m, t.out)
          /\ IF t.cut THEN m < n /\ Width(bytes, m + 1) >= OUT_CAP ELSE m = n
  BY DEF Cut
<1>4. t \in Token /\ t.out \in Seq(Int) /\ t.cut \in BOOLEAN
  BY DEF Cut, Token
<1>a. Len(t.out) = Width(bytes, m)
  BY <1>3 DEF Holds
<1>b. u = Take(t, e)
  <2>1. token[n + 1 - 1] = t
    BY <1>1
  <2> HIDE DEF t
  <2> QED  BY <1>1, <2>1 DEF Taken
<1>c. \A x \in Token : [x EXCEPT !.cut = TRUE].out = x.out /\ [x EXCEPT !.cut = TRUE].cut = TRUE
  BY DEF Token
<1>d. \A x \in Token : \A s \in Seq(Int) :
          [x EXCEPT !.out = s].out = s /\ [x EXCEPT !.out = s].cut = x.cut
  BY DEF Token
<1>w. Width(bytes, n + 1) = Width(bytes, n) + Len(e)
  BY WidthFacts
<1>m. m \in 0..(n + 1)
  BY <1>1
<1> HIDE DEF t, e, u
<1>5. CASE t.cut
  <2>1. u.out = t.out /\ u.cut = TRUE
    BY <1>4, <1>5, <1>b, <1>c DEF Take
  <2>2. m < n /\ Width(bytes, m + 1) >= OUT_CAP
    BY <1>3, <1>5
  <2>3. m < n + 1
    BY <1>1
  <2> QED  BY <1>2, <1>3, <1>m, <2>1, <2>2, <2>3 DEF Cut, u
<1>6. CASE ~t.cut /\ Len(t.out) + Len(e) >= OUT_CAP
  <2>1. u.out = t.out /\ u.cut = TRUE
    BY <1>4, <1>6, <1>b, <1>c DEF Take
  <2>2. m = n
    BY <1>3, <1>6
  <2>3. Width(bytes, m + 1) >= OUT_CAP /\ m < n + 1
    BY <1>1, <1>6, <1>a, <1>w, <2>2
  <2> QED  BY <1>2, <1>3, <1>m, <2>1, <2>3 DEF Cut, u
<1>7. CASE ~t.cut /\ ~(Len(t.out) + Len(e) >= OUT_CAP)
  <2>1. m = n
    BY <1>3, <1>7
  <2>2. Len(t.out) + Len(e) < OUT_CAP
    <3>1. Len(t.out) \in Nat /\ Len(e) \in Nat /\ OUT_CAP \in Nat
      <4>1. bytes[n + 1] \in 1..255
        BY <1>1, ElementOfSeq
      <4>2. e \in Seq(Int)
        BY <4>1, EscapedFacts DEF e
      <4> QED  BY <1>4, <4>2, LenProperties, SizeAssumption
    <3> QED  BY <1>7, <3>1
  <2>3. Holds(bytes, n + 1, t.out \o e)
    BY <1>3, <2>1, <2>2, HoldsOneMore DEF e
  <2>4. t.out \o e \in Seq(Int)
    BY <2>3 DEF Holds
  <2>5. u.out = t.out \o e /\ u.cut = FALSE
    BY <1>4, <1>7, <1>b, <1>d, <2>4 DEF Take
  <2>6. n + 1 \in 0..(n + 1)
    BY <1>1
  <2> QED  BY <1>2, <2>3, <2>5, <2>6 DEF Cut, u
<1> QED  BY <1>5, <1>6, <1>7

\* Of the bytes escaped the first m come back, all of them or as many as fit.
LEMMA EscapeFacts ==
    ASSUME NEW bytes \in Seq(1..255)
    PROVE  \E m \in 0..Len(bytes) :
              /\ Holds(bytes, m, Escape(bytes))
              /\ m = Len(bytes) \/ Width(bytes, m + 1) >= OUT_CAP
<1> DEFINE n == Len(bytes)
<1>1. n \in Nat
  BY LenProperties
<1>2. PICK token : IsEscaping(bytes, token) /\ Escape(bytes) = token[n].out
  BY EscapingExists, EscapeIsEscaping
<1>3. \A k \in 0..n : token[k] = Taken(bytes, k, token)
  BY <1>2 DEF IsEscaping
<1> DEFINE G == {k \in 0..n : Cut(bytes, k, token[k])}
<1>4. 0 \in G
  <2>1. 0 \in 0..n /\ 0 \in 0..0
    BY <1>1
  <2>2. token[0] = [out |-> <<>>, cut |-> FALSE]
    BY <1>3, <2>1 DEF Taken
  <2>3. token[0] \in Token /\ token[0].out = <<>> /\ token[0].cut = FALSE
    BY <2>2 DEF Token
  <2> QED  BY <2>1, <2>3, HoldsNothing DEF Cut
<1>5. ASSUME NEW k \in 0..(n - 1), k \in G PROVE k + 1 \in G
  <2>1. k + 1 \in 0..n
    BY <1>1
  <2>2. Cut(bytes, k + 1, Taken(bytes, k + 1, token))
    BY <1>5, CutOneMore
  <2> QED  BY <1>3, <2>1, <2>2
<1>6. n \in G
  <2> HIDE DEF G, n
  <2>1. \A k \in 0..n : k \in G
    BY <1>1, <1>4, <1>5, Climb
  <2>2. n \in 0..n
    BY <1>1
  <2> QED  BY <2>1, <2>2
<1>7. Cut(bytes, n, token[n])
  BY <1>6
<1> HIDE DEF n
<1> QED  BY <1>2, <1>7 DEF Cut, n
-----------------------------------------------------------------------------
\* The place of a page is that of the byte it starts with, up to its end.
LEMMA SamePage ==
    ASSUME NEW P \in Nat \ {0}, NEW a \in Nat, NEW k \in Nat, a <= k, k < a + (P - (a % P))
    PROVE  k \div P = a \div P
<1> DEFINE q == a \div P
           r == a % P
<1>1. q \in Nat /\ r \in 0..(P - 1) /\ a = P * q + r
  OBVIOUS
<1> HIDE DEF q, r
<1>2. P * q <= k /\ k < P * q + P
  <2>1. P * q \in Int
    BY <1>1
  <2>2. k < a + (P - r)
    BY DEF r
  <2> QED  BY <1>1, <2>1, <2>2
<1>3. k \div P = q
  BY <1>1, <1>2
<1> QED  BY <1>3 DEF q

\* More bytes are no narrower.
LEMMA WidthGrows ==
    ASSUME NEW bytes, NEW n \in Nat, NEW m \in 0..n
    PROVE  Width(bytes, m) \in Nat /\ Width(bytes, n) \in Nat /\ Width(bytes, m) <= Width(bytes, n)
<1> DEFINE S(i) == {j \in 1..i : bytes[j] \notin Plain}
<1>1. S(m) \subseteq S(n)
  OBVIOUS
<1>2. IsFiniteSet(S(n))
  <2>1. IsFiniteSet(1..n)
    BY FS_Interval
  <2> QED  BY <2>1, FS_Subset
<1>3. /\ IsFiniteSet(S(m)) /\ Cardinality(S(m)) <= Cardinality(S(n))
      /\ Cardinality(S(m)) \in Nat /\ Cardinality(S(n)) \in Nat
  BY <1>1, <1>2, FS_Subset, FS_CardinalityType
<1>4. Width(bytes, m) = m + 2 * Cardinality(S(m)) /\ Width(bytes, n) = n + 2 * Cardinality(S(n))
  BY DEF Width
<1> HIDE DEF S
<1> QED  BY <1>3, <1>4

\* Bytes that are the same are as wide.
LEMMA SameWidth ==
    ASSUME NEW s, NEW t, NEW n \in Nat, \A i \in 1..n : s[i] = t[i]
    PROVE  Width(s, n) = Width(t, n)
<1>1. {i \in 1..n : s[i] \notin Plain} = {i \in 1..n : t[i] \notin Plain}
  OBVIOUS
<1> QED  BY <1>1 DEF Width

\* A token that says what there is to tell.
Tells(token, told) ==
    IF token = None THEN told = None
    ELSE token \in Seq(Int) /\ Len(token) < OUT_CAP /\ told # None /\ Unescape(token) = told

\* The start of the path is read, from readable pages.
Read ==
    /\ memory \in Memory
    /\ buf \in Seq(Byte) /\ Len(buf) < BUF /\ Len(buf) <= Len(memory.path)
    /\ \A i \in 1..Len(buf) : buf[i] = memory.path[i]
    /\ \A k \in 0..(Len(buf) - 1) : Readable(k)
    /\ done \in BOOLEAN
    /\ done => Len(buf) = Len(memory.path) /\ Readable(0)

\* A path is a sequence of bytes, each a number and none of them NUL.
LEMMA MemoryFacts ==
    ASSUME memory \in Memory
    PROVE  /\ memory.path \in Seq(Byte) /\ memory.path \in Seq(1..255) /\ memory.path \in Seq(Int)
           /\ Len(memory.path) \in Nat
           /\ memory.offset \in Nat /\ memory.pages \in Nat
<1>1. PICK m \in 0..MaxPath : memory.path \in [1..m -> Byte]
  BY DEF Memory, BoundedSeq, SeqOf
<1>2. m \in Nat
  BY SizeAssumption
<1>3. memory.path \in Seq(Byte)
  BY <1>1, <1>2, SeqDef
<1>4. Byte \subseteq 1..255 /\ Byte \subseteq Int
  BY ByteAssumption
<1>5. memory.path \in Seq(1..255)
  <2>1. memory.path \in [1..m -> 1..255]
    BY <1>1, <1>4
  <2> QED  BY <1>2, <2>1, SeqDef
<1>6. memory.path \in Seq(Int)
  <2>1. memory.path \in [1..m -> Int]
    BY <1>1, <1>4
  <2> QED  BY <1>2, <2>1, SeqDef
<1>7. memory.offset \in Nat /\ memory.pages \in Nat
  BY SizeAssumption DEF Memory
<1> QED  BY <1>3, <1>5, <1>6, <1>7, LenProperties

\* When the reading ends, the bytes of the longest start that fits.
LEMMA ReadingTells ==
    ASSUME Read, ReadEnds
    PROVE  Tells(PathToken, Told)
<1> USE DEF Read
<1> DEFINE path == memory.path
           L == Len(buf)
<1>1. L \in Nat /\ Len(path) \in Nat /\ L <= Len(path) /\ BUF \in Nat /\ OUT_CAP \in Nat /\ BUF > 1 /\ L < BUF
  BY LenProperties, MemoryFacts, SizeAssumption
<1>2. buf \in Seq(1..255)
  BY ByteAssumption, SeqMonotonic
<1>3. path \in Seq(1..255) /\ path \in Seq(Int)
  BY MemoryFacts
<1>4. \A i \in 1..L : buf[i] = path[i]
  OBVIOUS
<1>5. \A k \in 0..(L - 1) : Readable(k)
  OBVIOUS
<1>6. done => L = Len(path) /\ Readable(0)
  OBVIOUS
<1>7. done \/ L >= BUF - 1 \/ ~Readable(L)
  BY DEF ReadEnds
<1>8. buf = <<>> <=> L = 0
  BY EmptySeq
<1>9. PathToken = IF L = 0 /\ ~done THEN None ELSE Escape(buf)
  BY <1>8 DEF PathToken
<1>10. \A n \in 0..Len(path) :
          Fits(n) <=> n < BUF /\ (\A k \in 0..(n - 1) : Readable(k)) /\ Width(path, n) < OUT_CAP
  BY DEF Fits, Width, Plain
<1>11. CASE L = 0 /\ ~done
  <2>1. ~(L >= BUF - 1)
    BY <1>1, <1>11
  <2>2. ~Readable(0)
    BY <1>7, <1>11, <2>1
  <2> QED  BY <1>9, <1>11, <2>2 DEF Tells, Told
<1>12. CASE ~(L = 0 /\ ~done)
  <2>1. Readable(0)
    <3>1. CASE done
      BY <1>6, <3>1
    <3>2. CASE L # 0
      <4>1. 0 \in 0..(L - 1)
        BY <1>1, <3>2
      <4> QED  BY <1>5, <4>1
    <3> QED  BY <1>12, <3>1, <3>2
  <2>2. PICK m \in 0..L :
            /\ Holds(buf, m, Escape(buf))
            /\ m = L \/ Width(buf, m + 1) >= OUT_CAP
    BY <1>2, EscapeFacts
  <2> HIDE DEF L, path, Read
  <2>3. m \in Nat /\ m \in 0..Len(path) /\ m <= L
    BY <1>1
  <2>4. Width(buf, m) = Width(path, m)
    <3>1. \A i \in 1..m : buf[i] = path[i]
      BY <1>1, <1>4, <2>3
    <3> QED  BY <2>3, <3>1, SameWidth
  <2>5. Fits(m)
    <3>1. m < BUF /\ \A k \in 0..(m - 1) : Readable(k)
      BY <1>1, <1>5, <2>3
    <3>2. Width(path, m) < OUT_CAP
      BY <2>2, <2>4 DEF Holds
    <3> QED  BY <1>10, <2>3, <3>1, <3>2
  <2>6. ASSUME NEW n \in 0..Len(path), Fits(n), n > m PROVE FALSE
    <3>1. n \in Nat /\ n < BUF /\ (\A k \in 0..(n - 1) : Readable(k)) /\ Width(path, n) < OUT_CAP
      BY <1>10, <2>6
    <3>2. CASE m = L
      <4>1. L \in 0..(n - 1)
        BY <1>1, <2>3, <2>6, <3>1, <3>2
      <4>2. Readable(L)
        BY <3>1, <4>1
      <4>3. ~(L >= BUF - 1)
        BY <1>1, <2>6, <3>1, <3>2
      <4>4. done
        BY <1>7, <4>2, <4>3
      <4> QED  BY <1>1, <1>6, <2>6, <3>2, <4>4
    <3>3. CASE m # L
      <4>1. Width(buf, m + 1) >= OUT_CAP
        BY <2>2, <3>3
      <4>2. m + 1 \in Nat /\ m + 1 <= L /\ m + 1 \in 0..n
        BY <1>1, <2>3, <2>6, <3>1, <3>3
      <4>3. Width(buf, m + 1) = Width(path, m + 1)
        <5>1. \A i \in 1..(m + 1) : buf[i] = path[i]
          BY <1>1, <1>4, <4>2
        <5> QED  BY <4>2, <5>1, SameWidth
      <4>4. Width(path, m + 1) \in Nat /\ Width(path, n) \in Nat /\ Width(path, m + 1) <= Width(path, n)
        BY <3>1, <4>2, WidthGrows
      <4> QED  BY <1>1, <3>1, <4>1, <4>3, <4>4
    <3> QED  BY <3>2, <3>3
  <2>7. Max({n \in 0..Len(path) : Fits(n)}) = m
    <3> DEFINE F == {n \in 0..Len(path) : Fits(n)}
    <3>1. m \in F
      BY <2>3, <2>5
    <3>2. \A n \in F : n \in Int /\ m >= n
      BY <2>3, <2>6
    <3> HIDE DEF F
    <3>3. \A x \in F : (\A y \in F : x >= y) => x = m
      BY <3>1, <3>2
    <3>4. Max(F) = m
      BY <3>1, <3>2, <3>3 DEF Max
    <3> QED  BY <3>4 DEF F
  <2>8. Told = SubSeq(path, 1, m)
    BY <2>1, <2>7 DEF Told, path
  <2>9. SubSeq(path, 1, m) = SubSeq(buf, 1, m) /\ SubSeq(path, 1, m) \in Seq(Int)
    <3> DEFINE s == SubSeq(buf, 1, m)
               t == SubSeq(path, 1, m)
    <3>0. 1 \in Int /\ m \in Int /\ (1 <= m => m - 1 + 1 = m) /\ (~(1 <= m) => m = 0)
      BY <2>3
    <3>1. \A i \in 1..m : buf[i] \in Int /\ path[i] \in Int
      <4> SUFFICES ASSUME NEW i \in 1..m PROVE buf[i] \in Int /\ path[i] \in Int
        OBVIOUS
      <4>1. i \in 1..L /\ i \in 1..Len(path)
        BY <1>1, <2>3
      <4>2. path[i] \in Int
        BY <1>3, <4>1, ElementOfSeq
      <4> QED  BY <1>4, <4>1, <4>2
    <3>2. s \in Seq(Int) /\ t \in Seq(Int) /\ Len(s) = m /\ Len(t) = m
      BY <3>0, <3>1, SubSeqProperties
    <3>3. \A i \in 1..m : s[i] = buf[i] /\ t[i] = path[i]
      <4>1. /\ \A i \in 1..(m - 1 + 1) : s[i] = buf[1 + i - 1]
            /\ \A i \in 1..(m - 1 + 1) : t[i] = path[1 + i - 1]
        BY <3>0, <3>1, SubSeqProperties
      <4>2. m - 1 + 1 = m /\ \A i \in 1..m : 1 + i - 1 = i
        BY <2>3
      <4> QED  BY <4>1, <4>2
    <3>4. \A i \in 1..m : i \in 1..L
      BY <1>1, <2>3
    <3>5. \A i \in 1..m : s[i] = t[i]
      BY <1>4, <3>3, <3>4
    <3> HIDE DEF s, t
    <3>6. s = t
      BY <3>2, <3>5, SeqEqual
    <3> QED  BY <3>2, <3>6 DEF s, t
  <2>10. PathToken = Escape(buf) /\ Escape(buf) \in Seq(Int) /\ Len(Escape(buf)) < OUT_CAP
    BY <1>9, <1>12, <2>2 DEF Holds
  <2>11. Unescape(Escape(buf)) = SubSeq(buf, 1, m)
    BY <2>2 DEF Holds
  <2>12. Told # None /\ Escape(buf) # None
    BY <2>8, <2>9, <2>10, SomeText
  <2> QED  BY <2>8, <2>9, <2>10, <2>11, <2>12 DEF Tells
<1> QED  BY <1>11, <1>12

\* Another read of the task's memory keeps what is known of what was read.
LEMMA ReadChunkReads ==
    ASSUME Read, ReadChunk
    PROVE  Read'
<1> DEFINE L == Len(buf)
           path == memory.path
           a == memory.offset + L
           W == Want
           chunk == [i \in 1..W |-> ByteAt(L + i - 1)]
           nul == {i \in 1..W : chunk[i] = 0}
           n == IF nul = {} THEN W ELSE Min(nul) - 1
<1>1. /\ L \in Nat /\ Len(path) \in Nat /\ L <= Len(path) /\ BUF \in Nat /\ L < BUF
      /\ a \in Nat /\ PAGE \in Nat \ {0} /\ memory.pages \in Nat
  BY LenProperties, MemoryFacts, SizeAssumption DEF Read
<1>2. ~done /\ L < BUF - 1 /\ a \div PAGE < memory.pages
  BY DEF ReadChunk, Readable
<1>3. W \in Nat /\ W >= 1 /\ W <= BUF - 1 - L /\ W <= PAGE - (a % PAGE)
  <2> DEFINE x == BUF - 1 - L
             y == PAGE - (a % PAGE)
  <2>1. a % PAGE \in 0..(PAGE - 1)
    BY <1>1
  <2>2. x \in Nat /\ x >= 1 /\ y \in Nat /\ y >= 1
    BY <1>1, <1>2, <2>1
  <2> HIDE DEF x, y
  <2>3. Min({x, y}) \in {x, y} /\ Min({x, y}) <= x /\ Min({x, y}) <= y
    <3>1. \E z \in {x, y} : \A w \in {x, y} : z <= w
      BY <2>2
    <3> QED  BY <3>1 DEF Min
  <2>4. W = Min({x, y})
    BY DEF Want, x, y
  <2> QED  BY <2>2, <2>3, <2>4 DEF x, y
<1>4. ASSUME NEW k \in L..(L + W - 1) PROVE Readable(k)
  <2> HIDE DEF W
  <2>1. memory.offset \in Nat /\ memory.offset + k \in Nat
    BY <1>1, MemoryFacts DEF Read
  <2>2. a <= memory.offset + k /\ memory.offset + k < a + (PAGE - (a % PAGE))
    <3> DEFINE r == a % PAGE
    <3>1. r \in Int
      BY <1>1
    <3>2. W <= PAGE - r
      BY <1>3
    <3>3. W \in Nat
      BY <1>3
    <3> HIDE DEF r, L
    <3>4. a <= memory.offset + k /\ memory.offset + k < a + (PAGE - r)
      BY <1>1, <2>1, <3>1, <3>2, <3>3
    <3> QED  BY <3>4 DEF r
  <2>3. (memory.offset + k) \div PAGE = a \div PAGE
    BY <1>1, <2>1, <2>2, SamePage
  <2> QED  BY <1>2, <2>3 DEF Readable
<1>5. /\ buf' = buf \o SubSeq(chunk, 1, n)
      /\ done' = (nul # {}) /\ memory' = memory
  BY DEF ReadChunk
<1>6. \A i \in 1..W : chunk[i] = IF L + i <= Len(path) THEN path[L + i] ELSE 0
  <2> HIDE DEF W
  <2>1. ASSUME NEW i \in 1..W
        PROVE  chunk[i] = IF L + i <= Len(path) THEN path[L + i] ELSE 0
    <3>1. L + i - 1 < Len(path) <=> L + i <= Len(path)
      BY <1>1, <1>3
    <3>2. L + i - 1 + 1 = L + i
      BY <1>1, <1>3
    <3> QED  BY <3>1, <3>2 DEF ByteAt
  <2> QED  BY <2>1
<1>7. \A i \in 1..Len(path) : path[i] \in Byte /\ path[i] # 0
  <2> SUFFICES ASSUME NEW i \in 1..Len(path) PROVE path[i] \in Byte /\ path[i] # 0
    OBVIOUS
  <2>1. path[i] \in Byte
    BY MemoryFacts, ElementOfSeq DEF Read
  <2> QED  BY <2>1, ByteAssumption
<1>8. \A i \in 1..W : chunk[i] = 0 <=> L + i > Len(path)
  <2> SUFFICES ASSUME NEW i \in 1..W PROVE chunk[i] = 0 <=> L + i > Len(path)
    OBVIOUS
  <2> HIDE DEF W, L, path, chunk
  <2>1. L + i \in Nat /\ (L + i <= Len(path) => L + i \in 1..Len(path))
        /\ (L + i <= Len(path) <=> ~(L + i > Len(path)))
    BY <1>1, <1>3
  <2> QED  BY <1>6, <1>7, <2>1
<1>9. /\ n \in 0..W /\ L + n <= Len(path)
      /\ nul # {} => L + n = Len(path)
  <2>1. CASE nul = {}
    <3>1. W \in 1..W
      BY <1>3
    <3>2. chunk[W] # 0
      BY <2>1, <3>1
    <3>3. ~(L + W > Len(path))
      BY <1>8, <3>1, <3>2
    <3> HIDE DEF W, nul
    <3> QED  BY <1>1, <1>3, <2>1, <3>3
  <2>2. CASE nul # {}
    <3> DEFINE m == Len(path) - L + 1
    <3>1. \A i \in 1..W : i \in nul <=> L + i > Len(path)
      BY <1>8
    <3>2. nul \subseteq 1..W
      OBVIOUS
    <3> HIDE DEF W, nul
    <3>3. PICK j \in nul : TRUE
      BY <2>2
    <3>4. m \in 1..W
      BY <1>1, <1>3, <3>1, <3>2, <3>3
    <3>5. m \in nul /\ \A i \in nul : i \in Int /\ m <= i
      BY <1>1, <1>3, <3>1, <3>2, <3>4
    <3>6. Min(nul) = m
      <4> HIDE DEF m
      <4>1. m \in Int
        BY <3>4
      <4>2. \A x \in nul : (\A y \in nul : x <= y) => x = m
        BY <3>5, <4>1
      <4> QED  BY <3>5, <4>2 DEF Min
    <3> QED  BY <1>1, <1>3, <2>2, <3>4, <3>6
  <2> QED  BY <2>1, <2>2
<1>10. /\ SubSeq(chunk, 1, n) \in Seq(Byte) /\ Len(SubSeq(chunk, 1, n)) = n
       /\ \A i \in 1..n : SubSeq(chunk, 1, n)[i] = path[L + i]
  <2> HIDE DEF W, n, chunk, nul, path, L
  <2>1. n \in Int /\ (1 <= n => n - 1 + 1 = n) /\ (~(1 <= n) => n = 0) /\ n - 1 + 1 = n
    BY <1>3, <1>9
  <2>2. \A i \in 1..n : i \in 1..W /\ L + i <= Len(path) /\ L + i \in 1..Len(path)
    BY <1>1, <1>3, <1>9
  <2>3. \A i \in 1..n : chunk[i] = path[L + i] /\ chunk[i] \in Byte
    BY <1>6, <1>7, <2>2
  <2>4. /\ SubSeq(chunk, 1, n) \in Seq(Byte)
        /\ Len(SubSeq(chunk, 1, n)) = IF 1 <= n THEN n - 1 + 1 ELSE 0
        /\ \A i \in 1..(n - 1 + 1) : SubSeq(chunk, 1, n)[i] = chunk[1 + i - 1]
    BY <2>1, <2>3, SubSeqProperties
  <2>5. \A i \in 1..n : 1 + i - 1 = i
    OBVIOUS
  <2> QED  BY <2>1, <2>3, <2>4, <2>5
<1> DEFINE s == SubSeq(chunk, 1, n)
<1>11. /\ buf' \in Seq(Byte) /\ Len(buf') = L + n
       /\ \A i \in 1..(L + n) : buf'[i] = IF i <= L THEN buf[i] ELSE s[i - L]
  <2> HIDE DEF s
  <2>1. buf \in Seq(Byte) /\ s \in Seq(Byte) /\ Len(s) = n /\ buf' = buf \o s
    BY <1>5, <1>10 DEF Read, s
  <2> HIDE DEF n
  <2> QED  BY <2>1, ConcatProperties
<1> HIDE DEF s, n, nul, chunk, W
<1>12. \A i \in 1..(L + n) : buf'[i] = path[i]
  <2> SUFFICES ASSUME NEW i \in 1..(L + n) PROVE buf'[i] = path[i]
    OBVIOUS
  <2>1. CASE i <= L
    <3>1. i \in 1..L
      BY <1>1, <2>1
    <3> QED  BY <1>11, <2>1, <3>1 DEF Read
  <2>2. CASE ~(i <= L)
    <3>1. i - L \in 1..n /\ L + (i - L) = i
      BY <1>1, <1>9, <1>3, <2>2
    <3> QED  BY <1>10, <1>11, <2>2, <3>1 DEF s
  <2> QED  BY <2>1, <2>2
<1>13. \A k \in 0..(L + n - 1) : Readable(k)
  <2> SUFFICES ASSUME NEW k \in 0..(L + n - 1) PROVE Readable(k)
    OBVIOUS
  <2>1. k \in 0..(L - 1) \/ k \in L..(L + W - 1)
    BY <1>1, <1>3, <1>9
  <2> QED  BY <1>4, <2>1 DEF Read
<1>14. done' => Readable(0)
  <2> HIDE DEF L
  <2>1. 0 \in 0..(L - 1) \/ 0 \in L..(L + W - 1)
    BY <1>1, <1>3
  <2> QED  BY <1>4, <2>1 DEF Read, L
<1>15. L + n < BUF /\ L + n \in Nat
  BY <1>1, <1>3, <1>9
<1> HIDE DEF L
<1>16. \A k : Readable(k)' = Readable(k)
  BY <1>5 DEF Readable
<1>17. memory' \in Memory /\ memory'.path = path /\ done' \in BOOLEAN
  BY <1>5 DEF Read
<1>18. done' => Len(buf') = Len(path)
  BY <1>5, <1>9, <1>11
<1>19. Len(buf') <= Len(path) /\ Len(buf') < BUF
  BY <1>9, <1>11, <1>15
<1>20. \A i \in 1..Len(buf') : buf'[i] = path[i]
  BY <1>11, <1>12
<1>21. \A k \in 0..(Len(buf') - 1) : Readable(k)'
  <2>1. \A k \in 0..(L + n - 1) : Readable(k)'
    BY <1>13, <1>16
  <2>2. Len(buf') - 1 = L + n - 1
    <3>1. L \in Nat /\ n \in Int
      BY <1>1, <1>3, <1>9
    <3>2. Len(buf') = L + n
      BY <1>11
    <3> QED  BY <3>1, <3>2
  <2> QED  BY <2>1, <2>2
<1>22. done' => Readable(0)'
  BY <1>14, <1>16
<1> HIDE DEF path
<1> QED  BY <1>11, <1>17, <1>18, <1>19, <1>20, <1>21, <1>22 DEF Read
-----------------------------------------------------------------------------
\* The first piece of a line of the tracer; a piece that ends a line.
Ours(piece) == piece.is \in {"text", "exit"}

Ends(piece) == piece.is \in {"newline", "exit", "line"}

Piece ==
    [is : {"text", "exit"}, nth : Nat, token : Seq(Int) \cup {None}]
        \cup [is : {"newline", "line", "part"}]

Received == [nth : Int, path : Seq(Int) \cup {None}, intact : BOOLEAN]

\* Lines in turn: an ENTER is the odd one, an EXIT the even.
Turns ==
    /\ pc \in {"wait", "read", "newline", "exit"}
    /\ written \in 0..MaxLines
    /\ pc = "read" => written % 2 = 0 /\ written < MaxLines
    /\ pc = "exit" => written % 2 = 1 /\ written < MaxLines
    /\ pc = "newline" => written % 2 = 1
    /\ unfinished \in BOOLEAN
    /\ spoiled \subseteq 1..written

\* The tracer's pieces in the pipe: what they say, in order.
Said(piece, upto, told) ==
    /\ piece.nth \in 1..upto
    /\ IF piece.is = "text" THEN piece.nth % 2 = 1 /\ Tells(piece.token, told)
       ELSE piece.nth % 2 = 0 /\ piece.token = None

Pieces ==
    /\ pipe \in Seq(Piece) /\ Len(pipe) <= PIPE_SIZE
    /\ \A i \in 1..Len(pipe) : Ours(pipe[i]) => Said(pipe[i], written, Told)
    /\ \A i, j \in 1..Len(pipe) :
          i < j /\ Ours(pipe[i]) /\ Ours(pipe[j]) => pipe[i].nth < pipe[j].nth

\* A line not written into starts after the end of another and ends itself.
Neat ==
    /\ \A i \in 1..(Len(pipe) - 1) :
          Ours(pipe[i + 1]) /\ pipe[i + 1].nth \notin spoiled => Ends(pipe[i])
    /\ \A i \in 1..(Len(pipe) - 1) :
          pipe[i].is = "text" /\ pipe[i].nth \notin spoiled => pipe[i + 1].is = "newline"
    /\ pipe # <<>> =>
          /\ pipe[Len(pipe)].is = "part" => unfinished
          /\ pipe[Len(pipe)].is = "text" => pc = "newline" /\ pipe[Len(pipe)].nth = written

\* What the pump has read.
Passed ==
    /\ received \in Seq(Received)
    /\ \A i \in 1..Len(received) :
          /\ received[i].nth \in 1..written
          /\ received[i].intact /\ received[i].nth % 2 = 1 => received[i].path = Told
          /\ ~received[i].intact => received[i].nth \in spoiled
    /\ \A i, j \in 1..Len(received) : i < j => received[i].nth < received[j].nth
    /\ \A i \in 1..Len(received) : \A j \in 1..Len(pipe) :
          Ours(pipe[j]) => received[i].nth < pipe[j].nth

Kept ==
    \A k \in (1..written) \ spoiled :
        \/ \E i \in 1..Len(pipe) : Ours(pipe[i]) /\ pipe[i].nth = k
        \/ \E i \in 1..Len(received) : received[i].nth = k /\ received[i].intact

\* Invariant.
IInv == Read /\ Turns /\ Pieces /\ Neat /\ Passed /\ Kept

\* What there is to tell does not change.
LEMMA SameTold ==
    ASSUME memory' = memory
    PROVE  Told' = Told
BY DEF Told, Fits, Readable

\* A piece written is the last of the pipe.
LEMMA Written ==
    ASSUME pipe \in Seq(Piece), NEW piece \in Piece, Write(piece)
    PROVE  /\ pipe' \in Seq(Piece) /\ Len(pipe) \in Nat /\ Len(pipe') = Len(pipe) + 1
           /\ Len(pipe') <= PIPE_SIZE
           /\ \A i \in 1..Len(pipe) : pipe'[i] = pipe[i]
           /\ pipe'[Len(pipe) + 1] = piece /\ pipe' # <<>>
<1>1. Len(pipe) \in Nat /\ Len(pipe) < PIPE_SIZE /\ PIPE_SIZE \in Nat /\ pipe' = Append(pipe, piece)
  BY LenProperties, SizeAssumption DEF Write
<1>2. /\ pipe' \in Seq(Piece) /\ pipe' # <<>> /\ Len(pipe') = Len(pipe) + 1
      /\ \A i \in 1..Len(pipe) : pipe'[i] = pipe[i]
      /\ pipe'[Len(pipe) + 1] = piece
  BY <1>1, AppendProperties
<1>3. Len(pipe') <= PIPE_SIZE
  <2>1. \A l : l = Len(pipe) + 1 => l <= PIPE_SIZE
    BY <1>1
  <2> QED  BY <1>2, <2>1
<1> QED  BY <1>1, <1>2, <1>3

\* The first piece of a line of the tracer.
LEMMA BeginsOn ==
    ASSUME IInv, NEW line \in Piece, Ours(line), line.nth = written + 1,
           IF line.is = "text" THEN written % 2 = 0 /\ Tells(line.token, Told) /\ pc' = "newline"
           ELSE written % 2 = 1 /\ line.token = None,
           pc # "newline", written < MaxLines,
           Begins(line), memory' = memory, received' = received
    PROVE  Pieces' /\ Neat' /\ Passed' /\ Kept' /\ spoiled' \subseteq 1..written'
<1> DEFINE n == Len(pipe)
           w == written + 1
<1> USE DEF IInv
<1>1. /\ pipe' \in Seq(Piece) /\ n \in Nat /\ Len(pipe') = n + 1 /\ Len(pipe') <= PIPE_SIZE
      /\ \A i \in 1..n : pipe'[i] = pipe[i]
      /\ pipe'[n + 1] = line /\ pipe' # <<>>
  BY Written DEF Begins, Pieces
<1>2. /\ written' = w /\ unfinished' = FALSE
      /\ spoiled' = IF unfinished THEN spoiled \cup {w} ELSE spoiled
  BY DEF Begins
<1>3. written \in Nat /\ w \in Nat /\ spoiled \subseteq 1..written
  BY SizeAssumption DEF Turns
<1>4. Told' = Told
  BY SameTold
<1>5. \A i \in 1..n : Ours(pipe[i]) => Said(pipe[i], written, Told)
  BY DEF Pieces
<1>6. \A piece : Said(piece, written, Told) => Said(piece, w, Told)
  BY <1>3 DEF Said
<1>7. w \in 1..w /\ (written % 2 = 0 => w % 2 = 1) /\ (written % 2 = 1 => w % 2 = 0)
  BY <1>3
<1>8. Said(line, w, Told)
  <2>1. line.nth = w
    OBVIOUS
  <2>2. line.is = "text" => written % 2 = 0 /\ Tells(line.token, Told)
    OBVIOUS
  <2>3. line.is # "text" => written % 2 = 1 /\ line.token = None
    OBVIOUS
  <2> HIDE DEF w
  <2> QED  BY <1>7, <2>1, <2>2, <2>3 DEF Said
<1>9. \A i \in 1..(n + 1) : i \in 1..n \/ i = n + 1
  BY <1>1
<1>10. \A i \in 1..n : Ours(pipe[i]) => pipe[i].nth \in 1..written
  BY <1>5 DEF Said
<1> DEFINE k == line.nth
<1>11. k = w
  OBVIOUS
<1>12. Pieces'
  <2>1. \A i \in 1..(n + 1) : Ours(pipe'[i]) => Said(pipe'[i], written', Told')
    BY <1>1, <1>2, <1>4, <1>5, <1>6, <1>8, <1>9
  <2>2. ASSUME NEW i \in 1..(n + 1), NEW j \in 1..(n + 1), i < j, Ours(pipe'[i]), Ours(pipe'[j])
        PROVE  pipe'[i].nth < pipe'[j].nth
    <3>1. i \in 1..n
      BY <1>1, <2>2
    <3>2. CASE j \in 1..n
      BY <1>1, <2>2, <3>1, <3>2 DEF Pieces
    <3>3. CASE j = n + 1
      <4>1. pipe'[i].nth \in 1..written
        BY <1>1, <1>10, <2>2, <3>1
      <4>2. pipe'[j].nth = w
        BY <1>1, <3>3
      <4> QED  BY <1>3, <4>1, <4>2
    <3> QED  BY <1>9, <3>2, <3>3
  <2> HIDE DEF n
  <2> QED  BY <1>1, <2>1, <2>2 DEF Pieces, Ours
<1>13. Neat'
  <2>1. n > 0 => pipe # <<>>
    BY EmptySeq, <1>1 DEF Pieces
  <2>2. n > 0 => /\ pipe[n].is = "part" => unfinished
                 /\ pipe[n].is # "text"
    BY <2>1 DEF Neat
  <2>3. \A i \in 1..n : Ours(pipe'[i + 1]) /\ pipe'[i + 1].nth \notin spoiled' => Ends(pipe'[i])
    <3> SUFFICES ASSUME NEW i \in 1..n, Ours(pipe'[i + 1]), pipe'[i + 1].nth \notin spoiled'
                 PROVE  Ends(pipe'[i])
      OBVIOUS
    <3>1. CASE i = n
      <4>1. n > 0 /\ ~unfinished
        BY <1>1, <1>2, <3>1
      <4>2. pipe[n] \in Piece
        BY <1>1, <4>1, ElementOfSeq DEF Pieces
      <4>3. Ends(pipe[n])
        BY <2>2, <4>1, <4>2 DEF Piece, Ends
      <4> QED  BY <1>1, <3>1, <4>3
    <3>2. CASE i # n
      <4>1. i \in 1..(n - 1) /\ i + 1 \in 1..n
        BY <1>1, <3>2
      <4>2. pipe'[i + 1] = pipe[i + 1] /\ pipe'[i] = pipe[i] /\ pipe[i + 1].nth \notin spoiled
        BY <1>1, <1>2, <4>1
      <4> QED  BY <4>1, <4>2 DEF Neat
    <3> QED  BY <3>1, <3>2
  <2>4. \A i \in 1..n : pipe'[i].is = "text" /\ pipe'[i].nth \notin spoiled' => pipe'[i + 1].is = "newline"
    <3> SUFFICES ASSUME NEW i \in 1..n, pipe'[i].is = "text", pipe'[i].nth \notin spoiled'
                 PROVE  pipe'[i + 1].is = "newline"
      OBVIOUS
    <3>1. i # n
      BY <1>1, <2>2
    <3>2. i \in 1..(n - 1) /\ i + 1 \in 1..n
      BY <1>1, <3>1
    <3>3. pipe'[i + 1] = pipe[i + 1] /\ pipe'[i] = pipe[i] /\ pipe[i].nth \notin spoiled
      BY <1>1, <1>2, <3>2
    <3> QED  BY <3>2, <3>3 DEF Neat
  <2>5. /\ pipe'[n + 1].is # "part"
        /\ pipe'[n + 1].is = "text" => pc' = "newline" /\ pipe'[n + 1].nth = written'
    BY <1>1, <1>2 DEF Ours
  <2>6. Len(pipe') - 1 = n
    BY <1>1
  <2> HIDE DEF n, w
  <2> QED  BY <1>1, <2>3, <2>4, <2>5, <2>6 DEF Neat, Ours, Ends
<1>14. Passed'
  <2>1. \A i \in 1..Len(received) : received[i].nth \in 1..written
    BY DEF Passed
  <2>2. \A i \in 1..Len(received) : received[i].nth \in 1..w /\ received[i].nth < w
    BY <1>3, <2>1
  <2>3. \A i \in 1..Len(received) : \A j \in 1..(n + 1) :
            Ours(pipe'[j]) => received[i].nth < pipe'[j].nth
    BY <1>1, <1>9, <1>11, <2>2 DEF Passed
  <2> HIDE DEF n, w, k
  <2>4. \A i \in 1..Len(received') :
          /\ received'[i].nth \in 1..written'
          /\ received'[i].intact /\ received'[i].nth % 2 = 1 => received'[i].path = Told'
          /\ ~received'[i].intact => received'[i].nth \in spoiled'
    BY <1>2, <1>4, <2>2 DEF Passed
  <2> QED  BY <1>1, <2>3, <2>4 DEF Passed, Ours
<1>15. Kept'
  <2> SUFFICES ASSUME NEW x \in (1..written') \ spoiled'
               PROVE  \/ \E i \in 1..Len(pipe') : Ours(pipe'[i]) /\ pipe'[i].nth = x
                      \/ \E i \in 1..Len(received') : received'[i].nth = x /\ received'[i].intact
    BY DEF Kept, Ours
  <2>1. CASE x = w
    <3>1. n + 1 \in 1..Len(pipe')
      BY <1>1
    <3> QED  BY <1>1, <2>1, <3>1
  <2>2. CASE x # w
    <3>1. x \in (1..written) \ spoiled
      BY <1>2, <1>3, <2>2
    <3>2. \A i \in 1..n : i \in 1..Len(pipe')
      BY <1>1
    <3> QED  BY <1>1, <3>1, <3>2 DEF Kept
  <2> QED  BY <2>1, <2>2
<1>16. spoiled' \subseteq 1..written'
  BY <1>2, <1>3
<1> QED  BY <1>12, <1>13, <1>14, <1>15, <1>16

\* A newline, or text of the program.
LEMMA NoiseOn ==
    ASSUME IInv, NEW piece \in [is : {"newline", "line", "part"}], Write(piece),
           spoiled' = IF pc = "newline" /\ piece.is # "newline" THEN spoiled \cup {written} ELSE spoiled,
           piece.is = "part" => unfinished',
           memory' = memory, received' = received, written' = written
    PROVE  Pieces' /\ Neat' /\ Passed' /\ Kept' /\ spoiled' \subseteq 1..written'
<1> DEFINE n == Len(pipe)
<1> USE DEF IInv
<1>1. /\ pipe' \in Seq(Piece) /\ n \in Nat /\ Len(pipe') = n + 1 /\ Len(pipe') <= PIPE_SIZE
      /\ \A i \in 1..n : pipe'[i] = pipe[i]
      /\ pipe'[n + 1] = piece /\ pipe' # <<>>
  <2>1. piece \in Piece
    BY DEF Piece
  <2> QED  BY <2>1, Written DEF Pieces
<1>2. ~Ours(piece) /\ piece.is # "text"
  BY DEF Ours
<1>3. /\ written \in Nat /\ spoiled \subseteq 1..written /\ spoiled \subseteq spoiled'
      /\ pc = "newline" => written \in 1..written
  BY SizeAssumption DEF Turns
<1>4. Told' = Told
  BY SameTold
<1>6. \A i \in 1..(n + 1) : i \in 1..n \/ i = n + 1
  BY <1>1
<1>7. Pieces'
  <2>1. \A i \in 1..(n + 1) : Ours(pipe'[i]) => i \in 1..n /\ pipe'[i] = pipe[i]
    BY <1>1, <1>2, <1>6
  <2>2. \A i \in 1..(n + 1) : Ours(pipe'[i]) => Said(pipe'[i], written', Told')
    BY <1>4, <2>1 DEF Pieces
  <2>3. \A i, j \in 1..(n + 1) :
            i < j /\ Ours(pipe'[i]) /\ Ours(pipe'[j]) => pipe'[i].nth < pipe'[j].nth
    BY <2>1 DEF Pieces
  <2> HIDE DEF n
  <2> QED  BY <1>1, <2>2, <2>3 DEF Pieces, Ours
<1>8. Neat'
  <2>1. \A i \in 1..n : Ours(pipe'[i + 1]) /\ pipe'[i + 1].nth \notin spoiled' => Ends(pipe'[i])
    <3> SUFFICES ASSUME NEW i \in 1..n, Ours(pipe'[i + 1]), pipe'[i + 1].nth \notin spoiled'
                 PROVE  Ends(pipe'[i])
      OBVIOUS
    <3>1. i # n
      BY <1>1, <1>2
    <3>2. i \in 1..(n - 1) /\ i + 1 \in 1..n
      BY <1>1, <3>1
    <3>3. pipe'[i + 1] = pipe[i + 1] /\ pipe'[i] = pipe[i] /\ pipe[i + 1].nth \notin spoiled
      BY <1>1, <1>3, <3>2
    <3> QED  BY <3>2, <3>3 DEF Neat
  <2>2. \A i \in 1..n : pipe'[i].is = "text" /\ pipe'[i].nth \notin spoiled' => pipe'[i + 1].is = "newline"
    <3> SUFFICES ASSUME NEW i \in 1..n, pipe'[i].is = "text", pipe'[i].nth \notin spoiled'
                 PROVE  pipe'[i + 1].is = "newline"
      OBVIOUS
    <3>1. CASE i = n
      <4>1. pipe # <<>>
        BY <1>1, <3>1, EmptySeq
      <4>2. pc = "newline" /\ pipe[n].nth = written
        BY <1>1, <3>1, <4>1 DEF Neat
      <4>3. written \notin spoiled'
        BY <1>1, <3>1, <4>2
      <4>4. piece.is = "newline"
        BY <4>2, <4>3
      <4> QED  BY <1>1, <3>1, <4>4
    <3>2. CASE i # n
      <4>1. i \in 1..(n - 1) /\ i + 1 \in 1..n
        BY <1>1, <3>2
      <4>2. pipe'[i + 1] = pipe[i + 1] /\ pipe'[i] = pipe[i] /\ pipe[i].nth \notin spoiled
        BY <1>1, <1>3, <4>1
      <4> QED  BY <4>1, <4>2 DEF Neat
    <3> QED  BY <3>1, <3>2
  <2>3. Len(pipe') - 1 = n
    BY <1>1
  <2>4. pipe'[n + 1].is # "text" /\ (pipe'[n + 1].is = "part" => unfinished')
    BY <1>1, <1>2
  <2> HIDE DEF n
  <2> QED  BY <1>1, <2>1, <2>2, <2>3, <2>4 DEF Neat, Ours, Ends
<1>9. Passed'
  <2>1. \A i \in 1..Len(received) : \A j \in 1..(n + 1) :
            Ours(pipe'[j]) => received[i].nth < pipe'[j].nth
    BY <1>1, <1>2, <1>6 DEF Passed
  <2> HIDE DEF n
  <2>2. \A i \in 1..Len(received') :
          /\ received'[i].nth \in 1..written'
          /\ received'[i].intact /\ received'[i].nth % 2 = 1 => received'[i].path = Told'
          /\ ~received'[i].intact => received'[i].nth \in spoiled'
    BY <1>3, <1>4 DEF Passed
  <2> QED  BY <1>1, <2>1, <2>2 DEF Passed, Ours
<1>10. Kept'
  <2> SUFFICES ASSUME NEW x \in (1..written') \ spoiled'
               PROVE  \/ \E i \in 1..Len(pipe') : Ours(pipe'[i]) /\ pipe'[i].nth = x
                      \/ \E i \in 1..Len(received') : received'[i].nth = x /\ received'[i].intact
    BY DEF Kept, Ours
  <2>1. x \in (1..written) \ spoiled
    BY <1>3
  <2>2. \A i \in 1..n : i \in 1..Len(pipe')
    BY <1>1
  <2> QED  BY <1>1, <2>1, <2>2 DEF Kept
<1>11. spoiled' \subseteq 1..written'
  BY <1>3
<1> QED  BY <1>7, <1>8, <1>9, <1>10, <1>11
-----------------------------------------------------------------------------
\* A line as the pump takes it: it ends with its last piece.
IsLine(line) ==
    /\ line \in Seq(Piece) /\ Len(line) > 0
    /\ Ends(line[Len(line)])
    /\ \A i \in 1..(Len(line) - 1) : ~Ends(line[i])
    /\ \A i \in 1..Len(line) : Ours(line[i]) => Said(line[i], written, Told)
    /\ \A i \in 1..(Len(line) - 1) :
          Ours(line[i + 1]) /\ line[i + 1].nth \notin spoiled => Ends(line[i])
    /\ \A i \in 1..(Len(line) - 1) :
          line[i].is = "text" /\ line[i].nth \notin spoiled => line[i + 1].is = "newline"

\* What is said of a line: the piece it starts with, if that is the tracer's.
Answers(event, line) ==
    /\ event \in Received /\ Ours(line[1]) /\ event.nth = line[1].nth
    /\ event.intact /\ event.nth % 2 = 1 => event.path = Told
    /\ ~event.intact => event.nth \in spoiled

\* No other piece of the tracer in the line is of an unspoiled line.
LEMMA OthersSpoiled ==
    ASSUME NEW line, IsLine(line)
    PROVE  \A i \in 2..Len(line) : Ours(line[i]) => line[i].nth \in spoiled
<1> SUFFICES ASSUME NEW i \in 2..Len(line), Ours(line[i]), line[i].nth \notin spoiled
             PROVE  FALSE
  OBVIOUS
<1>1. Len(line) \in Nat
  BY LenProperties DEF IsLine
<1>2. PICK j \in 1..(Len(line) - 1) : i = j + 1
  <2>1. i - 1 \in 1..(Len(line) - 1) /\ i = i - 1 + 1
    BY <1>1
  <2> QED  BY <2>1
<1> QED  BY <1>2 DEF IsLine

\* What is made of a token is a text or nothing.
LEMMA UnescapeType ==
    ASSUME NEW token \in Seq(Int)
    PROVE  Unescape(token) \in Texts
<1>1. PICK from : IsReading(token, from) /\ Unescape(token) = from[1]
  BY UnescapeReads
<1>2. 1 \in 1..(Len(token) + 3)
  BY LenProperties
<1> QED  BY <1>1, <1>2, ReadingType

\* A line is passed over only if nothing in it is of an unspoiled line; else its
\* event is that of the piece it starts with.
LEMMA LineParsed ==
    ASSUME NEW line, IsLine(line), NEW event \in Parsed(line)
    PROVE  IF event = None
           THEN Ours(line[1]) => line[1].nth \in spoiled
           ELSE Answers(event, line)
<1> DEFINE m == Len(line)
           said == IF Last(line).is = "newline" THEN Front(line) ELSE line
           head == line[1]
<1>1. line \in Seq(Piece) /\ m \in Nat /\ m > 0
  BY LenProperties DEF IsLine
<1>2. Last(line) = line[m]
  BY DEF Last
<1>3. /\ Front(line) \in Seq(Piece) /\ Len(Front(line)) = m - 1
      /\ \A i \in 1..(m - 1) : Front(line)[i] = line[i]
  <2> HIDE DEF m
  <2>1. Front(line) = SubSeq(line, 1, m - 1)
    BY DEF Front, m
  <2>2. \A i \in 1..(m - 1) : line[i] \in Piece
    <3> SUFFICES ASSUME NEW i \in 1..(m - 1) PROVE line[i] \in Piece
      OBVIOUS
    <3>1. i \in 1..m
      BY <1>1
    <3> QED  BY <1>1, <3>1, ElementOfSeq DEF m
  <2>3. 1 \in Int /\ m - 1 \in Int
    BY <1>1
  <2>4. /\ SubSeq(line, 1, m - 1) \in Seq(Piece)
        /\ Len(SubSeq(line, 1, m - 1)) = IF 1 <= m - 1 THEN m - 1 - 1 + 1 ELSE 0
        /\ \A i \in 1..(m - 1 - 1 + 1) : SubSeq(line, 1, m - 1)[i] = line[1 + i - 1]
    BY <2>2, <2>3, SubSeqProperties
  <2>5. m - 1 - 1 + 1 = m - 1 /\ (~(1 <= m - 1) => m - 1 = 0) /\ \A i \in 1..(m - 1) : 1 + i - 1 = i
    BY <1>1
  <2> QED  BY <2>1, <2>4, <2>5
<1>4. /\ said \in Seq(Piece)
      /\ Len(said) = IF line[m].is = "newline" THEN m - 1 ELSE m
      /\ said # <<>> => Len(said) >= 1 /\ Head(said) = head
  <2>1. said \in Seq(Piece)
    BY <1>1, <1>3
  <2>2. Len(said) = IF line[m].is = "newline" THEN m - 1 ELSE m
    BY <1>2, <1>3
  <2>3. ASSUME said # <<>> PROVE Len(said) >= 1 /\ Head(said) = head
    <3> HIDE DEF said, m
    <3>1. Len(said) \in Nat \ {0}
      BY <2>1, <2>3, EmptySeq
    <3>2. Head(said) = said[1]
      BY <2>1, <2>3
    <3>3. said[1] = line[1]
      <4>1. CASE line[m].is = "newline"
        <5>1. said = Front(line) /\ Len(said) = m - 1
          BY <1>2, <2>2, <4>1 DEF said
        <5>2. 1 \in 1..(m - 1)
          BY <1>1, <3>1, <5>1
        <5> QED  BY <1>3, <5>1, <5>2
      <4>2. CASE line[m].is # "newline"
        BY <1>2, <4>2 DEF said
      <4> QED  BY <4>1, <4>2
    <3> QED  BY <3>1, <3>2, <3>3
  <2> QED  BY <2>1, <2>2, <2>3
<1>5. event \in IF said = <<>> \/ Head(said).is \notin {"text", "exit"} THEN {None}
                ELSE IF Len(said) > 1 THEN {None, Event(Head(said).nth, None, FALSE)}
                ELSE IF Head(said).token = None THEN {Event(Head(said).nth, None, TRUE)}
                ELSE IF Unescape(Head(said).token) = None THEN {None}
                ELSE {Event(Head(said).nth, Unescape(Head(said).token), TRUE)}
  BY DEF Parsed
<1>6. \A nth \in Int : \A path \in Texts : \A intact \in BOOLEAN :
          /\ Event(nth, path, intact) \in Received /\ Event(nth, path, intact) # None
          /\ Event(nth, path, intact).nth = nth /\ Event(nth, path, intact).path = path
          /\ Event(nth, path, intact).intact = intact
  BY NoneAssumption DEF Event, Received, Texts
<1>7. Ours(head) => Said(head, written, Told) /\ head.nth \in Int
  <2>1. 1 \in 1..m
    BY <1>1
  <2> QED  BY <2>1 DEF IsLine, Said
<1>8. None \in Texts
  BY DEF Texts
<1>9. head \in Piece
  <2>1. 1 \in 1..Len(line)
    BY <1>1
  <2> QED  BY <1>1, <2>1, ElementOfSeq
<1>10. CASE said = <<>>
  <2>1. event = None
    BY <1>5, <1>10
  <2>2. Len(said) = 0
    BY <1>10, EmptySeq
  <2>3. m = 1 /\ line[m].is = "newline"
    <3> HIDE DEF said, m
    <3> QED  BY <1>1, <1>4, <2>2
  <2>4. ~Ours(head)
    BY <2>3 DEF Ours
  <2> QED  BY <2>1, <2>4
<1>11. CASE said # <<>> /\ ~Ours(head)
  <2>1. Head(said).is \notin {"text", "exit"}
    BY <1>4, <1>11 DEF Ours
  <2> HIDE DEF said
  <2>2. event = None
    BY <1>5, <2>1
  <2> QED  BY <1>11, <2>2
<1>12. CASE said # <<>> /\ Ours(head) /\ Len(said) > 1
  <2> DEFINE lost == Event(head.nth, None, FALSE)
  <2>1. event \in {None, lost}
    <3> HIDE DEF said
    <3> QED  BY <1>4, <1>5, <1>12 DEF Ours
  <2>2. head.nth \in spoiled
    <3> SUFFICES ASSUME head.nth \notin spoiled PROVE FALSE
      OBVIOUS
    <3> HIDE DEF said, m
    <3>1. m > 1 /\ 1 \in 1..(m - 1)
      BY <1>1, <1>4, <1>12
    <3>2. ~Ends(head)
      BY <3>1 DEF IsLine, m
    <3>3. head.is = "text"
      BY <1>12, <3>2 DEF Ours, Ends
    <3>4. line[1 + 1].is = "newline"
      BY <3>1, <3>3 DEF IsLine, m
    <3>5. line[2].is = "newline" /\ Ends(line[2])
      BY <3>4 DEF Ends
    <3>6. m = 2
      <4>1. CASE m > 2
        <5>1. 2 \in 1..(m - 1)
          BY <1>1, <4>1
        <5> QED  BY <3>5, <5>1 DEF IsLine, m
      <4> QED  BY <1>1, <3>1, <4>1
    <3> QED  BY <1>4, <1>12, <3>5, <3>6
  <2>3. /\ lost \in Received /\ lost # None /\ lost.nth = head.nth /\ lost.intact = FALSE
    BY <1>6, <1>7, <1>8, <1>12
  <2> HIDE DEF lost
  <2> QED  BY <1>12, <2>1, <2>2, <2>3 DEF Answers
<1>13. CASE said # <<>> /\ Ours(head) /\ ~(Len(said) > 1)
  <2>1. event \in IF head.token = None THEN {Event(head.nth, None, TRUE)}
                  ELSE IF Unescape(head.token) = None THEN {None}
                  ELSE {Event(head.nth, Unescape(head.token), TRUE)}
    <3> HIDE DEF said
    <3> QED  BY <1>4, <1>5, <1>13 DEF Ours
  <2>2. CASE head.token = None
    <3> DEFINE told == Event(head.nth, None, TRUE)
    <3>1. event = told
      BY <2>1, <2>2
    <3>2. told \in Received /\ told # None /\ told.nth = head.nth /\ told.path = None /\ told.intact = TRUE
      BY <1>6, <1>7, <1>8, <1>13
    <3>3. head.nth % 2 = 1 => Told = None
      <4>1. head.is = "text" => Told = None
        BY <1>7, <1>13, <2>2 DEF Said, Tells
      <4>2. head.is # "text" => head.nth % 2 = 0
        BY <1>7, <1>13 DEF Said
      <4> QED  BY <4>1, <4>2
    <3> HIDE DEF told
    <3> QED  BY <1>13, <3>1, <3>2, <3>3 DEF Answers
  <2>3. CASE head.token # None
    <3>1. head.is = "text" /\ Tells(head.token, Told)
      BY <1>7, <1>13, <2>3 DEF Said
    <3>2. head.token \in Seq(Int) /\ Told # None /\ Unescape(head.token) = Told
      BY <2>3, <3>1 DEF Tells
    <3>3. Told \in Texts
      BY <3>2, UnescapeType
    <3> DEFINE told == Event(head.nth, Told, TRUE)
    <3>4. event = told
      BY <2>1, <2>3, <3>2
    <3>5. told \in Received /\ told # None /\ told.nth = head.nth /\ told.path = Told /\ told.intact = TRUE
      BY <1>6, <1>7, <1>13, <3>3
    <3> HIDE DEF told
    <3> QED  BY <1>13, <3>4, <3>5 DEF Answers
  <2> QED  BY <2>2, <2>3
<1> QED  BY <1>10, <1>11, <1>12, <1>13

\* A least number is in a set of numbers that has one.
LEMMA LeastOf ==
    ASSUME NEW n \in Nat, NEW S \in SUBSET (1..n), S # {}
    PROVE  Min(S) \in S /\ \A i \in S : Min(S) <= i
<1> DEFINE T == {j \in 0..n : n - j \in S}
<1>1. T \in SUBSET (0..n)
  OBVIOUS
<1>2. T # {}
  <2>1. PICK i \in S : TRUE
    OBVIOUS
  <2>2. n - i \in 0..n /\ n - (n - i) = i
    OBVIOUS
  <2> QED  BY <2>1, <2>2
<1> HIDE DEF T
<1>3. PICK j \in T : \A k \in T : k <= j
  BY <1>1, <1>2, LastExists
<1>4. n - j \in S /\ j \in 0..n
  BY DEF T
<1>5. ASSUME NEW i \in S PROVE n - j <= i
  <2>1. n - i \in 0..n /\ n - (n - i) = i
    OBVIOUS
  <2>2. n - i \in T
    BY <2>1 DEF T
  <2>3. n - i <= j
    BY <1>3, <2>2
  <2> QED  BY <1>4, <2>1, <2>3
<1>6. \E x \in S : \A y \in S : x <= y
  BY <1>4, <1>5
<1> QED  BY <1>6 DEF Min

\* The first line of the pipe.
LEMMA FirstLine ==
    ASSUME IInv, LineEnds # {}
    PROVE  /\ Min(LineEnds) \in 1..Len(pipe)
           /\ IsLine(SubSeq(pipe, 1, Min(LineEnds)))
           /\ Len(SubSeq(pipe, 1, Min(LineEnds))) = Min(LineEnds)
           /\ \A i \in 1..Min(LineEnds) : SubSeq(pipe, 1, Min(LineEnds))[i] = pipe[i]
<1> DEFINE m == Min(LineEnds)
           n == Len(pipe)
           line == SubSeq(pipe, 1, m)
<1>1. pipe \in Seq(Piece) /\ n \in Nat
  BY LenProperties DEF IInv, Pieces
<1>2. LineEnds \in SUBSET (1..n)
  BY DEF LineEnds
<1>3. m \in LineEnds /\ \A i \in LineEnds : m <= i
  BY <1>1, <1>2, LeastOf
<1>4. \A i \in 1..n : i \in LineEnds <=> Ends(pipe[i])
  BY DEF LineEnds, Ends
<1>5. m \in 1..n
  BY <1>2, <1>3
<1> HIDE DEF m, n
<1>6. \A i \in 1..(m - 1) : i \in 1..n /\ ~Ends(pipe[i]) /\ i \in 1..(n - 1) /\ i + 1 \in 1..m
  <2>1. \A i \in 1..(m - 1) : i \in 1..n /\ ~(m <= i) /\ i \in 1..(n - 1) /\ i + 1 \in 1..m
    BY <1>1, <1>5
  <2> QED  BY <1>3, <1>4, <2>1
<1>7. line \in Seq(Piece) /\ Len(line) = m /\ \A i \in 1..m : line[i] = pipe[i]
  <2>1. \A i \in 1..m : pipe[i] \in Piece
    <3> SUFFICES ASSUME NEW i \in 1..m PROVE pipe[i] \in Piece
      OBVIOUS
    <3>1. i \in 1..n
      BY <1>1, <1>5
    <3> QED  BY <1>1, <3>1, ElementOfSeq DEF n
  <2>2. /\ line \in Seq(Piece)
        /\ Len(line) = IF 1 <= m THEN m - 1 + 1 ELSE 0
        /\ \A i \in 1..(m - 1 + 1) : line[i] = pipe[1 + i - 1]
    BY <1>5, <2>1, SubSeqProperties
  <2>3. 1 <= m /\ m - 1 + 1 = m /\ \A i \in 1..m : 1 + i - 1 = i
    BY <1>5
  <2> HIDE DEF line
  <2> QED  BY <2>2, <2>3
<1>8. Ends(pipe[m]) /\ m \in 1..m /\ m > 0
  BY <1>3, <1>4, <1>5
<1> HIDE DEF line
<1>9. \A i \in 1..m : i \in 1..n
  BY <1>1, <1>5
<1>10. \A i \in 1..m : Ours(line[i]) => Said(line[i], written, Told)
  BY <1>7, <1>9 DEF IInv, Pieces, n
<1>11. \A i \in 1..(m - 1) : i \in 1..m
  BY <1>5
<1>12. \A i \in 1..(m - 1) : line[i] = pipe[i] /\ line[i + 1] = pipe[i + 1]
  BY <1>6, <1>7, <1>11
<1>13. \A i \in 1..(m - 1) : ~Ends(line[i])
  BY <1>6, <1>12
<1>14. \A i \in 1..(m - 1) :
          /\ Ours(line[i + 1]) /\ line[i + 1].nth \notin spoiled => Ends(line[i])
          /\ line[i].is = "text" /\ line[i].nth \notin spoiled => line[i + 1].is = "newline"
  BY <1>6, <1>12 DEF IInv, Neat, n
<1>15. Ends(line[m])
  BY <1>7, <1>8
<1>16. IsLine(line)
  BY <1>7, <1>8, <1>10, <1>13, <1>14, <1>15 DEF IsLine
<1> QED  BY <1>5, <1>7, <1>16 DEF m, n, line
-----------------------------------------------------------------------------
\* A round of the pump.
LEMMA ReadLineOn ==
    ASSUME IInv, ReadLine
    PROVE  Pieces' /\ Neat' /\ Passed' /\ Kept'
<1> DEFINE m == Min(LineEnds)
           n == Len(pipe)
           r == Len(received)
           line == SubSeq(pipe, 1, m)
<1> USE DEF IInv
<1>1. LineEnds # {}
  BY DEF ReadLine
<1>2. /\ m \in 1..n /\ IsLine(line) /\ Len(line) = m
      /\ \A i \in 1..m : line[i] = pipe[i]
  BY <1>1, FirstLine
<1>3. PICK event \in Parsed(line) :
          received' = IF event = None THEN received ELSE Append(received, event)
  BY DEF ReadLine
<1>4. pipe' = SubSeq(pipe, m + 1, n)
  BY DEF ReadLine
<1>5. /\ memory' = memory /\ pc' = pc /\ written' = written
      /\ unfinished' = unfinished /\ spoiled' = spoiled
  BY DEF ReadLine, tracerVars
<1>6. Told' = Told
  BY <1>5, SameTold
<1>7. pipe \in Seq(Piece) /\ n \in Nat /\ n <= PIPE_SIZE /\ PIPE_SIZE \in Nat
  BY LenProperties, SizeAssumption DEF Pieces
<1>8. received \in Seq(Received) /\ r \in Nat
  BY LenProperties DEF Passed
<1> HIDE DEF m, n, r, line
<1>9. IF event = None THEN Ours(pipe[1]) => pipe[1].nth \in spoiled
      ELSE /\ event \in Received /\ Ours(pipe[1]) /\ event.nth = pipe[1].nth
           /\ event.intact /\ event.nth % 2 = 1 => event.path = Told
           /\ ~event.intact => event.nth \in spoiled
  <2>1. 1 \in 1..m
    BY <1>2
  <2>2. line[1] = pipe[1]
    BY <1>2, <2>1
  <2>3. IF event = None THEN Ours(line[1]) => line[1].nth \in spoiled ELSE Answers(event, line)
    BY <1>2, LineParsed
  <2> QED  BY <2>2, <2>3 DEF Answers
<1>10. \A i \in 2..m : Ours(pipe[i]) => pipe[i].nth \in spoiled
  <2>1. \A i \in 2..m : i \in 1..m
    OBVIOUS
  <2> QED  BY <1>2, <2>1, OthersSpoiled
<1>11. /\ pipe' \in Seq(Piece) /\ Len(pipe') = n - m
       /\ \A i \in 1..(n - m) : pipe'[i] = pipe[m + i] /\ m + i \in 1..n
  <2>1. \A i \in (m + 1)..n : pipe[i] \in Piece
    <3> SUFFICES ASSUME NEW i \in (m + 1)..n PROVE pipe[i] \in Piece
      OBVIOUS
    <3>1. i \in 1..n
      BY <1>2, <1>7
    <3> QED  BY <1>7, <3>1, ElementOfSeq DEF n
  <2>2. m + 1 \in Int /\ n \in Int
    BY <1>2, <1>7
  <2>3. /\ pipe' \in Seq(Piece)
        /\ Len(pipe') = IF m + 1 <= n THEN n - (m + 1) + 1 ELSE 0
        /\ \A i \in 1..(n - (m + 1) + 1) : pipe'[i] = pipe[m + 1 + i - 1]
    BY <1>4, <2>1, <2>2, SubSeqProperties
  <2>4. /\ n - (m + 1) + 1 = n - m /\ (~(m + 1 <= n) => n - m = 0)
        /\ \A i \in 1..(n - m) : m + 1 + i - 1 = m + i /\ m + i \in 1..n
    BY <1>2, <1>7
  <2> QED  BY <2>3, <2>4
<1>12. Pieces'
  <2>1. n - m <= PIPE_SIZE
    BY <1>2, <1>7
  <2>2. \A i \in 1..(n - m) : Ours(pipe'[i]) => Said(pipe'[i], written', Told')
    BY <1>5, <1>6, <1>11 DEF Pieces, n
  <2>3. ASSUME NEW i \in 1..(n - m), NEW j \in 1..(n - m), i < j, Ours(pipe'[i]), Ours(pipe'[j])
        PROVE  pipe'[i].nth < pipe'[j].nth
    <3>1. m + i < m + j
      BY <1>2, <2>3
    <3> QED  BY <1>11, <2>3, <3>1 DEF Pieces, n
  <2> QED  BY <1>11, <2>1, <2>2, <2>3 DEF Pieces, Ours
<1>13. Neat'
  <2>1. \A i \in 1..(n - m - 1) :
            /\ i \in 1..(n - m) /\ i + 1 \in 1..(n - m)
            /\ m + i \in 1..(n - 1) /\ m + i + 1 = m + (i + 1)
    BY <1>2, <1>7
  <2>2. \A i \in 1..(n - m - 1) : pipe'[i] = pipe[m + i] /\ pipe'[i + 1] = pipe[m + i + 1]
    <3> SUFFICES ASSUME NEW i \in 1..(n - m - 1)
                 PROVE  pipe'[i] = pipe[m + i] /\ pipe'[i + 1] = pipe[m + i + 1]
      OBVIOUS
    <3>1. pipe'[i] = pipe[m + i] /\ pipe'[i + 1] = pipe[m + (i + 1)]
      BY <1>11, <2>1
    <3> QED  BY <2>1, <3>1
  <2>3. \A i \in 1..(n - m - 1) :
            /\ Ours(pipe'[i + 1]) /\ pipe'[i + 1].nth \notin spoiled' => Ends(pipe'[i])
            /\ pipe'[i].is = "text" /\ pipe'[i].nth \notin spoiled' => pipe'[i + 1].is = "newline"
    BY <1>5, <2>1, <2>2 DEF Neat, n
  <2>4. ASSUME pipe' # <<>>
        PROVE  /\ pipe'[n - m].is = "part" => unfinished'
               /\ pipe'[n - m].is = "text" => pc' = "newline" /\ pipe'[n - m].nth = written'
    <3>1. n - m > 0
      <4>1. Len(pipe') \in Nat \ {0}
        BY <1>11, <2>4, EmptySeq
      <4> QED  BY <1>2, <1>7, <1>11, <4>1
    <3>2. n - m \in 1..(n - m) /\ m + (n - m) = n
      BY <1>2, <1>7, <3>1
    <3>3. pipe'[n - m] = pipe[n]
      BY <1>11, <3>2
    <3>4. pipe # <<>>
      BY <1>2, <1>7, EmptySeq DEF n
    <3> QED  BY <1>5, <3>3, <3>4 DEF Neat, n
  <2> QED  BY <1>11, <2>3, <2>4 DEF Neat, Ours, Ends
<1>14. \A j \in 1..(n - m) : Ours(pipe'[j]) => Ours(pipe[m + j]) /\ pipe'[j].nth = pipe[m + j].nth
  BY <1>11
<1>15. 1 \in 1..n /\ \A j \in 1..(n - m) : 1 < m + j
  BY <1>2, <1>7
<1>16. Ours(pipe[1]) => /\ Said(pipe[1], written, Told)
                        /\ \A j \in 1..(n - m) : Ours(pipe'[j]) => pipe[1].nth < pipe'[j].nth
                        /\ \A i \in 1..r : received[i].nth < pipe[1].nth
  BY <1>11, <1>14, <1>15 DEF Pieces, Passed, n, r
<1>17. \A i \in 1..r : \A j \in 1..(n - m) : Ours(pipe'[j]) => received[i].nth < pipe'[j].nth
  BY <1>11, <1>14 DEF Passed, n, r
<1>18. \A i \in 1..r :
          /\ received[i].nth \in 1..written
          /\ received[i].intact /\ received[i].nth % 2 = 1 => received[i].path = Told
          /\ ~received[i].intact => received[i].nth \in spoiled
  BY DEF Passed, r
<1>19. \A i, j \in 1..r : i < j => received[i].nth < received[j].nth
  BY DEF Passed, r
<1>20. \A x \in (1..written) \ spoiled :
          \/ \E i \in 1..n : Ours(pipe[i]) /\ pipe[i].nth = x
          \/ \E i \in 1..r : received[i].nth = x /\ received[i].intact
  BY DEF Kept, n, r
<1>21. \A i \in 1..n : i = 1 \/ i \in 2..m \/ (i - m \in 1..(n - m) /\ m + (i - m) = i)
  BY <1>2, <1>7
<1>22. ASSUME NEW x \in (1..written) \ spoiled,
              NEW i \in 1..n, Ours(pipe[i]), pipe[i].nth = x
       PROVE  \/ event # None /\ event.nth = x /\ event.intact
              \/ \E j \in 1..(n - m) : Ours(pipe'[j]) /\ pipe'[j].nth = x
  <2>1. CASE i = 1
    BY <1>9, <1>22, <2>1
  <2>2. CASE i \in 2..m
    BY <1>10, <1>22, <2>2
  <2>3. CASE i - m \in 1..(n - m) /\ m + (i - m) = i
    BY <1>11, <1>22, <2>3
  <2> QED  BY <1>21, <2>1, <2>2, <2>3
<1>23. CASE event = None
  <2>1. received' = received
    BY <1>3, <1>23
  <2>2. Passed'
    BY <1>5, <1>6, <1>8, <1>11, <1>17, <1>18, <1>19, <2>1 DEF Passed, Ours, r
  <2>3. Kept'
    <3> SUFFICES ASSUME NEW x \in (1..written') \ spoiled'
                 PROVE  \/ \E j \in 1..Len(pipe') : Ours(pipe'[j]) /\ pipe'[j].nth = x
                        \/ \E j \in 1..Len(received') : received'[j].nth = x /\ received'[j].intact
      BY DEF Kept, Ours
    <3>1. x \in (1..written) \ spoiled
      BY <1>5
    <3> QED  BY <1>11, <1>20, <1>22, <1>23, <2>1, <3>1 DEF r
  <2> QED  BY <1>12, <1>13, <2>2, <2>3
<1>24. CASE event # None
  <2>1. event \in Received /\ received' = Append(received, event)
    BY <1>3, <1>9, <1>24
  <2>2. /\ received' \in Seq(Received) /\ Len(received') = r + 1
        /\ \A i \in 1..r : received'[i] = received[i]
        /\ received'[r + 1] = event
    BY <1>8, <2>1, AppendProperties DEF r
  <2>3. \A i \in 1..(r + 1) : i \in 1..r \/ i = r + 1
    BY <1>8
  <2>4. /\ event.nth = pipe[1].nth /\ event.nth \in 1..written
        /\ event.intact /\ event.nth % 2 = 1 => event.path = Told
        /\ ~event.intact => event.nth \in spoiled
    BY <1>9, <1>16, <1>24 DEF Said
  <2>5. \A i \in 1..(r + 1) :
           /\ received'[i].nth \in 1..written'
           /\ received'[i].intact /\ received'[i].nth % 2 = 1 => received'[i].path = Told'
           /\ ~received'[i].intact => received'[i].nth \in spoiled'
    BY <1>5, <1>6, <1>18, <2>2, <2>3, <2>4
  <2>6. ASSUME NEW i \in 1..(r + 1), NEW j \in 1..(r + 1), i < j
        PROVE  received'[i].nth < received'[j].nth
    <3>1. i \in 1..r
      BY <1>8, <2>6
    <3>2. CASE j \in 1..r
      BY <1>19, <2>2, <2>6, <3>1, <3>2
    <3>3. CASE j = r + 1
      BY <1>9, <1>16, <1>24, <2>2, <2>4, <3>1, <3>3
    <3> QED  BY <2>3, <3>2, <3>3
  <2>7. \A i \in 1..(r + 1) : \A j \in 1..(n - m) : Ours(pipe'[j]) => received'[i].nth < pipe'[j].nth
    BY <1>9, <1>16, <1>17, <1>24, <2>2, <2>3, <2>4
  <2>8. Passed'
    BY <1>11, <2>2, <2>5, <2>6, <2>7 DEF Passed, Ours
  <2>9. Kept'
    <3> SUFFICES ASSUME NEW x \in (1..written') \ spoiled'
                 PROVE  \/ \E j \in 1..Len(pipe') : Ours(pipe'[j]) /\ pipe'[j].nth = x
                        \/ \E j \in 1..Len(received') : received'[j].nth = x /\ received'[j].intact
      BY DEF Kept, Ours
    <3>1. x \in (1..written) \ spoiled
      BY <1>5
    <3>2. CASE \E i \in 1..r : received[i].nth = x /\ received[i].intact
      <4>1. \A i \in 1..r : i \in 1..(r + 1)
        BY <1>8
      <4> QED  BY <2>2, <3>2, <4>1
    <3>3. CASE \E i \in 1..n : Ours(pipe[i]) /\ pipe[i].nth = x
      <4>1. r + 1 \in 1..(r + 1)
        BY <1>8
      <4> QED  BY <1>11, <1>22, <2>2, <3>1, <3>3, <4>1
    <3> QED  BY <1>20, <3>1, <3>2, <3>3
  <2> QED  BY <1>12, <1>13, <2>8, <2>9
<1> QED  BY <1>23, <1>24

\* What concerns the pipe does not change with the tracer's own state.
LEMMA PipeOn ==
    ASSUME IInv, UNCHANGED <<memory, pipe, received, unfinished, spoiled, written>>,
           pc = "newline" => pc' = "newline"
    PROVE  Pieces' /\ Neat' /\ Passed' /\ Kept'
<1>1. Told' = Told
  BY SameTold
<1>2. Pieces'
  BY <1>1 DEF IInv, Pieces, Ours
<1>3. Neat'
  BY DEF IInv, Neat, Ours, Ends
<1>4. Passed'
  BY <1>1 DEF IInv, Passed, Ours
<1>5. Kept'
  BY DEF IInv, Kept, Ours
<1> QED  BY <1>2, <1>3, <1>4, <1>5

\* What is read of the task's memory, by steps that do not read.
LEMMA ReadOn ==
    ASSUME Read, UNCHANGED <<memory, buf, done>>
    PROVE  Read'
<1>1. \A k : Readable(k)' = Readable(k)
  BY DEF Readable
<1> QED  BY <1>1 DEF Read

\* The invariant holds at the start.
LEMMA InitInv == Init => IInv
<1> SUFFICES ASSUME Init PROVE IInv
  OBVIOUS
<1> USE DEF Init
<1>1. Len(memory.path) \in Nat /\ <<>> \in Seq(Byte) /\ Len(<<>>) = 0
  BY MemoryFacts, EmptySeq
<1>2. <<>> \in Seq(Piece) /\ <<>> \in Seq(Received)
  BY EmptySeq
<1>3. Read
  <2>1. /\ memory \in Memory /\ buf \in Seq(Byte) /\ done = FALSE
        /\ Len(buf) = 0 /\ Len(buf) < BUF /\ Len(buf) <= Len(memory.path)
    BY <1>1, SizeAssumption
  <2>2. 1..Len(buf) = {} /\ 0..(Len(buf) - 1) = {}
    BY <2>1
  <2> QED  BY <2>1, <2>2 DEF Read
<1>4. Turns
  <2>1. 0 \in 0..MaxLines
    BY SizeAssumption
  <2> QED  BY <2>1 DEF Turns
<1>5. Pieces /\ Neat
  BY <1>1, <1>2, SizeAssumption DEF Pieces, Neat
<1>6. Passed /\ Kept
  BY <1>1, <1>2 DEF Passed, Kept
<1> QED  BY <1>3, <1>4, <1>5, <1>6 DEF IInv

\* Every step of the tracer, the program and the pump keeps it.
LEMMA NextInv == IInv /\ [Next]_vars => IInv'
<1> SUFFICES ASSUME IInv, [Next]_vars PROVE IInv'
  OBVIOUS
<1>0. written \in Nat /\ MaxLines \in Nat /\ written <= MaxLines
  BY SizeAssumption DEF IInv, Turns
<1>1. CASE Stops
  <2> USE DEF Stops
  <2>1. Read'
    <3>1. Len(memory.path) \in Nat /\ <<>> \in Seq(Byte) /\ Len(<<>>) = 0
      BY MemoryFacts, EmptySeq DEF IInv, Read
    <3>2. memory' \in Memory /\ memory' = memory /\ buf' = <<>> /\ done' = FALSE
      BY <1>1 DEF IInv, Read
    <3>3. Len(buf') = 0 /\ Len(buf') < BUF /\ Len(buf') <= Len(memory'.path)
      BY <3>1, <3>2, SizeAssumption
    <3>4. 1..Len(buf') = {} /\ 0..(Len(buf') - 1) = {}
      BY <3>3
    <3> QED  BY <3>1, <3>2, <3>3, <3>4 DEF Read
  <2>2. Turns'
    <3>1. written % 2 = 0 \/ written % 2 = 1
      BY <1>0
    <3> QED  BY <1>0, <1>1, <3>1 DEF IInv, Turns
  <2>3. Pieces' /\ Neat' /\ Passed' /\ Kept'
    BY <1>1, PipeOn
  <2> QED  BY <2>1, <2>2, <2>3 DEF IInv
<1>2. CASE ReadChunk
  <2>1. Read'
    BY <1>2, ReadChunkReads DEF IInv
  <2>2. UNCHANGED <<memory, pc, written, pipe, received, unfinished, spoiled>>
    BY <1>2 DEF ReadChunk
  <2>3. Turns'
    BY <2>2 DEF IInv, Turns
  <2>4. Pieces' /\ Neat' /\ Passed' /\ Kept'
    BY <2>2, PipeOn
  <2> QED  BY <2>1, <2>3, <2>4 DEF IInv
<1>3. CASE WriteText
  <2> DEFINE line == [is |-> "text", nth |-> written + 1, token |-> PathToken]
  <2>1. /\ pc = "read" /\ ReadEnds /\ Begins(line) /\ pc' = "newline"
        /\ UNCHANGED <<memory, buf, done, received>>
    BY <1>3 DEF WriteText
  <2>2. written % 2 = 0 /\ written < MaxLines
    BY <2>1 DEF IInv, Turns
  <2>3. Tells(PathToken, Told)
    BY <2>1, ReadingTells DEF IInv
  <2>4. PathToken \in Seq(Int) \cup {None}
    BY <2>3 DEF Tells
  <2>5. line \in Piece /\ Ours(line)
    BY <1>0, <2>4 DEF Piece, Ours
  <2>6. line.nth = written + 1 /\ line.is = "text" /\ line.token = PathToken
    OBVIOUS
  <2> HIDE DEF line
  <2>7. Pieces' /\ Neat' /\ Passed' /\ Kept' /\ spoiled' \subseteq 1..written'
    BY <2>1, <2>2, <2>3, <2>5, <2>6, BeginsOn
  <2>8. written' = written + 1 /\ unfinished' = FALSE
    BY <2>1 DEF Begins
  <2>9. (written + 1) % 2 = 1 /\ written + 1 \in 0..MaxLines
    BY <1>0, <2>2
  <2>10. Turns'
    <3>1. written' % 2 = 1 /\ written' \in 0..MaxLines
      BY <2>8, <2>9
    <3>2. pc' = "newline" /\ unfinished' = FALSE /\ spoiled' \subseteq 1..written'
      BY <2>1, <2>7, <2>8
    <3> QED  BY <3>1, <3>2 DEF Turns
  <2>11. Read'
    BY <2>1, ReadOn DEF IInv
  <2> QED  BY <2>7, <2>10, <2>11 DEF IInv
<1>4. CASE WriteNewline
  <2> DEFINE piece == [is |-> "newline"]
  <2>1. /\ pc = "newline" /\ Write(piece) /\ pc' = "wait" /\ unfinished' = FALSE
        /\ UNCHANGED <<memory, buf, done, written, received, spoiled>>
    BY <1>4 DEF WriteNewline
  <2>2. piece \in [is : {"newline", "line", "part"}] /\ piece.is = "newline"
    OBVIOUS
  <2> HIDE DEF piece
  <2>3. spoiled' = IF pc = "newline" /\ piece.is # "newline" THEN spoiled \cup {written} ELSE spoiled
    BY <2>1, <2>2
  <2>4. Pieces' /\ Neat' /\ Passed' /\ Kept' /\ spoiled' \subseteq 1..written'
    BY <2>1, <2>2, <2>3, NoiseOn
  <2>5. Turns'
    BY <2>1, <2>4 DEF IInv, Turns
  <2>6. Read'
    BY <2>1, ReadOn DEF IInv
  <2> QED  BY <2>4, <2>5, <2>6 DEF IInv
<1>5. CASE WriteExit
  <2> DEFINE line == [is |-> "exit", nth |-> written + 1, token |-> None]
  <2>1. /\ pc = "exit" /\ Begins(line) /\ pc' = "wait"
        /\ UNCHANGED <<memory, buf, done, received>>
    BY <1>5 DEF WriteExit
  <2>2. written % 2 = 1 /\ written < MaxLines
    BY <2>1 DEF IInv, Turns
  <2>3. line \in Piece /\ Ours(line)
    BY <1>0 DEF Piece, Ours
  <2>4. line.nth = written + 1 /\ line.is = "exit" /\ line.token = None
    OBVIOUS
  <2> HIDE DEF line
  <2>5. Pieces' /\ Neat' /\ Passed' /\ Kept' /\ spoiled' \subseteq 1..written'
    BY <2>1, <2>2, <2>3, <2>4, BeginsOn
  <2>6. written' = written + 1 /\ unfinished' = FALSE
    BY <2>1 DEF Begins
  <2>7. Turns'
    <3>1. written' \in 0..MaxLines
      BY <1>0, <2>2, <2>6
    <3>2. pc' = "wait" /\ unfinished' = FALSE /\ spoiled' \subseteq 1..written'
      BY <2>1, <2>5, <2>6
    <3> QED  BY <3>1, <3>2 DEF Turns
  <2>8. Read'
    BY <2>1, ReadOn DEF IInv
  <2> QED  BY <2>5, <2>7, <2>8 DEF IInv
<1>6. CASE ProgramWrites
  <2>1. PICK noise \in Noise :
            /\ Write([is |-> noise])
            /\ unfinished' = (noise = "part")
    BY <1>6 DEF ProgramWrites
  <2> DEFINE piece == [is |-> noise]
  <2>2. noise \in {"line", "part"}
    BY NoiseAssumption
  <2>3. piece \in [is : {"newline", "line", "part"}] /\ piece.is = noise
    BY <2>2
  <2>4. /\ spoiled' = IF pc = "newline" THEN spoiled \cup {written} ELSE spoiled
        /\ UNCHANGED <<memory, tracerVars, received>>
    BY <1>6 DEF ProgramWrites
  <2>5. Write(piece)
    BY <2>1
  <2> HIDE DEF piece
  <2>6. spoiled' = IF pc = "newline" /\ piece.is # "newline" THEN spoiled \cup {written} ELSE spoiled
    BY <2>2, <2>3, <2>4
  <2>7. /\ memory' = memory /\ received' = received
        /\ pc' = pc /\ buf' = buf /\ done' = done /\ written' = written
    BY <2>4 DEF tracerVars
  <2>8. Pieces' /\ Neat' /\ Passed' /\ Kept' /\ spoiled' \subseteq 1..written'
    BY <2>1, <2>3, <2>5, <2>6, <2>7, NoiseOn
  <2>9. Turns'
    BY <2>1, <2>7, <2>8 DEF IInv, Turns
  <2>10. Read'
    BY <2>7, ReadOn DEF IInv
  <2> QED  BY <2>8, <2>9, <2>10 DEF IInv
<1>7. CASE ReadLine
  <2>1. UNCHANGED <<memory, tracerVars, unfinished, spoiled>>
    BY <1>7 DEF ReadLine
  <2>2. Pieces' /\ Neat' /\ Passed' /\ Kept'
    BY <1>7, ReadLineOn
  <2>3. Turns'
    BY <2>1 DEF IInv, Turns, tracerVars
  <2>4. Read'
    BY <2>1, ReadOn DEF IInv, tracerVars
  <2> QED  BY <2>2, <2>3, <2>4 DEF IInv
<1>8. CASE UNCHANGED vars
  <2>1. UNCHANGED <<memory, pc, buf, done, written, pipe, received, unfinished, spoiled>>
    BY <1>8 DEF vars, tracerVars
  <2>2. Pieces' /\ Neat' /\ Passed' /\ Kept'
    BY <2>1, PipeOn
  <2>3. Turns'
    BY <2>1 DEF IInv, Turns
  <2>4. Read'
    BY <2>1, ReadOn DEF IInv
  <2> QED  BY <2>2, <2>3, <2>4 DEF IInv
<1> QED  BY <1>1, <1>2, <1>3, <1>4, <1>5, <1>6, <1>7, <1>8 DEF Next

\* The parts say what the properties of Wire do.
LEMMA InvShows == IInv => TypeOK /\ PathComesBack /\ LinesComeThrough
<1> SUFFICES ASSUME IInv PROVE TypeOK /\ PathComesBack /\ LinesComeThrough
  OBVIOUS
<1>0. written \in Nat /\ MaxLines \in Nat /\ 1..written \subseteq 1..MaxLines
  BY SizeAssumption DEF IInv, Turns
<1>1. \A i \in 1..Len(pipe) :
          pipe[i].is = "text" => pipe[i].token = None \/ Len(pipe[i].token) < OUT_CAP
  BY DEF IInv, Pieces, Ours, Said, Tells
<1>2. \A i \in 1..Len(received) : received[i].nth \in 1..MaxLines
  BY <1>0 DEF IInv, Passed
<1>3. spoiled \subseteq 1..MaxLines
  BY <1>0 DEF IInv, Turns
<1>4. TypeOK
  BY <1>1, <1>2, <1>3 DEF IInv, TypeOK, Read, Turns, Pieces
<1>5. PathComesBack
  BY DEF IInv, Passed, PathComesBack
<1>6. LinesComeThrough
  BY DEF IInv, Passed, Kept, LinesComeThrough, Ours
<1> QED  BY <1>4, <1>5, <1>6
-----------------------------------------------------------------------------
\* Buffers and pipe keep within their sizes whatever they are, the NULs that end
\* the C strings included (tracer.c read_child_string).
THEOREM WireTypeCorrect == Spec => []TypeOK
<1> QED  BY InitInv, NextInv, InvShows, PTL DEF Spec

\* For paths, pages and buffers of any size the path received is the one in the
\* task's memory or the longest start of it that is readable and fits: escaping it
\* and unescaping it give back the same bytes (tracer.c, wire.py).
THEOREM PathsComeBack == Spec => []PathComesBack
<1> QED  BY InitInv, NextInv, InvShows, PTL DEF Spec

\* Every line the program did not write into is received, once, in order and
\* unaltered (live.py _pump).
THEOREM LinesAreReceived == Spec => []LinesComeThrough
<1> QED  BY InitInv, NextInv, InvShows, PTL DEF Spec
=============================================================================
