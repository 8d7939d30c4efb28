------------------------------- MODULE Amount -------------------------------
(***************************************************************************)
(* amount.go: what an amount as it is typed comes to in the smallest unit  *)
(* of a token with some number of decimals, and how it is displayed.  A    *)
(* text is a sequence of characters: a digit stands for itself, the others *)
(* for the numbers below.  An amount that is refused comes to 0, which no  *)
(* accepted amount does.                                                   *)
(***************************************************************************)
EXTENDS Integers, Sequences, SequencesExt

Digit == 0 .. 9
Dot == 10
Minus == 11
Plus == 12
Underscore == 13
Space == 14
Character == 0 .. Space

Refused == 0

\* What digits are worth, the last of them ones.
Worth(digits) ==
  LET upTo[k \in 0 .. Len(digits)] == IF k = 0 THEN 0 ELSE 10 * upTo[k - 1] + digits[k]
  IN  upTo[Len(digits)]

Zeros(n) == [k \in 1 .. n |-> 0]
TenTo(n) == Worth(<<1>> \o Zeros(n))

\* strings.TrimSpace, strings.Trim and strings.TrimRight
TrimLeft(s, c) ==
  LET first == SelectInSeq(s, LAMBDA x : x # c)
  IN  IF first = 0 THEN <<>> ELSE SubSeq(s, first, Len(s))

TrimRight(s, c) == SubSeq(s, 1, SelectLastInSeq(s, LAMBDA x : x # c))

Trim(s, c) == TrimLeft(TrimRight(s, c), c)

\* strings.ReplaceAll with nothing
Without(s, c) ==
  LET upTo[k \in 0 .. Len(s)] ==
        IF k = 0 THEN <<>>
        ELSE IF s[k] = c THEN upTo[k - 1] ELSE Append(upTo[k - 1], s[k])
  IN  upTo[Len(s)]

\* What is read of a text.
Plain(text) == Without(Trim(text, Space), Underscore)

\* strings.Cut: what is before the first dot and what is after it.
Whole(s) ==
  LET dot == SelectInSeq(s, LAMBDA x : x = Dot)
  IN  IF dot = 0 THEN s ELSE SubSeq(s, 1, dot - 1)

Frac(s) ==
  LET dot == SelectInSeq(s, LAMBDA x : x = Dot)
  IN  IF dot = 0 THEN <<>> ELSE SubSeq(s, dot + 1, Len(s))

\* big.Int.SetString takes a sign and then digits, at least one.
Unsigned(s) == IF s # <<>> /\ Head(s) \in {Plus, Minus} THEN Tail(s) ELSE s
IsNumber(s) == Unsigned(s) # <<>> /\ ToSet(Unsigned(s)) \subseteq Digit
Number(s) == Worth(Unsigned(s))

\* Mutant: digits beyond the decimals are cut off, whatever they are.
FitTruncated(frac, decimals) ==
  SubSeq(frac, 1, IF Len(frac) < decimals THEN Len(frac) ELSE decimals)

\* The decimals that are written, without zeros in excess of the token's; more
\* than that does not fit.
Fit(frac, decimals) ==
  IF Trim(SubSeq(frac, decimals + 1, Len(frac)), 0) = <<>>
  THEN SubSeq(frac, 1, IF Len(frac) < decimals THEN Len(frac) ELSE decimals)
  ELSE frac

ParseAmount(text, decimals) ==
  LET s == Plain(text)
      whole == IF Whole(s) = <<>> THEN <<0>> ELSE Whole(s)
      frac == Fit(Frac(s), decimals)
      digits == whole \o frac \o Zeros(decimals - Len(frac))
  IN  IF \/ s = <<>> \/ Head(s) = Minus
         \/ Len(frac) > decimals
         \/ ~IsNumber(digits)
      THEN Refused
      ELSE Number(digits)

\* The digits of a number, at least one of them.
DigitsOf(n) ==
  LET width == CHOOSE w \in 1 .. n + 1 : n < TenTo(w) /\ (w = 1 \/ n >= TenTo(w - 1))
  IN  [k \in 1 .. width |-> (n \div TenTo(width - k)) % 10]

\* Mutant: the fraction is not padded.
PaddedShort(n, width) == DigitsOf(n)

Padded(n, width) == Zeros(width - Len(DigitsOf(n))) \o DigitsOf(n)

FormatAmount(v, decimals) ==
  LET unit == TenTo(decimals)
  IN  IF v % unit = 0 THEN DigitsOf(v \div unit)
      ELSE DigitsOf(v \div unit) \o <<Dot>> \o TrimRight(Padded(v % unit, decimals), 0)

-----------------------------------------------------------------------------
(* What an amount means, said without scaling and padding *)

\* The text without spaces at its ends, underscores and plus sign.
Bare(text) ==
  IF Plain(text) # <<>> /\ Head(Plain(text)) = Plus THEN Tail(Plain(text)) ELSE Plain(text)

\* Digits around a dot at most; all of them, as one number; how many follow
\* the dot.  The text means Mantissa / 10 ^ Places.
WellFormed(text) ==
  /\ ToSet(Bare(text)) \subseteq Digit \union {Dot}
  /\ \A j, k \in DOMAIN Bare(text) : Bare(text)[j] = Dot /\ Bare(text)[k] = Dot => j = k

Mantissa(text) == Worth(Whole(Bare(text)) \o Frac(Bare(text)))

Places(text) == Len(Frac(Bare(text)))

\* The number of smallest units that is exactly what was typed, if there is one.
IsWorth(v, text, decimals) ==
  /\ WellFormed(text)
  /\ v > 0
  /\ v * TenTo(Places(text)) = Mantissa(text) * TenTo(decimals)
=============================================================================
