---------------------------- MODULE AmountProofs ----------------------------
(***************************************************************************)
(* What ParseAmount and FormatAmount compute, proved for every text, value *)
(* and number of decimals.                                                 *)
(***************************************************************************)
EXTENDS Amount, SequenceTheorems, WellFoundedInduction, TLAPS

-----------------------------------------------------------------------------
(* Induction, over sets of numbers *)

LEMMA NatInducts ==
  ASSUME NEW T, 0 \in T, \A n \in Nat : n \in T => n + 1 \in T
  PROVE  \A n \in Nat : n \in T
  <1> DEFINE U == Nat \ T
  <1>1. SUFFICES ASSUME U # {}
                 PROVE  FALSE
    OBVIOUS
  <1>2. PICK m \in U : \A y \in U : ~(<<y, m>> \in OpToRel(<, Nat))
    BY <1>1, WFMin, NatLessThanWellFounded
  <1>3. \A y \in U : y < m => <<y, m>> \in OpToRel(<, Nat)
    BY DEF OpToRel
  <1>4. m - 1 \in Nat /\ m - 1 < m /\ m = (m - 1) + 1
    <2>1. m \in Nat /\ m # 0
      BY <1>2
    <2>2. QED
      BY <2>1
  <1>5. m - 1 \in T
    BY <1>2, <1>3, <1>4
  <1>6. m \in T
    BY <1>4, <1>5
  <1>7. QED
    BY <1>2, <1>6

\* A function goes from b through 0 .. n, one step after another.
Goes(f, S, n, b, step) ==
  /\ f \in [0 .. n -> S]
  /\ f[0] = b /\ \A k \in 1 .. n : f[k] = step[<<k, f[k - 1]>>]

\* There is one wherever the steps lead.
LEMMA StepsExist ==
  ASSUME NEW S, NEW b \in S, NEW n \in Nat, NEW step,
         \A k \in 1 .. n : \A x \in S : step[<<k, x>>] \in S
  PROVE  \E f : Goes(f, S, n, b, step)
  <1> DEFINE Upto(m, f) == /\ f \in [0 .. m -> S]
                           /\ f[0] = b /\ \A k \in 1 .. m : f[k] = step[<<k, f[k - 1]>>]
             T == {m \in Nat : m <= n => \E f : Upto(m, f)}
  <1>1. 0 \in T
    <2>1. Upto(0, [k \in {0} |-> b])
      OBVIOUS
    <2>2. QED
      BY <2>1
  <1>2. ASSUME NEW m \in Nat, m \in T
        PROVE  m + 1 \in T
    <2>1. SUFFICES ASSUME m + 1 <= n
                   PROVE  \E f : Upto(m + 1, f)
      OBVIOUS
    <2>2. PICK f : Upto(m, f)
      BY <1>2, <2>1
    <2> DEFINE g == [k \in 0 .. m + 1 |-> IF k = m + 1 THEN step[<<m + 1, f[m]>>] ELSE f[k]]
    <2>3. f[m] \in S /\ m + 1 \in 1 .. n
      BY <2>1, <2>2
    <2>4. step[<<m + 1, f[m]>>] \in S
      BY <2>3
    <2>5. \A k \in 0 .. m : g[k] = f[k] /\ f[k] \in S
      BY <2>2
    <2>6. g[m + 1] = step[<<m + 1, f[m]>>]
      OBVIOUS
    <2>7. \A k \in 0 .. m + 1 : g[k] \in S
      <3>1. \A k \in 0 .. m + 1 : k = m + 1 \/ k \in 0 .. m
        OBVIOUS
      <3>2. QED
        BY <2>4, <2>5, <2>6, <3>1
    <2>8. g \in [0 .. m + 1 -> S]
      BY <2>7
    <2> HIDE DEF g
    <2>9. g[0] = b
      BY <2>2, <2>5
    <2>10. ASSUME NEW k \in 1 .. m + 1
           PROVE  g[k] = step[<<k, g[k - 1]>>]
      <3>1. CASE k = m + 1
        <4>1. k - 1 = m /\ g[m] = f[m]
          BY <2>5, <3>1
        <4>2. QED
          BY <2>6, <3>1, <4>1
      <3>2. CASE k # m + 1
        <4>1. k \in 1 .. m /\ k \in 0 .. m /\ k - 1 \in 0 .. m
          BY <3>2
        <4>2. g[k] = f[k] /\ g[k - 1] = f[k - 1] /\ f[k] = step[<<k, f[k - 1]>>]
          BY <2>2, <2>5, <4>1
        <4>3. QED
          BY <4>2
      <3>3. QED
        BY <3>1, <3>2
    <2>11. QED
      BY <2>8, <2>9, <2>10
  <1>3. n \in T
    <2> HIDE DEF T
    <2>1. QED
      BY <1>1, <1>2, NatInducts
  <1>4. PICK f : Upto(n, f)
    BY <1>3
  <1>5. QED
    BY <1>4 DEF Goes

-----------------------------------------------------------------------------
(* Digits *)

\* Worth goes through the digits one by one.
LEMMA WorthSteps ==
  ASSUME NEW d \in Seq(Nat)
  PROVE  \E f \in [0 .. Len(d) -> Nat] :
           /\ f[0] = 0 /\ \A k \in 1 .. Len(d) : f[k] = 10 * f[k - 1] + d[k]
           /\ Worth(d) = f[Len(d)]
  <1> DEFINE n == Len(d)
             step == [p \in (1 .. n) \X Nat |-> 10 * p[2] + d[p[1]]]
             IsUpTo(f) == f = [k \in 0 .. n |-> IF k = 0 THEN 0 ELSE 10 * f[k - 1] + d[k]]
             upTo == CHOOSE f : IsUpTo(f)
  <1>1. n \in Nat
    BY LenProperties
  <1>2. \A k \in 1 .. n : d[k] \in Nat
    BY ElementOfSeq
  <1>3. \A k \in 1 .. n : \A x \in Nat : step[<<k, x>>] = 10 * x + d[k] /\ step[<<k, x>>] \in Nat
    BY <1>2, SMTT(30)
  <1> HIDE DEF step
  <1>13. \A k \in 1 .. n : \A x \in Nat : step[<<k, x>>] \in Nat
    BY <1>3
  <1>4. PICK f : Goes(f, Nat, n, 0, step)
    <2>1. 0 \in Nat
      OBVIOUS
    <2>2. QED
      BY <1>1, <1>13, <2>1, StepsExist
  <1>5. \A k \in 0 .. n : f[k] = IF k = 0 THEN 0 ELSE 10 * f[k - 1] + d[k]
    <2>1. SUFFICES ASSUME NEW k \in 0 .. n, k # 0
                   PROVE  f[k] = 10 * f[k - 1] + d[k]
      BY <1>4 DEF Goes
    <2>2. k \in 1 .. n /\ k - 1 \in 0 .. n
      BY <1>1, <2>1
    <2>3. f[k - 1] \in Nat /\ f[k] = step[<<k, f[k - 1]>>]
      BY <1>4, <2>2 DEF Goes
    <2>4. QED
      BY <1>3, <2>2, <2>3
  <1>6. IsUpTo(f)
    <2>1. f \in [0 .. n -> Nat]
      BY <1>4 DEF Goes
    <2>2. QED
      BY <1>5, <2>1
  <1>7. IsUpTo(upTo)
    BY <1>6
  <1>8. Worth(d) = upTo[n]
    BY DEF Worth
  <1> HIDE DEF upTo
  <1>9. \A k \in 0 .. n : upTo[k] = IF k = 0 THEN 0 ELSE 10 * upTo[k - 1] + d[k]
    BY <1>7
  <1>10. upTo \in [0 .. n -> Nat]
    <2> DEFINE T == {k \in Nat : k <= n => upTo[k] \in Nat}
    <2>1. 0 \in T
      BY <1>1, <1>9
    <2>2. ASSUME NEW k \in Nat, k \in T
          PROVE  k + 1 \in T
      <3>1. SUFFICES ASSUME k + 1 <= n
                     PROVE  upTo[k + 1] \in Nat
        OBVIOUS
      <3>2. k + 1 \in 0 .. n /\ k + 1 \in 1 .. n /\ k + 1 # 0 /\ (k + 1) - 1 = k
        BY <1>1, <3>1
      <3>3. upTo[k] \in Nat
        BY <1>1, <2>2, <3>1
      <3>4. upTo[k + 1] = 10 * upTo[k] + d[k + 1]
        BY <1>9, <3>2
      <3>5. QED
        BY <1>2, <3>2, <3>3, <3>4
    <2> HIDE DEF T
    <2>3. \A k \in Nat : k \in T
      BY <2>1, <2>2, NatInducts
    <2>4. \A k \in 0 .. n : upTo[k] \in Nat
      BY <1>1, <2>3 DEF T
    <2>5. QED
      BY <1>7, <2>4
  <1>11. upTo[0] = 0 /\ \A k \in 1 .. n : upTo[k] = 10 * upTo[k - 1] + d[k]
    BY <1>1, <1>9
  <1>12. QED
    BY <1>8, <1>10, <1>11

LEMMA WorthType ==
  ASSUME NEW d \in Seq(Nat)
  PROVE  Worth(d) \in Nat
  <1>1. PICK f \in [0 .. Len(d) -> Nat] : Worth(d) = f[Len(d)]
    BY WorthSteps
  <1>2. Len(d) \in 0 .. Len(d)
    BY LenProperties
  <1>3. QED
    BY <1>1, <1>2

LEMMA WorthEmpty == Worth(<<>>) = 0
  <1>1. <<>> \in Seq(Nat) /\ Len(<<>>) = 0
    OBVIOUS
  <1>2. QED
    BY <1>1, WorthSteps

\* One digit more.
LEMMA WorthAppend ==
  ASSUME NEW d \in Seq(Nat), NEW x \in Nat
  PROVE  Worth(Append(d, x)) = 10 * Worth(d) + x
  <1> DEFINE e == Append(d, x)
             n == Len(d)
  <1>1. /\ e \in Seq(Nat) /\ n \in Nat /\ Len(e) = n + 1 /\ e[n + 1] = x
        /\ \A k \in 1 .. n : e[k] = d[k]
    BY AppendProperties, LenProperties
  <1>2. PICK f \in [0 .. n -> Nat] :
          /\ f[0] = 0 /\ \A k \in 1 .. n : f[k] = 10 * f[k - 1] + d[k]
          /\ Worth(d) = f[n]
    BY WorthSteps
  <1>3. PICK g \in [0 .. n + 1 -> Nat] :
          /\ g[0] = 0 /\ \A k \in 1 .. n + 1 : g[k] = 10 * g[k - 1] + e[k]
          /\ Worth(e) = g[n + 1]
    <2>1. PICK g \in [0 .. Len(e) -> Nat] :
            /\ g[0] = 0 /\ \A k \in 1 .. Len(e) : g[k] = 10 * g[k - 1] + e[k]
            /\ Worth(e) = g[Len(e)]
      BY <1>1, WorthSteps
    <2>2. QED
      BY <1>1, <2>1
  <1> HIDE DEF e
  <1> DEFINE T == {k \in Nat : k <= n => g[k] = f[k]}
  <1>4. 0 \in T
    BY <1>2, <1>3
  <1>5. ASSUME NEW k \in Nat, k \in T
        PROVE  k + 1 \in T
    <2>1. SUFFICES ASSUME k + 1 <= n
                   PROVE  g[k + 1] = f[k + 1]
      OBVIOUS
    <2>2. k + 1 \in 1 .. n /\ k + 1 \in 1 .. n + 1 /\ (k + 1) - 1 = k
      BY <1>1, <2>1
    <2>3. f[k + 1] = 10 * f[k] + d[k + 1]
      BY <1>2, <2>2
    <2>4. g[k + 1] = 10 * g[k] + e[k + 1]
      BY <1>3, <2>2
    <2>5. g[k] = f[k] /\ e[k + 1] = d[k + 1]
      BY <1>1, <1>5, <2>1, <2>2
    <2>6. QED
      BY <2>3, <2>4, <2>5
  <1> HIDE DEF T
  <1>6. \A k \in Nat : k \in T
    BY <1>4, <1>5, NatInducts
  <1>7. g[n] = f[n]
    <2>1. n \in Nat /\ n <= n
      BY <1>1
    <2>2. n \in T
      BY <1>6, <2>1
    <2>3. QED
      BY <2>1, <2>2 DEF T
  <1>8. g[n + 1] = 10 * g[n] + x
    <2>1. n + 1 \in 1 .. n + 1 /\ (n + 1) - 1 = n
      BY <1>1
    <2>2. QED
      BY <1>1, <1>3, <2>1
  <1>9. QED
    BY <1>2, <1>3, <1>7, <1>8 DEF e

LEMMA ZerosType ==
  ASSUME NEW n \in Nat
  PROVE  Zeros(n) \in Seq({0}) /\ Zeros(n) \in Seq(Digit) /\ Zeros(n) \in Seq(Nat) /\ Len(Zeros(n)) = n
  <1>1. Zeros(n) \in [1 .. n -> {0}]
    BY DEF Zeros
  <1>2. Zeros(n) \in Seq({0}) /\ Len(Zeros(n)) = n
    BY <1>1
  <1>3. {0} \subseteq Digit /\ {0} \subseteq Nat
    BY DEF Digit
  <1>4. QED
    BY <1>2, <1>3, SeqMonotonic

LEMMA ZerosAppend ==
  ASSUME NEW n \in Nat
  PROVE  Zeros(n + 1) = Append(Zeros(n), 0)
  <1>1. Zeros(n) \in Seq(Nat) /\ Len(Zeros(n)) = n /\ Zeros(n + 1) \in Seq(Nat) /\ Len(Zeros(n + 1)) = n + 1
    BY ZerosType
  <1>2. /\ Append(Zeros(n), 0) \in Seq(Nat) /\ Len(Append(Zeros(n), 0)) = n + 1
        /\ \A k \in 1 .. n : Append(Zeros(n), 0)[k] = Zeros(n)[k]
        /\ Append(Zeros(n), 0)[n + 1] = 0
    BY <1>1, AppendProperties
  <1>3. \A k \in 1 .. n + 1 : Zeros(n + 1)[k] = Append(Zeros(n), 0)[k]
    <2>1. SUFFICES ASSUME NEW k \in 1 .. n + 1
                   PROVE  Append(Zeros(n), 0)[k] = 0
      BY DEF Zeros
    <2>2. CASE k = n + 1
      BY <1>2, <2>2
    <2>3. CASE k # n + 1
      <3>1. k \in 1 .. n
        BY <2>3
      <3>2. Zeros(n)[k] = 0
        BY <3>1 DEF Zeros
      <3>3. QED
        BY <1>2, <3>1, <3>2
    <2>4. QED
      BY <2>2, <2>3
  <1>4. QED
    BY <1>1, <1>2, <1>3, SeqEqual

\* Ten to the nought, and to the next.
LEMMA TenToSteps ==
  /\ TenTo(0) = 1
  /\ \A n \in Nat : TenTo(n + 1) = 10 * TenTo(n)
  <1>1. TenTo(0) = 1
    <2>1. Zeros(0) = <<>>
      BY ZerosType, EmptySeq
    <2>2. <<1>> \in Seq(Nat) /\ <<1>> \o <<>> = <<1>> /\ <<1>> = Append(<<>>, 1) /\ <<>> \in Seq(Nat)
      OBVIOUS
    <2>3. Worth(Append(<<>>, 1)) = 10 * Worth(<<>>) + 1
      BY <2>2, WorthAppend
    <2>4. <<1>> \o Zeros(0) = Append(<<>>, 1)
      BY <2>1, <2>2
    <2>5. TenTo(0) = Worth(Append(<<>>, 1))
      BY <2>4 DEF TenTo
    <2>6. QED
      BY <2>3, <2>5, WorthEmpty
  <1>2. ASSUME NEW n \in Nat
        PROVE  TenTo(n + 1) = 10 * TenTo(n)
    <2>1. Zeros(n) \in Seq(Nat) /\ <<1>> \in Seq(Nat) /\ <<0>> \in Seq(Nat)
      BY ZerosType
    <2>2. <<1>> \o Zeros(n) \in Seq(Nat)
      BY <2>1, ConcatProperties
    <2>3. <<1>> \o Append(Zeros(n), 0) = Append(<<1>> \o Zeros(n), 0)
      <3>1. Append(Zeros(n), 0) = Zeros(n) \o <<0>>
        BY <2>1, AppendIsConcat
      <3>2. Append(<<1>> \o Zeros(n), 0) = (<<1>> \o Zeros(n)) \o <<0>>
        BY <2>2, AppendIsConcat
      <3>3. QED
        BY <2>1, <3>1, <3>2, ConcatAssociative
    <2>4. Worth(Append(<<1>> \o Zeros(n), 0)) = 10 * Worth(<<1>> \o Zeros(n)) + 0
      BY <2>2, WorthAppend
    <2>5. Worth(<<1>> \o Zeros(n)) \in Nat
      BY <2>2, WorthType
    <2>6. TenTo(n) = Worth(<<1>> \o Zeros(n))
      BY DEF TenTo
    <2>7. TenTo(n + 1) = Worth(<<1>> \o Append(Zeros(n), 0))
      BY ZerosAppend DEF TenTo
    <2>8. TenTo(n + 1) = 10 * Worth(<<1>> \o Zeros(n)) + 0
      BY <2>3, <2>4, <2>7
    <2>9. QED
      BY <2>5, <2>6, <2>8
  <1>3. QED
    BY <1>1, <1>2

LEMMA TenToType == \A n \in Nat : TenTo(n) \in Nat \ {0}
  <1> DEFINE T == {n \in Nat : TenTo(n) \in Nat \ {0}}
  <1>1. 0 \in T
    BY TenToSteps
  <1>2. ASSUME NEW n \in Nat, n \in T
        PROVE  n + 1 \in T
    BY <1>2, TenToSteps
  <1> HIDE DEF T
  <1>3. \A n \in Nat : n \in T
    BY <1>1, <1>2, NatInducts
  <1>4. QED
    BY <1>3 DEF T

\* Digits before other digits count as many times ten.
LEMMA WorthConcat ==
  ASSUME NEW a \in Seq(Nat), NEW b \in Seq(Nat)
  PROVE  Worth(a \o b) = Worth(a) * TenTo(Len(b)) + Worth(b)
  <1> DEFINE Holds(c) == Worth(a \o c) = Worth(a) * TenTo(Len(c)) + Worth(c)
             T == {n \in Nat : \A c \in Seq(Nat) : Len(c) = n => Holds(c)}
  <1>1. 0 \in T
    <2>1. SUFFICES ASSUME NEW c \in Seq(Nat), Len(c) = 0
                   PROVE  Holds(c)
      OBVIOUS
    <2>2. c = <<>>
      BY <2>1, EmptySeq
    <2>3. a \o <<>> = a /\ Worth(a) \in Nat
      BY ConcatEmptySeq, WorthType
    <2>4. QED
      BY <2>1, <2>2, <2>3, WorthEmpty, TenToSteps
  <1>2. ASSUME NEW n \in Nat, n \in T
        PROVE  n + 1 \in T
    <2>1. SUFFICES ASSUME NEW c \in Seq(Nat), Len(c) = n + 1
                   PROVE  Holds(c)
      OBVIOUS
    <2>2. PICK h \in Seq(Nat), x \in Nat : c = Append(h, x)
      <3>1. c # <<>>
        BY <2>1
      <3>2. QED
        BY <3>1, SequenceEmptyOrAppend
    <2>3. Len(h) = n
      <3>1. Len(c) = Len(h) + 1 /\ Len(h) \in Nat
        BY <2>2, AppendProperties, LenProperties
      <3>2. QED
        BY <2>1, <3>1
    <2>4. Worth(a \o h) = Worth(a) * TenTo(n) + Worth(h)
      BY <1>2, <2>3
    <2>5. a \o c = Append(a \o h, x) /\ a \o h \in Seq(Nat)
      <3>1. <<x>> \in Seq(Nat) /\ a \o h \in Seq(Nat)
        BY ConcatProperties
      <3>2. c = h \o <<x>> /\ Append(a \o h, x) = (a \o h) \o <<x>>
        BY <2>2, <3>1, AppendIsConcat
      <3>3. QED
        BY <3>1, <3>2, ConcatAssociative, SMTT(30)
    <2>6. Worth(a \o c) = 10 * Worth(a \o h) + x /\ Worth(c) = 10 * Worth(h) + x
      BY <2>2, <2>5, WorthAppend
    <2>7. Worth(a) \in Nat /\ Worth(h) \in Nat /\ TenTo(n) \in Nat /\ TenTo(n + 1) = 10 * TenTo(n)
      BY WorthType, TenToType, TenToSteps
    <2>8. \A u, v, w \in Nat : 10 * (u * v + w) = u * (10 * v) + 10 * w
      OBVIOUS
    <2>9. 10 * Worth(a \o h) = Worth(a) * TenTo(n + 1) + 10 * Worth(h)
      BY <2>4, <2>7, <2>8
    <2>10. Worth(a) * TenTo(n + 1) \in Nat
      <3>1. \A u, v \in Nat : u * v \in Nat
        OBVIOUS
      <3>2. TenTo(n + 1) \in Nat
        BY <2>7
      <3>3. QED
        BY <2>7, <3>1, <3>2
    <2> HIDE DEF T
    <2>11. QED
      BY <2>1, <2>6, <2>7, <2>9, <2>10
  <1> HIDE DEF T
  <1>3. \A n \in Nat : n \in T
    BY <1>1, <1>2, NatInducts
  <1>4. Len(b) \in Nat
    BY LenProperties
  <1>5. QED
    BY <1>3, <1>4 DEF T

LEMMA TenToAdds ==
  ASSUME NEW a \in Nat, NEW b \in Nat
  PROVE  TenTo(a + b) = TenTo(a) * TenTo(b)
  <1> DEFINE T == {n \in Nat : TenTo(a + n) = TenTo(a) * TenTo(n)}
  <1>1. 0 \in T
    <2>1. TenTo(a) \in Nat /\ TenTo(0) = 1 /\ a + 0 = a
      BY TenToType, TenToSteps
    <2>2. TenTo(a) * 1 = TenTo(a)
      BY <2>1
    <2>3. QED
      BY <2>1, <2>2
  <1>2. ASSUME NEW n \in Nat, n \in T
        PROVE  n + 1 \in T
    <2>1. a + (n + 1) = (a + n) + 1 /\ a + n \in Nat
      OBVIOUS
    <2>2. TenTo((a + n) + 1) = 10 * TenTo(a + n) /\ TenTo(n + 1) = 10 * TenTo(n)
      BY <2>1, TenToSteps
    <2>3. TenTo(a + n) = TenTo(a) * TenTo(n)
      BY <1>2
    <2>4. TenTo(a) \in Nat /\ TenTo(n) \in Nat
      BY TenToType
    <2>5. \A u, v \in Nat : 10 * (u * v) = u * (10 * v)
      OBVIOUS
    <2>6. TenTo(a + (n + 1)) = TenTo(a) * TenTo(n + 1)
      BY <2>1, <2>2, <2>3, <2>4, <2>5
    <2>7. QED
      BY <2>6
  <1> HIDE DEF T
  <1>3. \A n \in Nat : n \in T
    BY <1>1, <1>2, NatInducts
  <1>4. QED
    BY <1>3 DEF T

\* Digits are worth less than ten to their number.
LEMMA WorthBound ==
  ASSUME NEW d \in Seq(Digit)
  PROVE  d \in Seq(Nat) /\ Worth(d) \in Nat /\ Worth(d) < TenTo(Len(d))
  <1>0. \A c \in Seq(Digit) : c \in Seq(Nat)
    <2>1. Digit \subseteq Nat
      BY DEF Digit
    <2>2. QED
      BY <2>1, SeqMonotonic
  <1> DEFINE T == {n \in Nat : \A c \in Seq(Digit) : Len(c) = n => Worth(c) < TenTo(n)}
  <1>1. 0 \in T
    <2>1. SUFFICES ASSUME NEW c \in Seq(Digit), Len(c) = 0
                   PROVE  Worth(c) < TenTo(0)
      OBVIOUS
    <2>2. c = <<>>
      BY <2>1, EmptySeq
    <2>3. QED
      BY <2>2, WorthEmpty, TenToSteps
  <1>2. ASSUME NEW n \in Nat, n \in T
        PROVE  n + 1 \in T
    <2>1. SUFFICES ASSUME NEW c \in Seq(Digit), Len(c) = n + 1
                   PROVE  Worth(c) < TenTo(n + 1)
      OBVIOUS
    <2>2. PICK h \in Seq(Digit), x \in Digit : c = Append(h, x)
      <3>1. c # <<>>
        BY <2>1
      <3>2. QED
        BY <3>1, SequenceEmptyOrAppend
    <2>3. Len(h) = n
      <3>1. Len(c) = Len(h) + 1 /\ Len(h) \in Nat
        BY <2>2, AppendProperties, LenProperties
      <3>2. QED
        BY <2>1, <3>1
    <2>4. Worth(h) < TenTo(n)
      BY <1>2, <2>3
    <2>5. x \in Nat /\ x <= 9
      BY DEF Digit
    <2>6. h \in Seq(Nat)
      BY <1>0
    <2>7. Worth(c) = 10 * Worth(h) + x /\ Worth(h) \in Nat
      BY <2>2, <2>5, <2>6, WorthAppend, WorthType
    <2>8. TenTo(n + 1) = 10 * TenTo(n) /\ TenTo(n) \in Nat
      BY TenToSteps, TenToType
    <2>9. QED
      BY <2>4, <2>5, <2>7, <2>8
  <1> HIDE DEF T
  <1>3. \A n \in Nat : n \in T
    BY <1>1, <1>2, NatInducts
  <1>4. Len(d) \in Nat
    BY LenProperties
  <1>5. Worth(d) < TenTo(Len(d))
    BY <1>3, <1>4 DEF T
  <1>6. QED
    BY <1>0, <1>5, WorthType

\* Zeros are worth nothing, and behind other digits they multiply by ten.
LEMMA WorthZeros ==
  ASSUME NEW n \in Nat
  PROVE  Worth(Zeros(n)) = 0
  <1> DEFINE T == {k \in Nat : Worth(Zeros(k)) = 0}
  <1>1. 0 \in T
    <2>1. Zeros(0) = <<>>
      BY ZerosType, EmptySeq
    <2>2. QED
      BY <2>1, WorthEmpty
  <1>2. ASSUME NEW k \in Nat, k \in T
        PROVE  k + 1 \in T
    <2>1. Zeros(k) \in Seq(Nat) /\ 0 \in Nat
      BY ZerosType
    <2>2. Worth(Zeros(k + 1)) = 10 * Worth(Zeros(k)) + 0
      BY <2>1, ZerosAppend, WorthAppend
    <2>3. QED
      BY <1>2, <2>2
  <1> HIDE DEF T
  <1>3. \A k \in Nat : k \in T
    BY <1>1, <1>2, NatInducts
  <1>4. QED
    BY <1>3 DEF T

LEMMA WorthShift ==
  ASSUME NEW a \in Seq(Nat), NEW n \in Nat
  PROVE  /\ a \o Zeros(n) \in Seq(Nat)
         /\ Worth(a \o Zeros(n)) = Worth(a) * TenTo(n)
  <1>1. Zeros(n) \in Seq(Nat) /\ Len(Zeros(n)) = n
    BY ZerosType
  <1>2. Worth(a \o Zeros(n)) = Worth(a) * TenTo(n) + 0
    BY <1>1, WorthConcat, WorthZeros
  <1>3. Worth(a) * TenTo(n) \in Nat
    <2>1. Worth(a) \in Nat /\ TenTo(n) \in Nat
      BY WorthType, TenToType
    <2>2. \A u, v \in Nat : u * v \in Nat
      OBVIOUS
    <2>3. QED
      BY <2>1, <2>2
  <1>4. QED
    BY <1>1, <1>2, <1>3, ConcatProperties

\* Digits that are not all zero are worth something.
LEMMA WorthPositive ==
  ASSUME NEW d \in Seq(Nat), Worth(d) = 0
  PROVE  \A k \in 1 .. Len(d) : d[k] = 0
  <1> DEFINE T == {n \in Nat : \A c \in Seq(Nat) : Len(c) = n /\ Worth(c) = 0 => \A k \in 1 .. n : c[k] = 0}
  <1>1. 0 \in T
    OBVIOUS
  <1>2. ASSUME NEW n \in Nat, n \in T
        PROVE  n + 1 \in T
    <2>1. SUFFICES ASSUME NEW c \in Seq(Nat), Len(c) = n + 1, Worth(c) = 0, NEW k \in 1 .. n + 1
                   PROVE  c[k] = 0
      OBVIOUS
    <2>2. PICK h \in Seq(Nat), x \in Nat : c = Append(h, x)
      <3>1. c # <<>>
        BY <2>1
      <3>2. QED
        BY <3>1, SequenceEmptyOrAppend
    <2>3. Len(h) = n
      <3>1. Len(c) = Len(h) + 1 /\ Len(h) \in Nat
        BY <2>2, AppendProperties, LenProperties
      <3>2. QED
        BY <2>1, <3>1
    <2>4. Worth(c) = 10 * Worth(h) + x /\ Worth(h) \in Nat
      BY <2>2, WorthAppend, WorthType
    <2>5. Worth(h) = 0 /\ x = 0
      BY <2>1, <2>4
    <2>6. \A j \in 1 .. n : h[j] = 0
      BY <1>2, <2>3, <2>5
    <2>7. (\A j \in 1 .. n : c[j] = h[j]) /\ c[n + 1] = x
      BY <2>2, <2>3, AppendProperties
    <2>8. CASE k = n + 1
      BY <2>5, <2>7, <2>8
    <2>9. CASE k # n + 1
      <3>1. k \in 1 .. n
        BY <2>9
      <3>2. QED
        BY <2>6, <2>7, <3>1
    <2>10. QED
      BY <2>8, <2>9
  <1> HIDE DEF T
  <1>3. \A n \in Nat : n \in T
    BY <1>1, <1>2, NatInducts
  <1>4. Len(d) \in Nat
    BY LenProperties
  <1>5. QED
    BY <1>3, <1>4 DEF T

-----------------------------------------------------------------------------
(* The first and the last place where something is found *)

LEMMA MinOfPlaces ==
  ASSUME NEW I \in SUBSET Nat, I # {}
  PROVE  Min(I) \in I /\ \A y \in I : Min(I) <= y
  <1>1. PICK m \in I : \A y \in I : ~(<<y, m>> \in OpToRel(<, Nat))
    BY WFMin, NatLessThanWellFounded
  <1>2. \A y \in I : y < m => <<y, m>> \in OpToRel(<, Nat)
    BY DEF OpToRel
  <1>3. ASSUME NEW y \in I
        PROVE  m <= y
    <2>1. y \in Nat /\ m \in Nat
      OBVIOUS
    <2>2. ~(y < m)
      BY <1>1, <1>2
    <2>3. QED
      BY <2>1, <2>2
  <1>4. QED
    BY <1>3 DEF Min

LEMMA MaxOfPlaces ==
  ASSUME NEW n \in Nat, NEW I \in SUBSET (0 .. n), I # {}
  PROVE  Max(I) \in I /\ \A y \in I : Max(I) >= y
  <1> DEFINE J == {k \in Nat : k <= n /\ n - k \in I}
  <1>1. J \in SUBSET Nat /\ J # {}
    <2>1. PICK i \in I : TRUE
      OBVIOUS
    <2>2. n - i \in Nat /\ n - i <= n /\ n - (n - i) = i
      BY <2>1
    <2>3. n - i \in J
      BY <2>2
    <2>4. QED
      BY <2>3
  <1>2. \A i \in I : n - i \in J
    <2>1. \A i \in I : n - i \in Nat /\ n - i <= n /\ n - (n - i) = i
      OBVIOUS
    <2>2. QED
      BY <2>1
  <1>3. PICK j : j = Min(J)
    OBVIOUS
  <1>4. j \in J /\ \A y \in J : j <= y
    BY <1>1, <1>3, MinOfPlaces
  <1>5. n - j \in I
    BY <1>4
  <1>6. ASSUME NEW y \in I
        PROVE  n - j >= y
    <2>1. j <= n - y
      BY <1>2, <1>4
    <2>2. y \in Nat /\ j \in Nat
      BY <1>4
    <2>3. QED
      BY <2>1, <2>2
  <1>7. QED
    BY <1>5, <1>6 DEF Max

\* TrimLeft and TrimRight take away what they are told to, and stop at anything
\* else.
LEMMA TrimLeftIs ==
  ASSUME NEW S, NEW s \in Seq(S), NEW c
  PROVE  \E k \in 0 .. Len(s) :
           /\ TrimLeft(s, c) = SubSeq(s, k + 1, Len(s))
           /\ \A i \in 1 .. k : s[i] = c
           /\ k < Len(s) => s[k + 1] # c
  <1> DEFINE I == {i \in 1 .. Len(s) : s[i] # c}
  <1>0. Len(s) \in Nat
    BY LenProperties
  <1>1. CASE I = {}
    <2>1. SelectInSeq(s, LAMBDA x : x # c) = 0
      BY <1>1 DEF SelectInSeq
    <2>2. TrimLeft(s, c) = <<>>
      BY <2>1 DEF TrimLeft
    <2>3. SubSeq(s, Len(s) + 1, Len(s)) = <<>>
      BY <1>0, SubSeqEmpty
    <2>4. \A i \in 1 .. Len(s) : s[i] = c
      BY <1>1
    <2>5. Len(s) \in 0 .. Len(s) /\ ~(Len(s) < Len(s))
      BY <1>0
    <2>6. QED
      BY <2>2, <2>3, <2>4, <2>5
  <1>2. CASE I # {}
    <2>1. PICK m : m = Min(I)
      OBVIOUS
    <2>2. SelectInSeq(s, LAMBDA x : x # c) = m
      BY <1>2, <2>1 DEF SelectInSeq
    <2>3. m \in I /\ \A y \in I : m <= y
      <3>1. I \in SUBSET Nat
        BY <1>0
      <3>2. QED
        BY <1>2, <2>1, <3>1, MinOfPlaces
    <2>4. m \in 1 .. Len(s) /\ m # 0 /\ m - 1 \in 0 .. Len(s) /\ (m - 1) + 1 = m /\ s[m] # c
      BY <1>0, <2>3
    <2>5. TrimLeft(s, c) = SubSeq(s, (m - 1) + 1, Len(s))
      BY <2>2, <2>4 DEF TrimLeft
    <2>6. \A i \in 1 .. m - 1 : s[i] = c
      <3>1. SUFFICES ASSUME NEW i \in 1 .. m - 1
                     PROVE  s[i] = c
        OBVIOUS
      <3>2. i \in 1 .. Len(s) /\ ~(m <= i)
        BY <1>0, <2>4
      <3>3. QED
        BY <2>3, <3>2
    <2>7. QED
      BY <2>4, <2>5, <2>6
  <1>3. QED
    BY <1>1, <1>2

LEMMA TrimRightIs ==
  ASSUME NEW S, NEW s \in Seq(S), NEW c
  PROVE  \E k \in 0 .. Len(s) :
           /\ TrimRight(s, c) = SubSeq(s, 1, k)
           /\ \A i \in k + 1 .. Len(s) : s[i] = c
           /\ k > 0 => s[k] # c
  <1> DEFINE I == {i \in 1 .. Len(s) : s[i] # c}
  <1>0. Len(s) \in Nat
    BY LenProperties
  <1>1. CASE I = {}
    <2>1. SelectLastInSeq(s, LAMBDA x : x # c) = 0
      BY <1>1 DEF SelectLastInSeq
    <2>2. TrimRight(s, c) = SubSeq(s, 1, 0)
      BY <2>1 DEF TrimRight
    <2>3. \A i \in 0 + 1 .. Len(s) : s[i] = c
      BY <1>1
    <2>4. 0 \in 0 .. Len(s) /\ ~(0 > 0)
      BY <1>0
    <2>5. QED
      BY <2>2, <2>3, <2>4
  <1>2. CASE I # {}
    <2>1. PICK m : m = Max(I)
      OBVIOUS
    <2>2. SelectLastInSeq(s, LAMBDA x : x # c) = m
      BY <1>2, <2>1 DEF SelectLastInSeq
    <2>3. m \in I /\ \A y \in I : m >= y
      <3>1. I \in SUBSET (0 .. Len(s))
        BY <1>0
      <3>2. QED
        BY <1>0, <1>2, <2>1, <3>1, MaxOfPlaces
    <2>4. m \in 0 .. Len(s) /\ s[m] # c
      BY <1>0, <2>3
    <2>5. TrimRight(s, c) = SubSeq(s, 1, m)
      BY <2>2 DEF TrimRight
    <2>6. \A i \in m + 1 .. Len(s) : s[i] = c
      <3>1. SUFFICES ASSUME NEW i \in m + 1 .. Len(s)
                     PROVE  s[i] = c
        OBVIOUS
      <3>2. i \in 1 .. Len(s) /\ ~(m >= i)
        BY <1>0, <2>4
      <3>3. QED
        BY <2>3, <3>2
    <2>7. QED
      BY <2>4, <2>5, <2>6
  <1>3. QED
    BY <1>1, <1>2

\* Whole and Frac are what is around the first dot.
LEMMA CutIs ==
  ASSUME NEW S, NEW s \in Seq(S)
  PROVE  \/ /\ \A i \in 1 .. Len(s) : s[i] # Dot
            /\ Whole(s) = s /\ Frac(s) = <<>>
         \/ \E k \in 1 .. Len(s) :
              /\ s[k] = Dot /\ \A i \in 1 .. k - 1 : s[i] # Dot
              /\ Whole(s) = SubSeq(s, 1, k - 1) /\ Frac(s) = SubSeq(s, k + 1, Len(s))
  <1> DEFINE I == {i \in 1 .. Len(s) : s[i] = Dot}
  <1>0. Len(s) \in Nat
    BY LenProperties
  <1>1. CASE I = {}
    <2>1. SelectInSeq(s, LAMBDA x : x = Dot) = 0
      BY <1>1 DEF SelectInSeq
    <2>2. Whole(s) = s /\ Frac(s) = <<>>
      BY <2>1 DEF Whole, Frac
    <2>3. QED
      BY <1>1, <2>2
  <1>2. CASE I # {}
    <2>1. PICK m : m = Min(I)
      OBVIOUS
    <2>2. SelectInSeq(s, LAMBDA x : x = Dot) = m
      BY <1>2, <2>1 DEF SelectInSeq
    <2>3. m \in I /\ \A y \in I : m <= y
      <3>1. I \in SUBSET Nat
        BY <1>0
      <3>2. QED
        BY <1>2, <2>1, <3>1, MinOfPlaces
    <2>4. m \in 1 .. Len(s) /\ m # 0 /\ s[m] = Dot
      BY <1>0, <2>3
    <2>5. Whole(s) = SubSeq(s, 1, m - 1) /\ Frac(s) = SubSeq(s, m + 1, Len(s))
      BY <2>2, <2>4 DEF Whole, Frac
    <2>6. \A i \in 1 .. m - 1 : s[i] # Dot
      <3>1. SUFFICES ASSUME NEW i \in 1 .. m - 1
                     PROVE  s[i] # Dot
        OBVIOUS
      <3>2. i \in 1 .. Len(s) /\ ~(m <= i)
        BY <1>0, <2>4
      <3>3. QED
        BY <2>3, <3>2
    <2>7. QED
      BY <2>4, <2>5, <2>6
  <1>3. QED
    BY <1>1, <1>2

-----------------------------------------------------------------------------
(* What is read of a text *)

LEMMA Slice ==
  ASSUME NEW S, NEW s \in Seq(S), NEW m \in Nat \ {0}, NEW n \in Int, n <= Len(s)
  PROVE  /\ SubSeq(s, m, n) \in Seq(S)
         /\ Len(SubSeq(s, m, n)) = IF m <= n THEN n - m + 1 ELSE 0
         /\ \A i \in 1 .. n - m + 1 : SubSeq(s, m, n)[i] = s[m + i - 1]
  <1>1. \A i \in m .. n : i \in 1 .. Len(s)
    <2>1. Len(s) \in Nat
      BY LenProperties
    <2>2. QED
      BY <2>1
  <1>2. \A i \in m .. n : s[i] \in S
    BY <1>1, ElementOfSeq
  <1>3. m \in Int
    OBVIOUS
  <1>4. QED
    BY <1>2, <1>3, SubSeqProperties

LEMMA TrimType ==
  ASSUME NEW S, NEW s \in Seq(S), NEW c
  PROVE  TrimRight(s, c) \in Seq(S) /\ TrimLeft(s, c) \in Seq(S) /\ Trim(s, c) \in Seq(S)
  <1>1. ASSUME NEW t \in Seq(S)
        PROVE  TrimRight(t, c) \in Seq(S)
    <2>1. PICK k \in 0 .. Len(t) : TrimRight(t, c) = SubSeq(t, 1, k)
      BY TrimRightIs
    <2>2. 1 \in Nat \ {0} /\ k \in Int /\ k <= Len(t)
      <3>1. Len(t) \in Nat
        BY LenProperties
      <3>2. QED
        BY <3>1
    <2>3. QED
      BY <2>1, <2>2, Slice
  <1>2. ASSUME NEW t \in Seq(S)
        PROVE  TrimLeft(t, c) \in Seq(S)
    <2>1. PICK k \in 0 .. Len(t) : TrimLeft(t, c) = SubSeq(t, k + 1, Len(t))
      BY TrimLeftIs
    <2>2. k + 1 \in Nat \ {0} /\ Len(t) \in Int /\ Len(t) <= Len(t)
      <3>1. Len(t) \in Nat
        BY LenProperties
      <3>2. QED
        BY <3>1
    <2>3. QED
      BY <2>1, <2>2, Slice
  <1>3. QED
    BY <1>1, <1>2 DEF Trim

\* Nothing is left exactly if there was nothing else.
LEMMA TrimmedAway ==
  ASSUME NEW S, NEW s \in Seq(S), NEW c
  PROVE  Trim(s, c) = <<>> <=> \A i \in 1 .. Len(s) : s[i] = c
  <1>1. PICK k \in 0 .. Len(s) :
          /\ TrimRight(s, c) = SubSeq(s, 1, k)
          /\ \A i \in k + 1 .. Len(s) : s[i] = c
          /\ k > 0 => s[k] # c
    BY TrimRightIs
  <1>2. Len(s) \in Nat /\ k \in Nat /\ k <= Len(s) /\ k \in Int /\ 1 \in Nat \ {0}
    <2>1. Len(s) \in Nat
      BY LenProperties
    <2>2. QED
      BY <2>1
  <1> DEFINE r == SubSeq(s, 1, k)
  <1>3. r \in Seq(S) /\ Len(r) = k /\ \A i \in 1 .. k : r[i] = s[i]
    <2>1. r \in Seq(S) /\ Len(r) = (IF 1 <= k THEN k - 1 + 1 ELSE 0)
          /\ \A i \in 1 .. k - 1 + 1 : r[i] = s[1 + i - 1]
      BY <1>2, Slice
    <2>2. QED
      BY <1>2, <2>1
  <1> HIDE DEF r
  <1>4. PICK j \in 0 .. Len(r) :
          /\ TrimLeft(r, c) = SubSeq(r, j + 1, Len(r))
          /\ \A i \in 1 .. j : r[i] = c
          /\ j < Len(r) => r[j + 1] # c
    BY <1>3, TrimLeftIs
  <1>5. Trim(s, c) = SubSeq(r, j + 1, k)
    BY <1>1, <1>3, <1>4 DEF Trim, r
  <1>6. j \in Nat /\ j <= k
    BY <1>2, <1>3, <1>4
  <1>7. CASE k = 0
    <2>1. SubSeq(r, j + 1, k) = <<>>
      BY <1>6, <1>7, SubSeqEmpty
    <2>2. QED
      BY <1>1, <1>5, <1>7, <2>1
  <1>8. CASE k > 0
    <2>1. s[k] # c /\ k \in 1 .. Len(s) /\ k \in 1 .. k
      BY <1>1, <1>2, <1>8
    <2>2. r[k] # c
      BY <1>3, <2>1
    <2>3. j # k
      <3>1. SUFFICES ASSUME j = k
                     PROVE  FALSE
        OBVIOUS
      <3>2. k \in 1 .. j
        BY <1>2, <1>8, <3>1
      <3>3. QED
        BY <1>4, <2>2, <3>2
    <2>4. j + 1 <= k /\ j + 1 \in Nat \ {0} /\ k <= Len(r)
      BY <1>2, <1>3, <1>6, <2>3
    <2>5. Len(SubSeq(r, j + 1, k)) = k - (j + 1) + 1
      BY <1>2, <1>3, <2>4, Slice
    <2>6. k - (j + 1) + 1 # 0
      BY <1>2, <1>6, <2>4
    <2>7. SubSeq(r, j + 1, k) # <<>>
      <3>1. Len(<<>>) = 0
        OBVIOUS
      <3>2. QED
        BY <2>5, <2>6, <3>1
    <2>8. QED
      BY <1>5, <2>1, <2>7
  <1>9. QED
    BY <1>2, <1>7, <1>8

\* Nothing is taken away where there is nothing of the kind.
LEMMA TrimKeeps ==
  ASSUME NEW S, NEW s \in Seq(S), NEW c, c \notin S
  PROVE  Trim(s, c) = s
  <1>1. Len(s) \in Nat /\ \A i \in 1 .. Len(s) : s[i] # c
    <2>1. Len(s) \in Nat
      BY LenProperties
    <2>2. QED
      BY <2>1, ElementOfSeq
  <1>2. PICK k \in 0 .. Len(s) :
          /\ TrimRight(s, c) = SubSeq(s, 1, k)
          /\ \A i \in k + 1 .. Len(s) : s[i] = c
    BY TrimRightIs
  <1>3. k = Len(s)
    <2>1. SUFFICES ASSUME k # Len(s)
                   PROVE  FALSE
      OBVIOUS
    <2>2. Len(s) \in k + 1 .. Len(s) /\ Len(s) \in 1 .. Len(s)
      BY <1>1, <2>1
    <2>3. QED
      BY <1>1, <1>2, <2>2
  <1>4. TrimRight(s, c) = s
    BY <1>2, <1>3, SubSeqFull
  <1>5. PICK j \in 0 .. Len(s) :
          /\ TrimLeft(s, c) = SubSeq(s, j + 1, Len(s))
          /\ \A i \in 1 .. j : s[i] = c
    BY TrimLeftIs
  <1>6. j = 0
    <2>1. SUFFICES ASSUME j # 0
                   PROVE  FALSE
      OBVIOUS
    <2>2. j \in 1 .. j /\ j \in 1 .. Len(s)
      BY <1>1, <2>1
    <2>3. QED
      BY <1>1, <1>5, <2>2
  <1>7. TrimLeft(s, c) = s
    BY <1>5, <1>6, SubSeqFull
  <1>8. QED
    BY <1>4, <1>7 DEF Trim

\* Without goes through the characters one by one.
LEMMA WithoutSteps ==
  ASSUME NEW S, NEW s \in Seq(S), NEW c
  PROVE  \E f \in [0 .. Len(s) -> Seq(S)] :
           /\ f[0] = <<>>
           /\ \A k \in 1 .. Len(s) :
                f[k] = IF s[k] = c THEN f[k - 1] ELSE Append(f[k - 1], s[k])
           /\ Without(s, c) = f[Len(s)]
  <1> DEFINE n == Len(s)
             Then(k, x) == IF s[k] = c THEN x ELSE Append(x, s[k])
             step == [p \in (1 .. n) \X Seq(S) |-> Then(p[1], p[2])]
             IsUpTo(f) == f = [k \in 0 .. n |->
                                 IF k = 0 THEN <<>>
                                 ELSE IF s[k] = c THEN f[k - 1] ELSE Append(f[k - 1], s[k])]
             upTo == CHOOSE f : IsUpTo(f)
  <1>1. n \in Nat
    BY LenProperties
  <1>2. \A k \in 1 .. n : s[k] \in S
    BY ElementOfSeq
  <1>3. \A k \in 1 .. n : \A x \in Seq(S) : Then(k, x) \in Seq(S)
    BY <1>2, AppendProperties
  <1>4. \A k \in 1 .. n : \A x \in Seq(S) : step[<<k, x>>] = Then(k, x)
    OBVIOUS
  <1> HIDE DEF step
  <1>5. \A k \in 1 .. n : \A x \in Seq(S) : step[<<k, x>>] \in Seq(S)
    BY <1>3, <1>4
  <1>6. PICK f : Goes(f, Seq(S), n, <<>>, step)
    <2>1. <<>> \in Seq(S)
      OBVIOUS
    <2>2. QED
      BY <1>1, <1>5, <2>1, StepsExist
  <1>7. \A k \in 0 .. n : f[k] = IF k = 0 THEN <<>> ELSE Then(k, f[k - 1])
    <2>1. SUFFICES ASSUME NEW k \in 0 .. n, k # 0
                   PROVE  f[k] = Then(k, f[k - 1])
      BY <1>6 DEF Goes
    <2>2. k \in 1 .. n /\ k - 1 \in 0 .. n
      BY <1>1, <2>1
    <2>3. f[k - 1] \in Seq(S) /\ f[k] = step[<<k, f[k - 1]>>]
      BY <1>6, <2>2 DEF Goes
    <2>4. QED
      BY <1>4, <2>2, <2>3
  <1>8. IsUpTo(f)
    <2>1. f \in [0 .. n -> Seq(S)]
      BY <1>6 DEF Goes
    <2>2. QED
      BY <1>7, <2>1
  <1>9. IsUpTo(upTo)
    BY <1>8
  <1>10. Without(s, c) = upTo[n]
    BY DEF Without
  <1> HIDE DEF upTo
  <1>11. \A k \in 0 .. n : upTo[k] = IF k = 0 THEN <<>> ELSE Then(k, upTo[k - 1])
    BY <1>9
  <1>12. \A k \in 0 .. n : upTo[k] \in Seq(S)
    <2> DEFINE T == {k \in Nat : k <= n => upTo[k] \in Seq(S)}
    <2>1. 0 \in T
      <3>1. <<>> \in Seq(S)
        OBVIOUS
      <3>2. upTo[0] = <<>>
        BY <1>1, <1>11
      <3>3. QED
        BY <3>1, <3>2
    <2>2. ASSUME NEW k \in Nat, k \in T
          PROVE  k + 1 \in T
      <3>1. SUFFICES ASSUME k + 1 <= n
                     PROVE  upTo[k + 1] \in Seq(S)
        OBVIOUS
      <3>2. k + 1 \in 0 .. n /\ k + 1 \in 1 .. n /\ k + 1 # 0 /\ (k + 1) - 1 = k
        BY <1>1, <3>1
      <3>3. upTo[k] \in Seq(S)
        BY <1>1, <2>2, <3>1
      <3> HIDE DEF Then
      <3>4. upTo[k + 1] = Then(k + 1, upTo[k])
        BY <1>11, <3>2
      <3>5. QED
        BY <1>3, <3>2, <3>3, <3>4
    <2> HIDE DEF T
    <2>3. \A k \in Nat : k \in T
      BY <2>1, <2>2, NatInducts
    <2>4. QED
      BY <1>1, <2>3 DEF T
  <1>13. upTo \in [0 .. n -> Seq(S)]
    BY <1>9, <1>12
  <1>14. upTo[0] = <<>> /\ \A k \in 1 .. n : upTo[k] = Then(k, upTo[k - 1])
    BY <1>1, <1>11
  <1>15. QED
    BY <1>10, <1>13, <1>14

LEMMA WithoutKeeps ==
  ASSUME NEW S, NEW s \in Seq(S), NEW c
  PROVE  Without(s, c) \in Seq(S) /\ (c \notin S => Without(s, c) = s)
  <1>0. Len(s) \in Nat
    BY LenProperties
  <1>1. PICK f \in [0 .. Len(s) -> Seq(S)] :
          /\ f[0] = <<>>
          /\ \A k \in 1 .. Len(s) :
               f[k] = IF s[k] = c THEN f[k - 1] ELSE Append(f[k - 1], s[k])
          /\ Without(s, c) = f[Len(s)]
    BY WithoutSteps, SMTT(30)
  <1>2. Without(s, c) \in Seq(S)
    BY <1>0, <1>1
  <1>3. ASSUME c \notin S
        PROVE  Without(s, c) = s
    <2> DEFINE T == {k \in Nat : k <= Len(s) => f[k] = SubSeq(s, 1, k)}
    <2>1. 0 \in T
      <3>1. SubSeq(s, 1, 0) = <<>>
        BY SubSeqEmpty
      <3>2. QED
        BY <1>1, <3>1
    <2>2. ASSUME NEW k \in Nat, k \in T
          PROVE  k + 1 \in T
      <3>1. SUFFICES ASSUME k + 1 <= Len(s)
                     PROVE  f[k + 1] = SubSeq(s, 1, k + 1)
        OBVIOUS
      <3>2. k + 1 \in 1 .. Len(s) /\ (k + 1) - 1 = k /\ k \in 0 .. Len(s) /\ k <= Len(s)
            /\ 1 \in 1 .. Len(s) /\ k + 1 \in 1 .. Len(s)
        BY <1>0, <3>1
      <3>3. s[k + 1] \in S /\ s[k + 1] # c
        BY <1>3, <3>2, ElementOfSeq
      <3>4. f[k + 1] = Append(f[k], s[k + 1])
        BY <1>1, <3>2, <3>3
      <3>5. f[k] = SubSeq(s, 1, k) /\ f[k] \in Seq(S)
        BY <1>1, <2>2, <3>2
      <3>6. Append(f[k], s[k + 1]) = f[k] \o <<s[k + 1]>>
        BY <3>3, <3>5, AppendIsConcat
      <3>7. SubSeq(s, 1, k + 1) = SubSeq(s, 1, (k + 1) - 1) \o <<s[k + 1]>>
        BY <3>2, SubSeqRecursiveSecond
      <3>8. QED
        BY <3>2, <3>4, <3>5, <3>6, <3>7
    <2> HIDE DEF T
    <2>3. \A k \in Nat : k \in T
      BY <2>1, <2>2, NatInducts
    <2>4. f[Len(s)] = SubSeq(s, 1, Len(s))
      BY <1>0, <2>3, SMTT(30) DEF T
    <2>5. QED
      BY <1>1, <2>4, SubSeqFull
  <1>4. QED
    BY <1>2, <1>3

\* A sequence is one of whatever all its members are.
LEMMA SeqOfMembers ==
  ASSUME NEW S, NEW s \in Seq(S), NEW T
  PROVE  /\ s \in Seq(T) <=> \A i \in 1 .. Len(s) : s[i] \in T
         /\ s \in Seq(T) <=> ToSet(s) \subseteq T
  <1>1. Len(s) \in Nat /\ DOMAIN s = 1 .. Len(s) /\ s \in [1 .. Len(s) -> S]
    BY LenProperties
  <1>2. s \in Seq(T) => \A i \in 1 .. Len(s) : s[i] \in T
    BY ElementOfSeq
  <1>3. ASSUME \A i \in 1 .. Len(s) : s[i] \in T
        PROVE  s \in Seq(T)
    <2>1. s \in [1 .. Len(s) -> T]
      BY <1>1, <1>3
    <2>2. QED
      BY <1>1, <2>1, SeqDef
  <1>4. ToSet(s) \subseteq T <=> \A i \in 1 .. Len(s) : s[i] \in T
    BY <1>1 DEF ToSet
  <1>5. QED
    BY <1>2, <1>3, <1>4

LEMMA OneBefore ==
  ASSUME NEW S, NEW y \in Seq(S), NEW p \in S
  PROVE  /\ <<p>> \o y \in Seq(S) /\ <<p>> \o y # <<>>
         /\ Head(<<p>> \o y) = p /\ Tail(<<p>> \o y) = y
  <1>1. <<p>> \in Seq(S) /\ Len(<<p>>) = 1 /\ <<p>>[1] = p /\ Len(y) \in Nat
    BY LenProperties
  <1>2. PICK z : z = <<p>> \o y
    OBVIOUS
  <1>3. /\ z \in Seq(S) /\ Len(z) = 1 + Len(y)
        /\ \A i \in 1 .. 1 + Len(y) : z[i] = IF i <= 1 THEN <<p>>[i] ELSE y[i - 1]
    BY <1>1, <1>2, ConcatProperties
  <1>4. z # <<>>
    BY <1>1, <1>3
  <1>5. Head(z) = p
    <2>1. 1 \in 1 .. 1 + Len(y)
      BY <1>1
    <2>2. z[1] = p
      BY <1>1, <1>3, <2>1
    <2>3. QED
      BY <1>3, <1>4, <2>2
  <1>6. Tail(z) = y
    <2>1. /\ Tail(z) \in Seq(S) /\ Len(Tail(z)) = Len(y)
          /\ \A i \in 1 .. Len(y) : Tail(z)[i] = z[i + 1]
      <3>1. /\ Tail(z) \in Seq(S) /\ Len(Tail(z)) = Len(z) - 1
            /\ \A i \in 1 .. Len(Tail(z)) : Tail(z)[i] = z[i + 1]
        BY <1>3, <1>4, HeadTailProperties
      <3>2. Len(z) - 1 = Len(y)
        BY <1>1, <1>3
      <3>3. QED
        BY <3>1, <3>2
    <2>2. \A i \in 1 .. Len(y) : z[i + 1] = y[i]
      <3>1. SUFFICES ASSUME NEW i \in 1 .. Len(y)
                     PROVE  z[i + 1] = y[i]
        OBVIOUS
      <3>2. i + 1 \in 1 .. 1 + Len(y) /\ ~(i + 1 <= 1) /\ (i + 1) - 1 = i
        BY <1>1
      <3>3. QED
        BY <1>3, <3>2
    <2>3. QED
      BY <2>1, <2>2, SeqEqual
  <1>7. QED
    BY <1>2, <1>3, <1>4, <1>5, <1>6

LEMMA HeadAndTail ==
  ASSUME NEW S, NEW s \in Seq(S), s # <<>>
  PROVE  Head(s) \in S /\ Tail(s) \in Seq(S) /\ s = <<Head(s)>> \o Tail(s) /\ Head(s) = s[1]
  <1>1. Len(s) \in Nat \ {0}
    BY EmptySeq
  <1>2. Head(s) = s[1]
    OBVIOUS
  <1>3. Head(s) \in S /\ Tail(s) \in Seq(S) /\ Tail(s) = SubSeq(s, 2, Len(s))
    BY HeadTailProperties, TailIsSubSeq
  <1>4. s = <<s[1]>> \o SubSeq(s, 2, Len(s))
    <2>1. 1 \in 1 .. Len(s) /\ Len(s) \in 1 .. Len(s)
      BY <1>1
    <2>2. SubSeq(s, 1, Len(s)) = <<s[1]>> \o SubSeq(s, 1 + 1, Len(s))
      BY <2>1, SubSeqRecursiveFirst
    <2>3. QED
      BY <2>2, SubSeqFull
  <1>5. QED
    BY <1>2, <1>3, <1>4

LEMMA CutType ==
  ASSUME NEW S, NEW s \in Seq(S)
  PROVE  Whole(s) \in Seq(S) /\ Frac(s) \in Seq(S)
  <1>0. Len(s) \in Nat /\ <<>> \in Seq(S)
    BY LenProperties
  <1>1. CASE Whole(s) = s /\ Frac(s) = <<>>
    BY <1>0, <1>1
  <1>2. ASSUME NEW k \in 1 .. Len(s),
               Whole(s) = SubSeq(s, 1, k - 1), Frac(s) = SubSeq(s, k + 1, Len(s))
        PROVE  Whole(s) \in Seq(S) /\ Frac(s) \in Seq(S)
    <2>1. /\ 1 \in Nat \ {0} /\ k - 1 \in Int /\ k - 1 <= Len(s)
          /\ k + 1 \in Nat \ {0} /\ Len(s) \in Int /\ Len(s) <= Len(s)
      BY <1>0
    <2>2. QED
      BY <1>2, <2>1, Slice
  <1>3. QED
    BY <1>1, <1>2, CutIs

LEMMA SliceOfTail ==
  ASSUME NEW S, NEW s \in Seq(S), s # <<>>,
         NEW m \in Nat \ {0}, NEW n \in Int, n <= Len(s) - 1
  PROVE  SubSeq(Tail(s), m, n) = SubSeq(s, m + 1, n + 1)
  <1>1. Len(s) \in Nat \ {0}
    BY EmptySeq
  <1>2. /\ Tail(s) \in Seq(S) /\ Len(Tail(s)) = Len(s) - 1
        /\ \A i \in 1 .. Len(s) - 1 : Tail(s)[i] = s[i + 1]
    BY HeadTailProperties
  <1>3. n <= Len(Tail(s)) /\ m + 1 \in Nat \ {0} /\ n + 1 \in Int /\ n + 1 <= Len(s)
    BY <1>1, <1>2
  <1>4. /\ SubSeq(Tail(s), m, n) \in Seq(S)
        /\ Len(SubSeq(Tail(s), m, n)) = IF m <= n THEN n - m + 1 ELSE 0
        /\ \A i \in 1 .. n - m + 1 : SubSeq(Tail(s), m, n)[i] = Tail(s)[m + i - 1]
    BY <1>2, <1>3, Slice
  <1>5. /\ SubSeq(s, m + 1, n + 1) \in Seq(S)
        /\ Len(SubSeq(s, m + 1, n + 1)) = IF m + 1 <= n + 1 THEN (n + 1) - (m + 1) + 1 ELSE 0
        /\ \A i \in 1 .. (n + 1) - (m + 1) + 1 : SubSeq(s, m + 1, n + 1)[i] = s[(m + 1) + i - 1]
    BY <1>3, Slice
  <1>6. Len(SubSeq(Tail(s), m, n)) = Len(SubSeq(s, m + 1, n + 1))
    BY <1>4, <1>5
  <1>7. ASSUME NEW i \in 1 .. Len(SubSeq(Tail(s), m, n))
        PROVE  SubSeq(Tail(s), m, n)[i] = SubSeq(s, m + 1, n + 1)[i]
    <2>1. i \in 1 .. n - m + 1 /\ i \in 1 .. (n + 1) - (m + 1) + 1
      BY <1>4
    <2>2. m + i - 1 \in 1 .. Len(s) - 1 /\ (m + i - 1) + 1 = (m + 1) + i - 1
      BY <1>1, <2>1
    <2>3. Tail(s)[m + i - 1] = s[(m + 1) + i - 1]
      BY <1>2, <2>2
    <2>4. QED
      BY <1>4, <1>5, <2>1, <2>3
  <1>8. QED
    BY <1>4, <1>5, <1>6, <1>7, SeqEqual

\* A sign in front is cut with what is before the dot.
LEMMA SignedCut ==
  ASSUME NEW S, NEW s \in Seq(S), s # <<>>, s[1] # Dot
  PROVE  /\ Whole(s) = <<s[1]>> \o Whole(Tail(s))
         /\ Frac(s) = Frac(Tail(s))
  <1> DEFINE b == Tail(s)
             n == Len(s)
  <1>1. n \in Nat \ {0}
    BY EmptySeq
  <1>2. b \in Seq(S) /\ Len(b) = n - 1 /\ \A i \in 1 .. n - 1 : b[i] = s[i + 1]
    BY HeadTailProperties
  <1>3. s = <<s[1]>> \o b
    BY HeadAndTail
  <1> HIDE DEF b
  <1>4. CASE /\ \A i \in 1 .. n : s[i] # Dot
             /\ Whole(s) = s /\ Frac(s) = <<>>
    <2>1. \A i \in 1 .. Len(b) : b[i] # Dot
      <3>1. SUFFICES ASSUME NEW i \in 1 .. Len(b)
                     PROVE  b[i] # Dot
        OBVIOUS
      <3>2. i \in 1 .. n - 1 /\ i + 1 \in 1 .. n
        BY <1>1, <1>2
      <3>3. QED
        BY <1>2, <1>4, <3>2
    <2>2. Whole(b) = b /\ Frac(b) = <<>>
      BY <1>2, <2>1, CutIs
    <2>3. QED
      BY <1>3, <1>4, <2>2 DEF b
  <1>5. ASSUME NEW k \in 1 .. n,
               s[k] = Dot, \A i \in 1 .. k - 1 : s[i] # Dot,
               Whole(s) = SubSeq(s, 1, k - 1), Frac(s) = SubSeq(s, k + 1, n)
        PROVE  Whole(s) = <<s[1]>> \o Whole(b) /\ Frac(s) = Frac(b)
    <2>1. k # 1 /\ k - 1 \in 1 .. n - 1 /\ (k - 1) + 1 = k
      BY <1>1, <1>5
    <2>2. b[k - 1] = Dot /\ k - 1 \in 1 .. Len(b)
      BY <1>2, <1>5, <2>1
    <2>3. PICK j \in 1 .. Len(b) :
            /\ b[j] = Dot /\ \A i \in 1 .. j - 1 : b[i] # Dot
            /\ Whole(b) = SubSeq(b, 1, j - 1) /\ Frac(b) = SubSeq(b, j + 1, Len(b))
      BY <1>2, <2>2, CutIs
    <2>4. j = k - 1
      <3>1. j \in 1 .. n - 1 /\ j + 1 \in 1 .. n
        BY <1>1, <1>2
      <3>2. s[j + 1] = Dot
        BY <1>2, <2>3, <3>1
      <3>3. ~(j + 1 \in 1 .. k - 1)
        BY <1>5, <3>2
      <3>4. ~(k - 1 \in 1 .. j - 1)
        BY <2>2, <2>3
      <3>5. QED
        BY <1>1, <2>1, <3>1, <3>3, <3>4
    <2>5. Whole(b) = SubSeq(s, 2, k - 1)
      <3>1. 1 \in Nat \ {0} /\ k - 2 \in Int /\ k - 2 <= n - 1 /\ 1 + 1 = 2 /\ (k - 2) + 1 = k - 1
            /\ (k - 1) - 1 = k - 2
        BY <1>1
      <3>2. SubSeq(b, 1, k - 2) = SubSeq(s, 1 + 1, (k - 2) + 1)
        BY <3>1, SliceOfTail DEF b
      <3>3. QED
        BY <2>3, <2>4, <3>1, <3>2
    <2>6. Frac(b) = SubSeq(s, k + 1, n)
      <3>1. k \in Nat \ {0} /\ n - 1 \in Int /\ n - 1 <= n - 1 /\ (n - 1) + 1 = n
            /\ (k - 1) + 1 = k
        BY <1>1
      <3>2. SubSeq(b, k, n - 1) = SubSeq(s, k + 1, (n - 1) + 1)
        BY <3>1, SliceOfTail DEF b
      <3>3. QED
        BY <1>2, <2>3, <2>4, <3>1, <3>2
    <2>7. SubSeq(s, 1, k - 1) = <<s[1]>> \o SubSeq(s, 2, k - 1)
      <3>1. 1 \in 1 .. Len(s) /\ k - 1 \in 1 .. Len(s) /\ 1 + 1 = 2
        BY <1>1, <2>1
      <3>2. SubSeq(s, 1, k - 1) = <<s[1]>> \o SubSeq(s, 1 + 1, k - 1)
        BY <3>1, SubSeqRecursiveFirst
      <3>3. QED
        BY <3>1, <3>2
    <2>8. QED
      BY <1>5, <2>5, <2>6, <2>7
  <1>6. QED
    BY <1>4, <1>5, CutIs DEF b

LEMMA BareIs ==
  ASSUME NEW text \in Seq(Character)
  PROVE  /\ Plain(text) \in Seq(Character) /\ Bare(text) \in Seq(Character)
         /\ \/ /\ Plain(text) # <<>> /\ Head(Plain(text)) = Plus
               /\ Bare(text) = Tail(Plain(text))
            \/ /\ Plain(text) = <<>> \/ Head(Plain(text)) # Plus
               /\ Bare(text) = Plain(text)
  <1>1. Plain(text) \in Seq(Character)
    BY TrimType, WithoutKeeps DEF Plain
  <1>2. CASE Plain(text) # <<>> /\ Head(Plain(text)) = Plus
    <2>1. Bare(text) = Tail(Plain(text))
      BY <1>2 DEF Bare
    <2>2. QED
      BY <1>1, <1>2, <2>1, HeadAndTail
  <1>3. CASE ~(Plain(text) # <<>> /\ Head(Plain(text)) = Plus)
    BY <1>1, <1>3 DEF Bare
  <1>4. QED
    BY <1>2, <1>3

\* A text is well formed if there are digits around the dot.
LEMMA WellFormedIs ==
  ASSUME NEW text \in Seq(Character)
  PROVE  WellFormed(text) <=> /\ Whole(Bare(text)) \in Seq(Digit)
                              /\ Frac(Bare(text)) \in Seq(Digit)
  <1> DEFINE b == Bare(text)
             n == Len(b)
  <1>1. b \in Seq(Character)
    BY BareIs
  <1>2. n \in Nat /\ DOMAIN b = 1 .. n
    BY <1>1, LenProperties
  <1>3. WellFormed(text) <=> /\ \A i \in 1 .. n : b[i] \in Digit \union {Dot}
                             /\ \A j, k \in 1 .. n : b[j] = Dot /\ b[k] = Dot => j = k
    <2>1. ToSet(b) \subseteq Digit \union {Dot} <=> \A i \in 1 .. n : b[i] \in Digit \union {Dot}
      BY <1>2 DEF ToSet
    <2>2. QED
      BY <1>2, <2>1 DEF WellFormed
  <1>4. Dot \notin Digit
    BY DEF Dot, Digit
  <1> HIDE DEF b
  <1>5. CASE /\ \A i \in 1 .. n : b[i] # Dot
             /\ Whole(b) = b /\ Frac(b) = <<>>
    <2>1. WellFormed(text) <=> \A i \in 1 .. n : b[i] \in Digit
      BY <1>3, <1>5
    <2>2. b \in Seq(Digit) <=> \A i \in 1 .. n : b[i] \in Digit
      BY <1>1, SeqOfMembers
    <2>3. <<>> \in Seq(Digit)
      OBVIOUS
    <2>4. QED
      BY <1>5, <2>1, <2>2, <2>3 DEF b
  <1>6. ASSUME NEW k \in 1 .. n,
               b[k] = Dot, \A i \in 1 .. k - 1 : b[i] # Dot,
               Whole(b) = SubSeq(b, 1, k - 1), Frac(b) = SubSeq(b, k + 1, n)
        PROVE  WellFormed(text) <=> Whole(b) \in Seq(Digit) /\ Frac(b) \in Seq(Digit)
    <2>1. /\ Whole(b) \in Seq(Character) /\ Len(Whole(b)) = k - 1
          /\ \A i \in 1 .. k - 1 : Whole(b)[i] = b[i]
      <3>1. 1 \in Nat \ {0} /\ k - 1 \in Int /\ k - 1 <= Len(b)
        BY <1>2
      <3>2. /\ SubSeq(b, 1, k - 1) \in Seq(Character)
            /\ Len(SubSeq(b, 1, k - 1)) = IF 1 <= k - 1 THEN (k - 1) - 1 + 1 ELSE 0
            /\ \A i \in 1 .. (k - 1) - 1 + 1 : SubSeq(b, 1, k - 1)[i] = b[1 + i - 1]
        BY <1>1, <3>1, Slice
      <3>3. (IF 1 <= k - 1 THEN (k - 1) - 1 + 1 ELSE 0) = k - 1 /\ (k - 1) - 1 + 1 = k - 1
        OBVIOUS
      <3>4. \A i \in 1 .. k - 1 : 1 + i - 1 = i
        OBVIOUS
      <3>5. QED
        BY <1>6, <3>2, <3>3, <3>4
    <2>2. /\ Frac(b) \in Seq(Character) /\ Len(Frac(b)) = n - k
          /\ \A i \in 1 .. n - k : Frac(b)[i] = b[k + i]
      <3>1. k + 1 \in Nat \ {0} /\ n \in Int /\ n <= Len(b)
        BY <1>2
      <3>2. /\ SubSeq(b, k + 1, n) \in Seq(Character)
            /\ Len(SubSeq(b, k + 1, n)) = IF k + 1 <= n THEN n - (k + 1) + 1 ELSE 0
            /\ \A i \in 1 .. n - (k + 1) + 1 : SubSeq(b, k + 1, n)[i] = b[(k + 1) + i - 1]
        BY <1>1, <3>1, Slice
      <3>3. (IF k + 1 <= n THEN n - (k + 1) + 1 ELSE 0) = n - k /\ n - (k + 1) + 1 = n - k
        <4>1. k \in Nat /\ k <= n
          BY <1>2
        <4>2. CASE k = n
          BY <1>2, <4>1, <4>2
        <4>3. CASE k + 1 <= n
          BY <1>2, <4>1, <4>3
        <4>4. k = n \/ k + 1 <= n
          <5>1. \A i, j \in Nat : i <= j => i = j \/ i + 1 <= j
            OBVIOUS
          <5>2. QED
            BY <1>2, <4>1, <5>1
        <4>5. QED
          BY <4>2, <4>3, <4>4
      <3>4. \A i \in 1 .. n - k : (k + 1) + i - 1 = k + i
        BY <1>2
      <3>5. QED
        BY <1>6, <3>2, <3>3, <3>4
    <2>3. Whole(b) \in Seq(Digit) <=> \A i \in 1 .. k - 1 : b[i] \in Digit
      BY <2>1, SeqOfMembers
    <2>4. Frac(b) \in Seq(Digit) <=> \A i \in 1 .. n - k : b[k + i] \in Digit
      BY <2>2, SeqOfMembers
    <2>5. ASSUME WellFormed(text)
          PROVE  Whole(b) \in Seq(Digit) /\ Frac(b) \in Seq(Digit)
      <3>1. \A i \in 1 .. n : i # k => b[i] \in Digit
        BY <1>3, <1>6, <2>5
      <3>2. \A i \in 1 .. k - 1 : i \in 1 .. n /\ i # k
        BY <1>2
      <3>3. \A i \in 1 .. n - k : k + i \in 1 .. n /\ k + i # k
        BY <1>2
      <3>4. QED
        BY <2>3, <2>4, <3>1, <3>2, <3>3
    <2>6. ASSUME Whole(b) \in Seq(Digit), Frac(b) \in Seq(Digit)
          PROVE  WellFormed(text)
      <3>1. ASSUME NEW i \in 1 .. n, i # k
            PROVE  b[i] \in Digit
        <4>1. CASE i < k
          <5>1. i \in 1 .. k - 1
            BY <4>1
          <5>2. QED
            BY <2>3, <2>6, <5>1
        <4>2. CASE ~(i < k)
          <5>1. i - k \in 1 .. n - k /\ k + (i - k) = i
            BY <1>2, <3>1, <4>2
          <5>2. QED
            BY <2>4, <2>6, <5>1
        <4>3. QED
          BY <4>1, <4>2
      <3>2. QED
        BY <1>3, <1>4, <1>6, <3>1
    <2>7. QED
      BY <2>5, <2>6
  <1>7. QED
    BY <1>1, <1>5, <1>6, CutIs DEF b

\* Digits behind what is before the dot are read as the number they are with what
\* is before the dot in the bare text.
LEMMA ReadAsNumber ==
  ASSUME NEW text \in Seq(Character), NEW x \in Seq(Character),
         Plain(text) # <<>>, Head(Plain(text)) # Minus
  PROVE  LET s == Plain(text)
             digits == (IF Whole(s) = <<>> THEN <<0>> ELSE Whole(s)) \o x
             y == Whole(Bare(text)) \o x
         IN  /\ Frac(s) = Frac(Bare(text))
             /\ IsNumber(digits) => y \in Seq(Digit) /\ Number(digits) = Worth(y)
             /\ ~IsNumber(digits) /\ y \in Seq(Digit) => y = <<>>
  <1> DEFINE s == Plain(text)
             b == Bare(text)
             w == IF Whole(s) = <<>> THEN <<0>> ELSE Whole(s)
             digits == w \o x
             y == Whole(b) \o x
             Claim == /\ Frac(s) = Frac(b)
                      /\ IsNumber(digits) => y \in Seq(Digit) /\ Number(digits) = Worth(y)
                      /\ ~IsNumber(digits) /\ y \in Seq(Digit) => y = <<>>
  <1>0. SUFFICES Claim
    OBVIOUS
  <1>1. s \in Seq(Character) /\ b \in Seq(Character) /\ s # <<>> /\ Head(s) # Minus
    BY BareIs
  <1>2. Head(s) = s[1] /\ Head(s) \in Character
    BY <1>1, HeadAndTail
  <1>3. Whole(s) \in Seq(Character) /\ Whole(b) \in Seq(Character) /\ y \in Seq(Character)
    BY <1>1, CutType, ConcatProperties
  <1>4. y \in Seq(Digit) <=> ToSet(y) \subseteq Digit
    BY <1>3, SeqOfMembers
  <1>5. (s[1] = Plus /\ b = Tail(s)) \/ (s[1] # Plus /\ b = s)
    BY <1>1, <1>2, BareIs
  <1> HIDE DEF s, b
  <1>6. CASE s[1] = Plus /\ b = Tail(s)
    <2>1. Plus # Dot /\ Plus \in Character
      BY DEF Plus, Dot, Character, Space
    <2>2. Whole(s) = <<Plus>> \o Whole(b) /\ Frac(s) = Frac(b)
      BY <1>1, <1>6, <2>1, SignedCut
    <2>3. Whole(s) # <<>>
      BY <1>3, <2>1, <2>2, OneBefore
    <2>4. digits = <<Plus>> \o y
      <3>1. <<Plus>> \in Seq(Character)
        BY <2>1
      <3>2. digits = (<<Plus>> \o Whole(b)) \o x
        BY <2>2, <2>3
      <3>3. Whole(b) \in Seq(Character) /\ x \in Seq(Character)
        BY <1>3
      <3>4. (<<Plus>> \o Whole(b)) \o x = <<Plus>> \o (Whole(b) \o x)
        BY <3>1, <3>3, ConcatAssociative
      <3>5. QED
        BY <3>2, <3>4
    <2> HIDE DEF digits, y
    <2>5. digits # <<>> /\ Head(digits) = Plus /\ Tail(digits) = y
      BY <1>3, <2>1, <2>4, OneBefore
    <2>6. Unsigned(digits) = y
      BY <2>5 DEF Unsigned
    <2>7. QED
      BY <1>4, <2>2, <2>6 DEF IsNumber, Number
  <1>7. CASE s[1] # Plus /\ b = s
    <2>1. CASE Whole(s) = <<>>
      <3>1. y = x
        BY <1>7, <2>1, ConcatEmptySeq
      <3>2. 0 \in Character /\ 0 \notin {Plus, Minus} /\ 0 \in Digit
        BY DEF Plus, Minus, Character, Space, Digit
      <3>3. digits = <<0>> \o x
        BY <2>1
      <3> HIDE DEF digits, y
      <3>4. digits # <<>> /\ Head(digits) = 0 /\ Tail(digits) = x /\ digits \in Seq(Character)
        BY <3>2, <3>3, OneBefore
      <3>5. Unsigned(digits) = digits
        BY <3>2, <3>4 DEF Unsigned
      <3>6. IsNumber(digits) <=> digits \in Seq(Digit)
        BY <3>4, <3>5, SeqOfMembers DEF IsNumber
      <3>7. ASSUME x \in Seq(Digit)
            PROVE  digits \in Seq(Digit) /\ Worth(digits) = Worth(x)
        <4>1. digits \in Seq(Digit)
          BY <3>2, <3>3, <3>7, OneBefore
        <4>2. x \in Seq(Nat) /\ <<0>> \in Seq(Nat) /\ <<>> \in Seq(Nat) /\ 0 \in Nat
          BY <3>7, WorthBound
        <4>3. Worth(digits) = Worth(<<0>>) * TenTo(Len(x)) + Worth(x)
          BY <3>3, <4>2, WorthConcat
        <4>4. Worth(<<0>>) = 0
          <5>1. <<0>> = Append(<<>>, 0)
            OBVIOUS
          <5>2. Worth(Append(<<>>, 0)) = 10 * Worth(<<>>) + 0
            BY <4>2, WorthAppend
          <5>3. QED
            BY <5>1, <5>2, WorthEmpty
        <4>5. TenTo(Len(x)) \in Nat /\ Worth(x) \in Nat
          <5>1. Len(x) \in Nat
            BY LenProperties
          <5>2. QED
            BY <4>2, <5>1, TenToType, WorthType
        <4>6. QED
          BY <4>1, <4>3, <4>4, <4>5
      <3>8. digits \in Seq(Digit) => x \in Seq(Digit)
        BY <3>4, HeadTailProperties
      <3>9. QED
        BY <1>7, <3>1, <3>5, <3>6, <3>7, <3>8 DEF Number
    <2>2. CASE Whole(s) # <<>>
      <3>1. digits = y
        BY <1>7, <2>2
      <3>2. Len(Whole(s)) \in Nat \ {0} /\ Whole(s)[1] = s[1]
        <4>1. Len(Whole(s)) \in Nat \ {0}
          BY <1>3, <2>2, EmptySeq
        <4>2. CASE Whole(s) = s
          BY <4>1, <4>2
        <4>3. ASSUME NEW k \in 1 .. Len(s), Whole(s) = SubSeq(s, 1, k - 1)
              PROVE  Whole(s)[1] = s[1]
          <5>1. Len(s) \in Nat
            BY <1>1, LenProperties
          <5>2. 1 \in Nat \ {0} /\ k - 1 \in Int /\ k - 1 <= Len(s) /\ (k - 1) - 1 + 1 = k - 1
            BY <5>1
          <5>3. /\ Len(SubSeq(s, 1, k - 1)) = IF 1 <= k - 1 THEN (k - 1) - 1 + 1 ELSE 0
                /\ \A i \in 1 .. (k - 1) - 1 + 1 : SubSeq(s, 1, k - 1)[i] = s[1 + i - 1]
            BY <1>1, <5>2, Slice
          <5>4. 1 \in 1 .. (k - 1) - 1 + 1 /\ 1 + 1 - 1 = 1
            BY <4>1, <4>3, <5>1, <5>3
          <5>5. QED
            BY <4>3, <5>3, <5>4
        <4>4. QED
          BY <1>1, <4>1, <4>2, <4>3, CutIs
      <3>3. digits \in Seq(Character) /\ digits # <<>> /\ digits[1] = s[1]
        <4>1. /\ Whole(s) \o x \in Seq(Character)
              /\ Len(Whole(s) \o x) = Len(Whole(s)) + Len(x)
              /\ \A i \in 1 .. Len(Whole(s)) + Len(x) :
                   (Whole(s) \o x)[i] = IF i <= Len(Whole(s)) THEN Whole(s)[i] ELSE x[i - Len(Whole(s))]
          BY <1>3, ConcatProperties
        <4>2. Len(x) \in Nat
          BY LenProperties
        <4>3. 1 \in 1 .. Len(Whole(s)) + Len(x) /\ 1 <= Len(Whole(s)) /\ Len(Whole(s)) + Len(x) # 0
          BY <3>2, <4>2
        <4>4. (Whole(s) \o x)[1] = s[1] /\ Whole(s) \o x # <<>>
          <5>1. (Whole(s) \o x)[1] = s[1]
            BY <3>2, <4>1, <4>3
          <5>2. Len(<<>>) = 0
            OBVIOUS
          <5>3. QED
            BY <4>1, <4>3, <5>1, <5>2
        <4>5. digits = Whole(s) \o x
          BY <2>2
        <4>6. QED
          BY <4>1, <4>4, <4>5
      <3> HIDE DEF digits, y
      <3>4. Head(digits) = s[1] /\ Head(digits) \notin {Plus, Minus}
        BY <1>1, <1>2, <1>7, <3>3, HeadAndTail
      <3>5. Unsigned(digits) = y
        BY <3>1, <3>4 DEF Unsigned
      <3>6. QED
        BY <1>4, <1>7, <3>5 DEF IsNumber, Number
    <2>3. QED
      BY <2>1, <2>2
  <1>8. QED
    BY <1>5, <1>6, <1>7

-----------------------------------------------------------------------------
(* Scaling *)

LEMMA OnlyZeros ==
  ASSUME NEW S, NEW e \in Seq(S), \A i \in 1 .. Len(e) : e[i] = 0
  PROVE  e = Zeros(Len(e))
  <1>1. Len(e) \in Nat
    BY LenProperties
  <1>2. e \in Seq({0})
    <2>1. \A i \in 1 .. Len(e) : e[i] \in {0}
      OBVIOUS
    <2>2. QED
      BY <2>1, SeqOfMembers
  <1>3. PICK z : z = Zeros(Len(e))
    OBVIOUS
  <1>4. z \in Seq({0}) /\ Len(z) = Len(e)
    BY <1>1, <1>3, ZerosType
  <1>5. \A i \in 1 .. Len(e) : e[i] = z[i]
    <2>1. \A i \in 1 .. Len(z) : z[i] \in {0}
      BY <1>4, ElementOfSeq
    <2>2. QED
      BY <1>4, <2>1
  <1>6. e = z
    BY <1>2, <1>4, <1>5, SeqEqual
  <1>7. QED
    BY <1>3, <1>6

\* What fits loses nothing but zeros; what does not has more digits than there
\* is room for, and not only zeros.
LEMMA FitIs ==
  ASSUME NEW frac \in Seq(Character), NEW decimals \in Nat
  PROVE  /\ Fit(frac, decimals) \in Seq(Character)
         /\ Len(Fit(frac, decimals)) <= decimals =>
              \E n \in Nat : /\ frac = Fit(frac, decimals) \o Zeros(n)
                             /\ Len(frac) = Len(Fit(frac, decimals)) + n
         /\ Len(Fit(frac, decimals)) > decimals =>
              \E h, e \in Seq(Character) :
                /\ frac = h \o e /\ Len(h) = decimals
                /\ \E i \in 1 .. Len(e) : e[i] # 0
  <1> DEFINE n == Len(frac)
             e == SubSeq(frac, decimals + 1, n)
             h == SubSeq(frac, 1, decimals)
  <1>1. n \in Nat
    BY LenProperties
  <1>2. CASE n < decimals
    <2>1. e = <<>>
      BY <1>1, <1>2, SubSeqEmpty
    <2>2. Trim(e, 0) = <<>>
      <3>1. <<>> \in Seq(Character) /\ \A i \in 1 .. Len(<<>>) : <<>>[i] = 0
        OBVIOUS
      <3>2. QED
        BY <2>1, <3>1, TrimmedAway
    <2>3. Fit(frac, decimals) = frac
      BY <1>2, <2>2, SubSeqFull DEF Fit
    <2>4. frac = frac \o Zeros(0) /\ n = n + 0
      <3>1. Zeros(0) = <<>>
        BY ZerosType, EmptySeq
      <3>2. QED
        BY <1>1, <3>1, ConcatEmptySeq
    <2>5. ~(Len(frac) > decimals) /\ 0 \in Nat
      BY <1>1, <1>2
    <2>6. QED
      BY <2>3, <2>4, <2>5
  <1>3. CASE n >= decimals
    <2>1. h \in Seq(Character) /\ Len(h) = decimals
      <3>1. 1 \in Nat \ {0} /\ decimals \in Int /\ decimals <= Len(frac)
        BY <1>1, <1>3
      <3>2. h \in Seq(Character) /\ Len(h) = IF 1 <= decimals THEN decimals - 1 + 1 ELSE 0
        BY <3>1, Slice
      <3>3. QED
        BY <3>2
    <2>2. e \in Seq(Character) /\ Len(e) = n - decimals
      <3>1. decimals + 1 \in Nat \ {0} /\ n \in Int /\ n <= Len(frac)
        BY <1>1
      <3>2. e \in Seq(Character) /\ Len(e) = IF decimals + 1 <= n THEN n - (decimals + 1) + 1 ELSE 0
        BY <3>1, Slice
      <3>3. CASE decimals + 1 <= n
        BY <1>1, <3>2, <3>3
      <3>4. CASE decimals = n
        BY <1>1, <3>2, <3>4
      <3>5. decimals + 1 <= n \/ decimals = n
        BY <1>1, <1>3
      <3>6. QED
        BY <3>3, <3>4, <3>5
    <2>3. frac = h \o e
      <3>1. 1 \in 1 .. Len(frac) + 1 /\ decimals \in 1 - 1 .. Len(frac) /\ n \in decimals .. Len(frac)
        BY <1>1, <1>3
      <3>2. SubSeq(frac, 1, decimals) \o SubSeq(frac, decimals + 1, n) = SubSeq(frac, 1, n)
        BY <3>1, ConcatAdjacentSubSeq
      <3>3. QED
        BY <3>2, SubSeqFull
    <2>4. CASE Trim(e, 0) = <<>>
      <3>1. Fit(frac, decimals) = h
        BY <1>1, <1>3, <2>4 DEF Fit
      <3> HIDE DEF e, h
      <3>2. \A i \in 1 .. Len(e) : e[i] = 0
        BY <2>2, <2>4, TrimmedAway
      <3>3. e = Zeros(n - decimals)
        BY <2>2, <3>2, OnlyZeros
      <3>4. n - decimals \in Nat /\ n = Len(h) + (n - decimals) /\ ~(Len(h) > decimals)
        BY <1>1, <1>3, <2>1
      <3>5. QED
        BY <2>1, <2>3, <3>1, <3>3, <3>4
    <2>5. CASE Trim(e, 0) # <<>>
      <3>1. Fit(frac, decimals) = frac
        BY <2>5 DEF Fit
      <3> HIDE DEF e, h
      <3>2. PICK i \in 1 .. Len(e) : e[i] # 0
        BY <2>2, <2>5, TrimmedAway
      <3>3. ~(Len(frac) <= decimals)
        BY <1>1, <2>2, <3>2
      <3>4. QED
        BY <2>1, <2>2, <2>3, <3>1, <3>2, <3>3
    <2>6. QED
      BY <2>4, <2>5
  <1>4. n < decimals \/ n >= decimals
    BY <1>1
  <1>5. QED
    BY <1>2, <1>3, <1>4

LEMMA Divides ==
  ASSUME NEW x \in Nat, NEW z \in Nat, z > 0, x % z = 0
  PROVE  \E q \in Int : x = q * z
  OBVIOUS

LEMMA ProductType == \A u, v \in Nat : u * v \in Nat
  OBVIOUS

LEMMA SameScale ==
  ASSUME NEW a \in Nat, NEW p \in Nat, NEW q \in Nat, NEW r \in Nat, NEW s \in Nat,
         p + q = r + s
  PROVE  (a * TenTo(p)) * TenTo(q) = (a * TenTo(r)) * TenTo(s)
  <1>1. TenTo(p) \in Nat /\ TenTo(q) \in Nat /\ TenTo(r) \in Nat /\ TenTo(s) \in Nat
    BY TenToType
  <1>2. \A u, v \in Nat : (a * u) * v = a * (u * v)
    OBVIOUS
  <1>3. TenTo(p) * TenTo(q) = TenTo(p + q) /\ TenTo(r) * TenTo(s) = TenTo(r + s)
    BY TenToAdds
  <1>4. (a * TenTo(p)) * TenTo(q) = a * (TenTo(p) * TenTo(q))
    BY <1>1, <1>2
  <1>5. (a * TenTo(r)) * TenTo(s) = a * (TenTo(r) * TenTo(s))
    BY <1>1, <1>2
  <1>6. QED
    BY <1>3, <1>4, <1>5

\* A remainder stays one when both sides are scaled.
LEMMA NoWholeUnits ==
  ASSUME NEW a \in Nat, NEW r \in Nat, NEW t \in Nat \ {0}, NEW u \in Nat \ {0},
         0 < r, r < t
  PROVE  ((a * t + r) * u) % (u * t) # 0
  <1> DEFINE m == a * t + r
             y == u * t
  <1>1. a * t \in Nat /\ m \in Nat /\ m * u \in Nat /\ y \in Nat /\ y > 0
    <2>1. a * t \in Nat
      OBVIOUS
    <2>2. m \in Nat
      BY <2>1
    <2> HIDE DEF m
    <2>3. m * u \in Nat
      BY <2>2
    <2>4. \A v, w \in Nat \ {0} : v * w \in Nat /\ v * w > 0
      OBVIOUS
    <2>5. y \in Nat /\ y > 0
      BY <2>4
    <2>6. QED
      BY <2>1, <2>2, <2>3, <2>5
  <1>2. SUFFICES ASSUME (m * u) % y = 0
                 PROVE  FALSE
    OBVIOUS
  <1>4. PICK x : x = m * u
    OBVIOUS
  <1> HIDE DEF m
  <1>5. PICK z : z = y
    OBVIOUS
  <1>6. PICK q \in Int : x = q * z
    <2>1. x \in Nat /\ z \in Nat /\ z > 0 /\ x % z = 0
      BY <1>1, <1>2, <1>4, <1>5
    <2>2. QED
      BY <2>1, Divides
  <1>7. m * u = (q * t) * u
    <2>1. \A v \in Int : v * (u * t) = (v * t) * u
      OBVIOUS
    <2>2. QED
      BY <1>4, <1>5, <1>6, <2>1
  <1>8. m = q * t
    <2>1. \A v, w \in Int : v * u = w * u => v = w
      OBVIOUS
    <2>2. q * t \in Int
      OBVIOUS
    <2>3. QED
      BY <1>1, <1>7, <2>1, <2>2
  <1>9. CASE q <= a
    <2>1. \A v, w \in Int : v <= w => v * t <= w * t
      OBVIOUS
    <2>2. q * t <= a * t
      BY <1>9, <2>1
    <2>3. PICK v, w : v = q * t /\ w = a * t
      OBVIOUS
    <2>4. v <= w /\ v = w + r /\ w \in Nat
      BY <1>1, <1>8, <2>2, <2>3 DEF m
    <2>5. QED
      BY <2>4
  <1>10. CASE q >= a + 1
    <2>1. \A v, w \in Int : v <= w => v * t <= w * t
      OBVIOUS
    <2>2. (a + 1) * t <= q * t
      BY <1>10, <2>1
    <2>3. (a + 1) * t = a * t + t
      OBVIOUS
    <2>4. PICK v, w : v = q * t /\ w = a * t
      OBVIOUS
    <2>5. w + t <= v /\ v = w + r /\ w \in Nat
      BY <1>1, <1>8, <2>2, <2>3, <2>4 DEF m
    <2>6. QED
      BY <2>5
  <1>11. QED
    BY <1>9, <1>10

LEMMA Regroup ==
  ASSUME NEW a \in Seq(Nat), NEW b \in Seq(Nat), NEW c \in Seq(Nat)
  PROVE  (a \o b) \o c = a \o (b \o c)
  BY ConcatAssociative, SMTT(30)

LEMMA PartsOfConcat ==
  ASSUME NEW S, NEW a \in Seq(S), NEW b \in Seq(S), NEW T
  PROVE  a \o b \in Seq(T) <=> a \in Seq(T) /\ b \in Seq(T)
  <1>1. Len(a) \in Nat /\ Len(b) \in Nat
    BY LenProperties
  <1>2. /\ Len(a \o b) = Len(a) + Len(b)
        /\ \A i \in 1 .. Len(a) + Len(b) :
             (a \o b)[i] = IF i <= Len(a) THEN a[i] ELSE b[i - Len(a)]
    BY ConcatProperties
  <1>3. ASSUME a \o b \in Seq(T)
        PROVE  a \in Seq(T)
    <2>1. ASSUME NEW i \in 1 .. Len(a)
          PROVE  a[i] \in T
      <3>1. i \in 1 .. Len(a) + Len(b) /\ i <= Len(a)
        BY <1>1
      <3>2. (a \o b)[i] \in T
        BY <1>2, <1>3, <3>1, ElementOfSeq
      <3>3. QED
        BY <1>2, <3>1, <3>2
    <2>2. QED
      BY <2>1, SeqOfMembers
  <1>4. ASSUME a \o b \in Seq(T)
        PROVE  b \in Seq(T)
    <2>1. ASSUME NEW i \in 1 .. Len(b)
          PROVE  b[i] \in T
      <3>1. Len(a) + i \in 1 .. Len(a) + Len(b) /\ ~(Len(a) + i <= Len(a)) /\ (Len(a) + i) - Len(a) = i
        BY <1>1
      <3>2. (a \o b)[Len(a) + i] \in T
        BY <1>2, <1>4, <3>1, ElementOfSeq
      <3>3. QED
        BY <1>2, <3>1, <3>2
    <2>2. QED
      BY <2>1, SeqOfMembers
  <1>5. QED
    BY <1>3, <1>4, ConcatProperties

-----------------------------------------------------------------------------
(* ParseAmount *)

\* An amount is read as exactly what was typed, or refused; it is refused only if
\* no number of smallest units above zero is that.
THEOREM ParseIsExact ==
  ASSUME NEW text \in Seq(Character), NEW decimals \in Nat
  PROVE  LET v == ParseAmount(text, decimals)
         IN  /\ v \in Nat
             /\ v # Refused => IsWorth(v, text, decimals)
             /\ v = Refused =>
                  ~ /\ WellFormed(text)
                    /\ Mantissa(text) > 0
                    /\ (Mantissa(text) * TenTo(decimals)) % TenTo(Places(text)) = 0
  <1> DEFINE s == Plain(text)
             b == Bare(text)
             W == Whole(b)
             F == Frac(b)
             f == Fit(F, decimals)
             w == IF Whole(s) = <<>> THEN <<0>> ELSE Whole(s)
             Unmet == ~ /\ WellFormed(text)
                        /\ Mantissa(text) > 0
                        /\ (Mantissa(text) * TenTo(decimals)) % TenTo(Places(text)) = 0
             Exact(v) == v \in Nat /\ (v # Refused => IsWorth(v, text, decimals)) /\ (v = Refused => Unmet)
  <1>0. SUFFICES Exact(ParseAmount(text, decimals))
    OBVIOUS
  <1>1. s \in Seq(Character) /\ b \in Seq(Character) /\ W \in Seq(Character) /\ F \in Seq(Character)
    BY BareIs, CutType
  <1>2. Mantissa(text) = Worth(W \o F) /\ Places(text) = Len(F)
    BY DEF Mantissa, Places
  <1>3. WellFormed(text) <=> W \in Seq(Digit) /\ F \in Seq(Digit)
    BY WellFormedIs
  <1>4. Refused = 0 /\ 0 \in Nat /\ ~(0 > 0)
    BY DEF Refused
  <1>5. ASSUME Unmet, ParseAmount(text, decimals) = Refused
        PROVE  Exact(ParseAmount(text, decimals))
    BY <1>4, <1>5
  <1>6. CASE s = <<>>
    <2>1. ParseAmount(text, decimals) = Refused
      BY <1>6 DEF ParseAmount
    <2>2. b = <<>>
      BY <1>6, BareIs
    <2>3. W = <<>> /\ F = <<>>
      <3>1. 1 .. Len(<<>>) = {}
        OBVIOUS
      <3>2. QED
        BY <1>1, <2>2, <3>1, CutIs
    <2>4. W \o F = <<>>
      BY <2>3
    <2>5. Mantissa(text) = 0
      BY <1>2, <2>4, WorthEmpty
    <2>6. QED
      BY <1>4, <1>5, <2>1, <2>5
  <1>7. CASE s # <<>> /\ Head(s) = Minus
    <2>1. ParseAmount(text, decimals) = Refused
      BY <1>7 DEF ParseAmount
    <2>2. b = s
      BY <1>7, BareIs DEF Minus, Plus
    <2>3. b[1] = Minus /\ Len(b) \in Nat \ {0} /\ 1 \in DOMAIN b
      <3>1. b[1] = Minus
        BY <1>1, <1>7, <2>2, HeadAndTail
      <3>2. Len(b) \in Nat \ {0} /\ DOMAIN b = 1 .. Len(b)
        BY <1>1, <1>7, <2>2, EmptySeq, LenProperties
      <3>3. QED
        BY <3>1, <3>2
    <2>4. Minus \in ToSet(b)
      BY <2>3 DEF ToSet
    <2>5. Minus \notin Digit \union {Dot}
      BY DEF Minus, Digit, Dot
    <2>6. ~WellFormed(text)
      BY <2>4, <2>5 DEF WellFormed
    <2>7. QED
      BY <1>5, <2>1, <2>6
  <1>8. CASE s # <<>> /\ Head(s) # Minus
    <2>1. f \in Seq(Character) /\ Len(f) \in Nat
      <3>1. f \in Seq(Character)
        BY <1>1, FitIs
      <3>2. QED
        BY <3>1, LenProperties
    <2>2. Frac(s) = F
      BY <1>8, <2>1, ReadAsNumber
    <2>3. CASE Len(f) > decimals
      <3>1. ParseAmount(text, decimals) = Refused
        BY <2>2, <2>3 DEF ParseAmount
      <3>2. PICK h \in Seq(Character), e \in Seq(Character) :
              /\ F = h \o e /\ Len(h) = decimals
              /\ \E i \in 1 .. Len(e) : e[i] # 0
        BY <1>1, <2>3, FitIs
      <3>3. SUFFICES ASSUME WellFormed(text)
                     PROVE  (Mantissa(text) * TenTo(decimals)) % TenTo(Places(text)) # 0
        BY <1>5, <3>1
      <3>4. W \in Seq(Digit) /\ h \in Seq(Digit) /\ e \in Seq(Digit)
        BY <1>3, <3>2, <3>3, PartsOfConcat
      <3>5. W \in Seq(Nat) /\ h \in Seq(Nat) /\ e \in Seq(Nat)
            /\ Worth(e) \in Nat /\ Worth(e) < TenTo(Len(e))
        BY <3>4, WorthBound
      <3>6. Worth(e) > 0
        BY <3>2, <3>5, WorthPositive
      <3>7. Len(e) \in Nat /\ TenTo(Len(e)) \in Nat \ {0} /\ TenTo(decimals) \in Nat \ {0}
        <4>1. Len(e) \in Nat
          BY <3>2, LenProperties
        <4>2. QED
          BY <4>1, TenToType
      <3>8. W \o h \in Seq(Nat) /\ W \o F = (W \o h) \o e
        <4>1. (W \o h) \o e = W \o (h \o e)
          BY <3>5, Regroup
        <4>2. QED
          BY <3>2, <3>5, <4>1, ConcatProperties
      <3>9. Mantissa(text) = Worth(W \o h) * TenTo(Len(e)) + Worth(e) /\ Worth(W \o h) \in Nat
        BY <1>2, <3>5, <3>8, WorthConcat, WorthType
      <3>10. TenTo(Places(text)) = TenTo(decimals) * TenTo(Len(e))
        <4>1. Len(F) = decimals + Len(e)
          BY <3>2, ConcatProperties
        <4>2. QED
          BY <1>2, <3>7, <4>1, TenToAdds
      <3>11. QED
        <4>1. 0 < Worth(e)
          BY <3>5, <3>6
        <4>2. QED
          BY <3>5, <3>7, <3>9, <3>10, <4>1, NoWholeUnits
    <2>4. CASE Len(f) <= decimals
      <3> DEFINE p == decimals - Len(f)
                 x == f \o Zeros(p)
                 y == W \o x
      <3>1. PICK n \in Nat : F = f \o Zeros(n) /\ Len(F) = Len(f) + n
        BY <1>1, <2>4, FitIs
      <3>2. p \in Nat
        BY <2>1, <2>4
      <3>3. ASSUME NEW m \in Nat
            PROVE  Zeros(m) \in Seq(Character) /\ Zeros(m) \in Seq(Digit)
        <4>1. {0} \subseteq Character
          BY DEF Character, Space
        <4>2. Zeros(m) \in Seq({0}) /\ Zeros(m) \in Seq(Digit)
          BY ZerosType
        <4>3. QED
          BY <4>1, <4>2, SeqMonotonic
      <3>4. x \in Seq(Character) /\ y \in Seq(Character) /\ Zeros(p) \in Seq(Character)
        BY <1>1, <2>1, <3>2, <3>3, ConcatProperties
      <3>5. w \in Seq(Character) /\ w \o f \o Zeros(p) = w \o x
        <4>1. Whole(s) \in Seq(Character)
          BY <1>1, CutType
        <4>2. 0 \in Character
          BY DEF Character, Space
        <4>3. w \in Seq(Character)
          BY <4>1, <4>2
        <4> HIDE DEF w
        <4>4. (w \o f) \o Zeros(p) = w \o (f \o Zeros(p))
          <5>1. \A c, d, g \in Seq(Character) : (c \o d) \o g = c \o (d \o g)
            BY ConcatAssociative, SMTT(30)
          <5>2. QED
            BY <2>1, <3>4, <4>3, <5>1
        <4>5. QED
          BY <4>3, <4>4
      <3>6. ParseAmount(text, decimals) = IF IsNumber(w \o x) THEN Number(w \o x) ELSE Refused
        <4>1. ParseAmount(text, decimals) =
                IF IsNumber(w \o f \o Zeros(p)) THEN Number(w \o f \o Zeros(p)) ELSE Refused
          BY <1>8, <2>1, <2>2, <2>4 DEF ParseAmount
        <4>2. QED
          BY <3>5, <4>1
      <3>7. /\ IsNumber(w \o x) => y \in Seq(Digit) /\ Number(w \o x) = Worth(y)
            /\ ~IsNumber(w \o x) /\ y \in Seq(Digit) => y = <<>>
        BY <1>8, <3>4, ReadAsNumber
      <3> HIDE DEF w
      \* What is read and what is meant, where there are only digits.
      <3>8. ASSUME W \in Seq(Digit), f \in Seq(Digit)
            PROVE  /\ Worth(W \o f) \in Nat
                   /\ Worth(y) = Worth(W \o f) * TenTo(p)
                   /\ Worth(W \o F) = Worth(W \o f) * TenTo(n)
        <4>1. W \in Seq(Nat) /\ f \in Seq(Nat) /\ W \o f \in Seq(Nat)
          <5>1. W \in Seq(Nat) /\ f \in Seq(Nat)
            BY <3>8, WorthBound
          <5>2. QED
            BY <5>1, ConcatProperties
        <4>2. y = (W \o f) \o Zeros(p) /\ W \o F = (W \o f) \o Zeros(n)
          <5>1. Zeros(p) \in Seq(Nat) /\ Zeros(n) \in Seq(Nat)
            BY <3>2, ZerosType
          <5>2. (W \o f) \o Zeros(p) = W \o (f \o Zeros(p))
            BY <4>1, <5>1, Regroup, ZenonT(60)
          <5>3. (W \o f) \o Zeros(n) = W \o (f \o Zeros(n))
            BY <4>1, <5>1, Regroup, ZenonT(60)
          <5>4. QED
            BY <3>1, <5>2, <5>3
        <4>3. Worth(W \o f) \in Nat
          BY <4>1, WorthType
        <4>4. Worth((W \o f) \o Zeros(p)) = Worth(W \o f) * TenTo(p)
          BY <3>2, <4>1, WorthShift
        <4>5. Worth((W \o f) \o Zeros(n)) = Worth(W \o f) * TenTo(n)
          BY <4>1, WorthShift
        <4>6. QED
          BY <4>2, <4>3, <4>4, <4>5
      <3>9. f \in Seq(Digit) <=> F \in Seq(Digit)
        <4>1. f \o Zeros(n) \in Seq(Digit) <=> f \in Seq(Digit) /\ Zeros(n) \in Seq(Digit)
          <5>1. Zeros(n) \in Seq(Character)
            BY <3>3
          <5>2. QED
            BY <2>1, <5>1, PartsOfConcat
        <4>2. QED
          BY <3>1, <3>3, <4>1
      <3>10. y \in Seq(Digit) <=> W \in Seq(Digit) /\ f \in Seq(Digit)
        <4>1. y \in Seq(Digit) <=> W \in Seq(Digit) /\ x \in Seq(Digit)
          BY <1>1, <3>4, PartsOfConcat
        <4>2. x \in Seq(Digit) <=> f \in Seq(Digit) /\ Zeros(p) \in Seq(Digit)
          BY <2>1, <3>4, PartsOfConcat
        <4>3. QED
          BY <3>2, <3>3, <4>1, <4>2
      <3> HIDE DEF x, y
      <3>11. CASE IsNumber(w \o x)
        <4>1. W \in Seq(Digit) /\ f \in Seq(Digit) /\ WellFormed(text)
          BY <1>3, <3>7, <3>9, <3>10, <3>11
        <4>2. PICK a : a = Worth(W \o f)
          OBVIOUS
        <4>3. a \in Nat /\ Worth(y) = a * TenTo(p) /\ Mantissa(text) = a * TenTo(n)
          BY <1>2, <3>8, <4>1, <4>2
        <4>4. PICK v : v = ParseAmount(text, decimals)
          OBVIOUS
        <4>5. v = a * TenTo(p)
          BY <3>6, <3>7, <3>11, <4>3, <4>4
        <4>6. v * TenTo(Places(text)) = Mantissa(text) * TenTo(decimals)
          <5>1. Len(f) + n \in Nat /\ p + (Len(f) + n) = n + decimals
            BY <2>1
          <5>2. (a * TenTo(p)) * TenTo(Len(f) + n) = (a * TenTo(n)) * TenTo(decimals)
            BY <3>2, <4>3, <5>1, SameScale
          <5>3. Places(text) = Len(f) + n
            BY <1>2, <3>1
          <5>4. QED
            BY <4>3, <4>5, <5>2, <5>3
        <4>7. v \in Nat /\ Mantissa(text) \in Nat
          <5>1. TenTo(p) \in Nat /\ TenTo(n) \in Nat
            BY <3>2, TenToType
          <5>2. QED
            BY <4>3, <4>5, <5>1, ProductType
        <4>8. CASE v # Refused
          <5>1. v > 0
            BY <1>4, <4>7, <4>8
          <5>2. IsWorth(v, text, decimals)
            BY <4>1, <4>6, <5>1 DEF IsWorth
          <5>3. QED
            BY <4>4, <4>7, <4>8, <5>2
        <4>9. CASE v = Refused
          <5>1. TenTo(Places(text)) \in Nat /\ TenTo(decimals) \in Nat \ {0}
            <6>1. Places(text) \in Nat
              BY <1>1, <1>2, LenProperties
            <6>2. QED
              BY <6>1, TenToType
          <5>2. \A c, u \in Nat : \A t \in Nat \ {0} : 0 * u = c * t => c = 0
            OBVIOUS
          <5>3. Mantissa(text) = 0
            BY <1>4, <4>6, <4>7, <4>9, <5>1, <5>2
          <5>4. QED
            BY <1>4, <1>5, <4>4, <4>9, <5>3
        <4>10. QED
          BY <4>8, <4>9
      <3>12. CASE ~IsNumber(w \o x)
        <4>1. ParseAmount(text, decimals) = Refused
          BY <3>6, <3>12
        <4>2. ASSUME WellFormed(text)
              PROVE  Mantissa(text) = 0
          <5>1. W \in Seq(Digit) /\ f \in Seq(Digit)
            BY <1>3, <3>9, <4>2
          <5>2. y = <<>>
            BY <3>7, <3>10, <3>12, <5>1
          <5>3. W = <<>> /\ f = <<>>
            <6>1. W = <<>> /\ x = <<>>
              BY <1>1, <3>4, <5>2, ConcatEqualIffEmpty DEF y
            <6>2. f = <<>>
              BY <2>1, <3>4, <6>1, ConcatEqualIffEmpty DEF x
            <6>3. QED
              BY <6>1, <6>2
          <5>4. Worth(W \o f) = 0
            <6>1. W \o f = <<>>
              BY <5>3
            <6>2. QED
              BY <6>1, WorthEmpty
          <5>5. Mantissa(text) = 0 * TenTo(n) /\ TenTo(n) \in Nat
            BY <1>2, <3>8, <5>1, <5>4, TenToType
          <5>6. QED
            BY <5>5
        <4>3. QED
          BY <1>4, <1>5, <4>1, <4>2
      <3>13. QED
        BY <3>11, <3>12
    <2>5. Len(f) > decimals \/ Len(f) <= decimals
      BY <2>1
    <2>6. QED
      BY <2>3, <2>4, <2>5
  <1>9. QED
    BY <1>6, <1>7, <1>8

-----------------------------------------------------------------------------
(* The digits of a number *)

LEMMA DivIs ==
  ASSUME NEW x \in Nat, NEW y \in Nat \ {0}
  PROVE  x \div y \in Nat /\ (x \div y) * y <= x /\ x < (x \div y) * y + y
  <1>1. x \div y \in Nat
    OBVIOUS
  <1>2. x = (x \div y) * y + (x % y)
    OBVIOUS
  <1>3. x % y \in 0 .. y - 1
    OBVIOUS
  <1>4. PICK c : c = (x \div y) * y
    OBVIOUS
  <1>5. c \in Nat
    BY <1>1, <1>4, ProductType
  <1>6. PICK r : r = x % y
    OBVIOUS
  <1>7. x = c + r /\ r \in 0 .. y - 1
    BY <1>2, <1>3, <1>4, <1>6
  <1>8. c <= x /\ x < c + y
    BY <1>5, <1>7
  <1>9. QED
    BY <1>1, <1>4, <1>8

LEMMA DivUnique ==
  ASSUME NEW x \in Nat, NEW y \in Nat \ {0}, NEW q \in Nat, q * y <= x, x < q * y + y
  PROVE  x \div y = q
  <1>1. PICK d : d = x \div y
    OBVIOUS
  <1>2. d \in Nat /\ d * y <= x /\ x < d * y + y
    BY <1>1, DivIs
  <1>3. \A a, b \in Nat : a + 1 <= b => a * y + y <= b * y
    <2>1. \A a, b \in Nat : a <= b => a * y <= b * y
      OBVIOUS
    <2>2. \A a \in Nat : (a + 1) * y = a * y + y /\ a + 1 \in Nat
      OBVIOUS
    <2>3. SUFFICES ASSUME NEW a \in Nat, NEW b \in Nat, a + 1 <= b
                   PROVE  a * y + y <= b * y
      OBVIOUS
    <2>4. (a + 1) * y <= b * y
      BY <2>1, <2>2, <2>3
    <2>5. QED
      BY <2>2, <2>4
  <1>4. PICK s, t : s = d * y /\ t = q * y
    OBVIOUS
  <1>5. s \in Nat /\ t \in Nat /\ s <= x /\ x < s + y /\ t <= x /\ x < t + y
    BY <1>2, <1>4, ProductType
  <1>6. ~(d + 1 <= q)
    <2>1. d + 1 <= q => s + y <= t
      BY <1>2, <1>3, <1>4
    <2>2. QED
      BY <1>5, <2>1
  <1>7. ~(q + 1 <= d)
    <2>1. q + 1 <= d => t + y <= s
      BY <1>2, <1>3, <1>4
    <2>2. QED
      BY <1>5, <2>1
  <1>8. d = q
    BY <1>2, <1>6, <1>7
  <1>9. QED
    BY <1>1, <1>8

\* A quotient by a times itself goes through the quotient by ten times a.
LEMMA DivTen ==
  ASSUME NEW n \in Nat, NEW a \in Nat \ {0}
  PROVE  n \div a = 10 * (n \div (10 * a)) + ((n \div a) % 10)
  <1>1. PICK m : m = n \div a
    OBVIOUS
  <1>2. m \in Nat /\ m * a <= n /\ n < m * a + a
    BY <1>1, DivIs
  <1>3. PICK q, r : q = m \div 10 /\ r = m % 10
    OBVIOUS
  <1>4. q \in Nat /\ r \in 0 .. 9 /\ m = 10 * q + r
    BY <1>2, <1>3
  <1>5. PICK c : c = 10 * a
    OBVIOUS
  <1>6. c \in Nat \ {0}
    BY <1>5
  <1>7. q * c = 10 * (q * a)
    BY <1>4, <1>5
  <1>8. m * a = 10 * (q * a) + r * a
    BY <1>4
  <1>9. r * a \in Nat /\ r * a + a <= c
    <2>1. \A j \in 0 .. 9 : j * a \in Nat /\ j * a + a <= 10 * a
      OBVIOUS
    <2>2. QED
      BY <1>4, <1>5, <2>1
  <1>10. PICK u, v, w : u = q * c /\ v = m * a /\ w = r * a
    OBVIOUS
  <1>11. u \in Nat /\ v = u + w /\ w \in Nat /\ w + a <= c /\ v <= n /\ n < v + a
    <2>1. u \in Nat
      BY <1>4, <1>6, <1>10, ProductType
    <2>2. v = u + w
      BY <1>7, <1>8, <1>10
    <2>3. QED
      BY <1>2, <1>9, <1>10, <2>1, <2>2
  <1>12. u <= n /\ n < u + c
    BY <1>6, <1>11
  <1>13. n \div c = q
    BY <1>4, <1>6, <1>10, <1>12, DivUnique
  <1>14. QED
    BY <1>1, <1>3, <1>4, <1>5, <1>13

LEMMA GrowsPast == \A n \in Nat : n < TenTo(n)
  <1> DEFINE T == {n \in Nat : n < TenTo(n)}
  <1>1. 0 \in T
    BY TenToSteps
  <1>2. ASSUME NEW n \in Nat, n \in T
        PROVE  n + 1 \in T
    <2>1. TenTo(n + 1) = 10 * TenTo(n) /\ TenTo(n) \in Nat /\ n < TenTo(n)
      BY <1>2, TenToSteps, TenToType
    <2>2. n + 1 < TenTo(n + 1)
      BY <2>1
    <2>3. QED
      BY <2>2
  <1> HIDE DEF T
  <1>3. \A n \in Nat : n \in T
    BY <1>1, <1>2, NatInducts
  <1>4. QED
    BY <1>3 DEF T

LEMMA TenToGrows ==
  ASSUME NEW a \in Nat, NEW b \in Nat, a <= b
  PROVE  TenTo(a) <= TenTo(b)
  <1>1. b - a \in Nat /\ a + (b - a) = b
    OBVIOUS
  <1>2. TenTo(b) = TenTo(a) * TenTo(b - a)
    BY <1>1, TenToAdds
  <1>3. TenTo(a) \in Nat /\ TenTo(b - a) \in Nat \ {0}
    BY <1>1, TenToType
  <1>4. \A u \in Nat : \A v \in Nat \ {0} : u <= u * v
    OBVIOUS
  <1>5. QED
    BY <1>2, <1>3, <1>4

\* The digits of a number are worth it, and no more of them than it takes.
LEMMA DigitsOfIs ==
  ASSUME NEW n \in Nat
  PROVE  /\ DigitsOf(n) \in Seq(Digit) /\ Len(DigitsOf(n)) \in Nat \ {0}
         /\ Worth(DigitsOf(n)) = n
         /\ Len(DigitsOf(n)) = 1 \/ n >= TenTo(Len(DigitsOf(n)) - 1)
  <1> DEFINE Fits(w) == n < TenTo(w) /\ (w = 1 \/ n >= TenTo(w - 1))
             width == CHOOSE w \in 1 .. n + 1 : Fits(w)
  <1>1. \E w \in 1 .. n + 1 : Fits(w)
    <2> DEFINE I == {w \in 1 .. n + 1 : n < TenTo(w)}
    <2>1. n + 1 \in I
      <3>1. TenTo(n) <= TenTo(n + 1) /\ n < TenTo(n)
        <4>1. n + 1 \in Nat /\ n <= n + 1
          OBVIOUS
        <4>2. QED
          BY <4>1, TenToGrows, GrowsPast
      <3>2. TenTo(n) \in Nat /\ TenTo(n + 1) \in Nat
        BY TenToType
      <3>3. n < TenTo(n + 1) /\ n + 1 \in 1 .. n + 1
        BY <3>1, <3>2
      <3>4. QED
        BY <3>3
    <2>2. PICK w : w = Min(I)
      OBVIOUS
    <2>3. w \in I /\ \A y \in I : w <= y
      <3>1. I \in SUBSET Nat /\ I # {}
        BY <2>1
      <3>2. QED
        BY <2>2, <3>1, MinOfPlaces
    <2>4. w = 1 \/ n >= TenTo(w - 1)
      <3>1. SUFFICES ASSUME w # 1
                     PROVE  n >= TenTo(w - 1)
        OBVIOUS
      <3>2. w - 1 \in 1 .. n + 1 /\ ~(w <= w - 1) /\ w - 1 \in Nat
        BY <2>3, <3>1
      <3>3. ~(n < TenTo(w - 1))
        BY <2>3, <3>2
      <3>4. TenTo(w - 1) \in Nat
        BY <3>2, TenToType
      <3>5. QED
        BY <3>3, <3>4
    <2>5. QED
      BY <2>3, <2>4
  <1>2. width \in 1 .. n + 1 /\ Fits(width)
    BY <1>1
  <1>3. DigitsOf(n) = [k \in 1 .. width |-> (n \div TenTo(width - k)) % 10]
    BY DEF DigitsOf
  <1> HIDE DEF width
  <1>4. PICK d : d = DigitsOf(n)
    OBVIOUS
  <1>5. width \in Nat \ {0}
    BY <1>2
  <1>6. \A k \in 1 .. width : d[k] = (n \div TenTo(width - k)) % 10 /\ d[k] \in Digit
    <2>1. SUFFICES ASSUME NEW k \in 1 .. width
                   PROVE  d[k] = (n \div TenTo(width - k)) % 10 /\ d[k] \in Digit
      OBVIOUS
    <2>2. d[k] = (n \div TenTo(width - k)) % 10
      BY <1>3, <1>4
    <2>3. width - k \in Nat
      BY <1>5
    <2>4. TenTo(width - k) \in Nat \ {0}
      BY <2>3, TenToType
    <2>5. n \div TenTo(width - k) \in Nat
      BY <2>4, DivIs
    <2>6. \A x \in Nat : x % 10 \in 0 .. 9
      OBVIOUS
    <2>7. QED
      BY <2>2, <2>5, <2>6 DEF Digit
  <1>7. d \in [1 .. width -> Digit]
    BY <1>3, <1>4, <1>6
  <1>8. d \in Seq(Digit) /\ Len(d) = width /\ d \in Seq(Nat)
    <2>1. d \in Seq(Digit) /\ Len(d) = width
      BY <1>5, <1>7
    <2>2. QED
      BY <2>1, WorthBound
  <1>9. PICK f \in [0 .. width -> Nat] :
          /\ f[0] = 0 /\ \A k \in 1 .. width : f[k] = 10 * f[k - 1] + d[k]
          /\ Worth(d) = f[width]
    BY <1>8, WorthSteps
  <1> DEFINE T == {k \in Nat : k <= width => f[k] = n \div TenTo(width - k)}
  <1>10. 0 \in T
    <2>1. n < TenTo(width) /\ TenTo(width) \in Nat \ {0} /\ width - 0 = width
      BY <1>2, <1>5, TenToType
    <2>2. n \div TenTo(width) = 0
      <3>1. 0 * TenTo(width) = 0
        BY <2>1
      <3>2. 0 * TenTo(width) <= n /\ n < 0 * TenTo(width) + TenTo(width)
        BY <2>1, <3>1
      <3>3. QED
        BY <2>1, <3>2, DivUnique
    <2>3. QED
      BY <1>9, <2>1, <2>2
  <1>11. ASSUME NEW k \in Nat, k \in T
         PROVE  k + 1 \in T
    <2>1. SUFFICES ASSUME k + 1 <= width
                   PROVE  f[k + 1] = n \div TenTo(width - (k + 1))
      OBVIOUS
    <2>2. PICK r : r = width - (k + 1)
      OBVIOUS
    <2>3. r \in Nat /\ width - k = r + 1 /\ k + 1 \in 1 .. width /\ (k + 1) - 1 = k /\ k <= width
      BY <1>5, <2>1, <2>2
    <2>4. f[k] = n \div TenTo(r + 1)
      BY <1>11, <2>3
    <2>5. f[k + 1] = 10 * f[k] + ((n \div TenTo(r)) % 10)
      BY <1>6, <1>9, <2>2, <2>3
    <2>6. TenTo(r) \in Nat \ {0} /\ TenTo(r + 1) = 10 * TenTo(r)
      BY <2>3, TenToType, TenToSteps
    <2>7. n \div TenTo(r) = 10 * (n \div (10 * TenTo(r))) + ((n \div TenTo(r)) % 10)
      BY <2>6, DivTen
    <2>8. QED
      BY <2>2, <2>4, <2>5, <2>6, <2>7
  <1> HIDE DEF T
  <1>12. \A k \in Nat : k \in T
    BY <1>10, <1>11, NatInducts
  <1>13. f[width] = n \div TenTo(width - width)
    BY <1>5, <1>12 DEF T
  <1>14. n \div TenTo(width - width) = n
    <2>1. width - width = 0
      BY <1>5
    <2>2. TenTo(width - width) = 1
      BY <2>1, TenToSteps
    <2>3. n \div 1 = n
      OBVIOUS
    <2>4. QED
      BY <2>2, <2>3
  <1>15. Worth(d) = n
    BY <1>9, <1>13, <1>14
  <1>16. QED
    BY <1>2, <1>4, <1>5, <1>8, <1>15

-----------------------------------------------------------------------------
(* FormatAmount *)

LEMMA PaddedIs ==
  ASSUME NEW r \in Nat, NEW decimals \in Nat, r # 0, r < TenTo(decimals)
  PROVE  /\ Padded(r, decimals) \in Seq(Digit) /\ Len(Padded(r, decimals)) = decimals
         /\ Worth(Padded(r, decimals)) = r
  <1> DEFINE d == DigitsOf(r)
             l == Len(d)
  <1>1. d \in Seq(Digit) /\ l \in Nat \ {0} /\ Worth(d) = r /\ (l = 1 \/ r >= TenTo(l - 1))
    BY DigitsOfIs
  <1> HIDE DEF d
  <1>2. l <= decimals
    <2>1. SUFFICES ASSUME decimals + 1 <= l
                   PROVE  FALSE
      BY <1>1
    <2>2. CASE l = 1
      <3>1. decimals = 0
        BY <2>1, <2>2
      <3>2. r < 1
        BY <3>1, TenToSteps
      <3>3. QED
        BY <3>2
    <2>3. CASE r >= TenTo(l - 1)
      <3>1. l - 1 \in Nat /\ decimals <= l - 1
        BY <1>1, <2>1
      <3>2. TenTo(decimals) <= TenTo(l - 1)
        BY <3>1, TenToGrows
      <3>3. TenTo(decimals) \in Nat /\ TenTo(l - 1) \in Nat
        BY <3>1, TenToType
      <3>4. QED
        BY <2>3, <3>2, <3>3
    <2>4. QED
      BY <1>1, <2>2, <2>3
  <1>3. PICK m : m = decimals - l
    OBVIOUS
  <1>4. m \in Nat /\ m + l = decimals
    BY <1>1, <1>2, <1>3
  <1>5. Padded(r, decimals) = Zeros(m) \o d
    BY <1>3 DEF Padded, d
  <1>6. Zeros(m) \in Seq(Digit) /\ Zeros(m) \in Seq(Nat) /\ Len(Zeros(m)) = m /\ d \in Seq(Nat)
    BY <1>1, <1>4, ZerosType, WorthBound
  <1>7. Zeros(m) \o d \in Seq(Digit) /\ Len(Zeros(m) \o d) = decimals
    <2>1. Len(Zeros(m) \o d) = Len(Zeros(m)) + Len(d)
      BY <1>1, <1>6, ConcatProperties
    <2>2. QED
      BY <1>1, <1>4, <1>6, <2>1, ConcatProperties
  <1>8. Worth(Zeros(m) \o d) = 0 * TenTo(l) + r
    BY <1>1, <1>4, <1>6, WorthConcat, WorthZeros
  <1>9. TenTo(l) \in Nat
    BY <1>1, TenToType
  <1>10. QED
    BY <1>5, <1>7, <1>8, <1>9

LEMMA TrimZeros ==
  ASSUME NEW p \in Seq(Digit)
  PROVE  /\ TrimRight(p, 0) \in Seq(Digit)
         /\ \E m \in Nat : /\ p = TrimRight(p, 0) \o Zeros(m)
                           /\ Len(p) = Len(TrimRight(p, 0)) + m
  <1>1. PICK k \in 0 .. Len(p) :
          TrimRight(p, 0) = SubSeq(p, 1, k) /\ \A i \in k + 1 .. Len(p) : p[i] = 0
    BY TrimRightIs
  <1>2. Len(p) \in Nat
    BY LenProperties
  <1>3. k \in Nat /\ k <= Len(p)
    BY <1>2
  <1> DEFINE q == SubSeq(p, 1, k)
             e == SubSeq(p, k + 1, Len(p))
  <1>4. q \in Seq(Digit) /\ Len(q) = k
    <2>1. 1 \in Nat \ {0} /\ k \in Int
      BY <1>3
    <2>2. q \in Seq(Digit) /\ Len(q) = IF 1 <= k THEN k - 1 + 1 ELSE 0
      BY <1>3, <2>1, Slice
    <2>3. QED
      BY <1>3, <2>2
  <1>5. /\ e \in Seq(Digit) /\ Len(e) = Len(p) - k
        /\ \A i \in 1 .. Len(p) - k : e[i] = p[k + i]
    <2>1. k + 1 \in Nat \ {0} /\ Len(p) \in Int /\ Len(p) <= Len(p)
      BY <1>2, <1>3
    <2>2. /\ e \in Seq(Digit)
          /\ Len(e) = IF k + 1 <= Len(p) THEN Len(p) - (k + 1) + 1 ELSE 0
          /\ \A i \in 1 .. Len(p) - (k + 1) + 1 : e[i] = p[(k + 1) + i - 1]
      BY <2>1, Slice
    <2>3. Len(p) - (k + 1) + 1 = Len(p) - k /\ \A i \in 1 .. Len(p) - k : (k + 1) + i - 1 = k + i
      BY <1>2, <1>3
    <2>4. Len(e) = Len(p) - k
      <3>1. CASE k + 1 <= Len(p)
        BY <2>2, <2>3, <3>1
      <3>2. CASE k = Len(p)
        BY <1>3, <2>2, <3>2
      <3>3. k + 1 <= Len(p) \/ k = Len(p)
        BY <1>2, <1>3
      <3>4. QED
        BY <3>1, <3>2, <3>3
    <2>5. QED
      BY <2>2, <2>3, <2>4
  <1>6. p = q \o e
    <2>1. 1 \in 1 .. Len(p) + 1 /\ k \in 1 - 1 .. Len(p) /\ Len(p) \in k .. Len(p)
      BY <1>2, <1>3
    <2>2. SubSeq(p, 1, k) \o SubSeq(p, k + 1, Len(p)) = SubSeq(p, 1, Len(p))
      BY <2>1, ConcatAdjacentSubSeq
    <2>3. QED
      BY <2>2, SubSeqFull
  <1> HIDE DEF q, e
  <1>7. e = Zeros(Len(p) - k)
    <2>1. \A i \in 1 .. Len(e) : e[i] = 0
      <3>1. SUFFICES ASSUME NEW i \in 1 .. Len(p) - k
                     PROVE  e[i] = 0
        BY <1>5
      <3>2. k + i \in k + 1 .. Len(p)
        BY <1>2, <1>3
      <3>3. QED
        BY <1>1, <1>5, <3>2
    <2>2. QED
      BY <1>5, <2>1, OnlyZeros
  <1>8. Len(p) - k \in Nat /\ Len(p) = k + (Len(p) - k)
    BY <1>2, <1>3
  <1>9. TrimRight(p, 0) = q
    BY <1>1 DEF q
  <1>10. QED
    BY <1>4, <1>6, <1>7, <1>8, <1>9

\* What is displayed: digits, or digits around a dot, and what they are worth.
Displays(t, a, q) ==
  /\ a \in Seq(Digit) /\ q \in Seq(Digit) /\ a # <<>>
  /\ (t = a /\ q = <<>>) \/ t = (a \o <<Dot>>) \o q

Shows(v, decimals, a, q) ==
  /\ Displays(FormatAmount(v, decimals), a, q)
  /\ Len(q) <= decimals
  /\ v = Worth(a \o q) * TenTo(decimals - Len(q))

LEMMA FormatIs ==
  ASSUME NEW v \in Nat, NEW decimals \in Nat
  PROVE  \E a, q : Shows(v, decimals, a, q)
  <1> DEFINE unit == TenTo(decimals)
             a == DigitsOf(v \div unit)
             r == v % unit
  <1>1. unit \in Nat \ {0}
    BY TenToType
  <1>2. v \div unit \in Nat
    BY <1>1, DivIs
  <1>3. r \in Nat /\ r < unit
    <2>1. PICK u : u = unit
      OBVIOUS
    <2>2. u \in Nat \ {0}
      BY <1>1, <2>1
    <2>3. v % u \in 0 .. u - 1
      BY <2>2
    <2>4. QED
      BY <2>1, <2>2, <2>3
  <1>4. v = (v \div unit) * unit + r
    <2>1. PICK u : u = unit
      OBVIOUS
    <2>2. u \in Nat \ {0}
      BY <1>1, <2>1
    <2>3. v = (v \div u) * u + (v % u)
      BY <2>2
    <2>4. QED
      BY <2>1, <2>3
  <1>5. a \in Seq(Digit) /\ a # <<>> /\ Worth(a) = v \div unit /\ a \in Seq(Nat)
    <2>1. a \in Seq(Digit) /\ Len(a) \in Nat \ {0} /\ Worth(a) = v \div unit
      BY <1>2, DigitsOfIs
    <2>2. Len(<<>>) = 0
      OBVIOUS
    <2>3. a # <<>>
      BY <2>1, <2>2
    <2>4. QED
      BY <2>1, <2>3, WorthBound
  <1>6. CASE r = 0
    <2>1. FormatAmount(v, decimals) = a
      BY <1>6 DEF FormatAmount
    <2> HIDE DEF a
    <2>2. a \o <<>> = a /\ <<>> \in Seq(Digit) /\ Len(<<>>) = 0
      BY <1>5, ConcatEmptySeq
    <2>3. Displays(FormatAmount(v, decimals), a, <<>>)
      BY <1>5, <2>1, <2>2 DEF Displays
    <2>4. decimals - Len(<<>>) = decimals /\ Len(<<>>) <= decimals
      BY <2>2
    <2>5. Worth(a) * unit \in Nat
      BY <1>1, <1>2, <1>5, ProductType
    <2>6. v = Worth(a) * unit
      BY <1>4, <1>5, <1>6, <2>5
    <2>7. v = Worth(a \o <<>>) * TenTo(decimals - Len(<<>>))
      BY <2>2, <2>4, <2>6
    <2>8. Shows(v, decimals, a, <<>>)
      BY <2>3, <2>4, <2>7 DEF Shows
    <2>9. QED
      BY <2>8
  <1>7. CASE r # 0
    <2> DEFINE p == Padded(r, decimals)
               q == TrimRight(p, 0)
    <2>1. FormatAmount(v, decimals) = (a \o <<Dot>>) \o q
      BY <1>7 DEF FormatAmount
    <2>2. p \in Seq(Digit) /\ Len(p) = decimals /\ Worth(p) = r
      BY <1>3, <1>7, PaddedIs
    <2> HIDE DEF a, p, r
    <2>3. q \in Seq(Digit) /\ \E m \in Nat : p = q \o Zeros(m) /\ Len(p) = Len(q) + m
      BY <2>2, TrimZeros
    <2>4. PICK m \in Nat : p = q \o Zeros(m) /\ Len(p) = Len(q) + m
      BY <2>3
    <2> HIDE DEF q
    <2>5. Len(q) \in Nat /\ Len(q) <= decimals /\ decimals - Len(q) = m
      <3>1. Len(q) \in Nat
        BY <2>3, LenProperties
      <3>2. QED
        BY <2>2, <2>4, <3>1
    <2>6. Displays(FormatAmount(v, decimals), a, q)
      BY <1>5, <2>1, <2>3 DEF Displays
    <2>7. q \in Seq(Nat) /\ p \in Seq(Nat) /\ Zeros(m) \in Seq(Nat) /\ a \o q \in Seq(Nat)
      <3>1. q \in Seq(Nat) /\ p \in Seq(Nat) /\ Zeros(m) \in Seq(Nat)
        BY <2>2, <2>3, WorthBound, ZerosType
      <3>2. QED
        BY <1>5, <3>1, ConcatProperties
    <2>8. Worth(a \o p) = Worth(a) * TenTo(decimals) + Worth(p)
      BY <1>5, <2>2, <2>7, WorthConcat
    <2>9. v = Worth(a \o p)
      BY <1>4, <1>5, <2>2, <2>8
    <2>10. a \o p = (a \o q) \o Zeros(m)
      BY <1>5, <2>4, <2>7, Regroup
    <2>11. Worth((a \o q) \o Zeros(m)) = Worth(a \o q) * TenTo(m)
      BY <2>7, WorthShift
    <2>12. v = Worth(a \o q) * TenTo(decimals - Len(q))
      BY <2>5, <2>9, <2>10, <2>11
    <2>13. Shows(v, decimals, a, q)
      BY <2>5, <2>6, <2>12 DEF Shows
    <2>14. QED
      BY <2>13
  <1>8. QED
    BY <1>6, <1>7

\* It is read for what it is.
LEMMA ShownIsRead ==
  ASSUME NEW t, NEW a, NEW q, Displays(t, a, q)
  PROVE  /\ t \in Seq(Character) /\ Bare(t) = t
         /\ Whole(t) = a /\ Frac(t) = q
  <1> DEFINE C == Digit \union {Dot}
             l == Len(a)
             n == Len(t)
  <1>1. a \in Seq(Digit) /\ q \in Seq(Digit) /\ a # <<>>
    BY DEF Displays
  <1>2. a \in Seq(C) /\ q \in Seq(C) /\ <<Dot>> \in Seq(C)
    <2>1. Digit \subseteq C
      OBVIOUS
    <2>2. a \in Seq(C) /\ q \in Seq(C)
      BY <1>1, <2>1, SeqMonotonic
    <2>3. Dot \in C
      OBVIOUS
    <2>4. QED
      BY <2>2, <2>3
  <1>3. a \o <<Dot>> \in Seq(C) /\ (a \o <<Dot>>) \o q \in Seq(C)
    BY <1>2, ConcatProperties
  <1>4. t \in Seq(C)
    BY <1>2, <1>3 DEF Displays
  <1>5. C \subseteq Character /\ Space \notin C /\ Underscore \notin C /\ Plus \notin C /\ Dot \notin Digit
    BY DEF Character, Space, Underscore, Plus, Digit, Dot
  <1> HIDE DEF C
  <1>6. t \in Seq(Character)
    BY <1>4, <1>5, SeqMonotonic
  <1>7. Plain(t) = t
    BY <1>4, <1>5, TrimKeeps, WithoutKeeps DEF Plain
  <1>8. Bare(t) = t
    <2>1. t # <<>> => Head(t) \in C
      BY <1>4, HeadAndTail
    <2>2. QED
      BY <1>5, <1>7, <2>1 DEF Bare
  <1>9. l \in Nat /\ n \in Nat
    BY <1>1, <1>4, LenProperties
  <1>10. CASE t = a /\ q = <<>>
    <2>1. \A i \in 1 .. n : t[i] # Dot
      <3>1. \A i \in 1 .. n : t[i] \in Digit
        BY <1>1, <1>10, ElementOfSeq
      <3>2. QED
        BY <1>5, <3>1
    <2>2. Whole(t) = t /\ Frac(t) = <<>>
      BY <1>4, <2>1, CutIs
    <2>3. QED
      BY <1>6, <1>8, <1>10, <2>2
  <1>11. CASE t = (a \o <<Dot>>) \o q
    <2>1. /\ Len(a \o <<Dot>>) = l + 1
          /\ \A i \in 1 .. l : (a \o <<Dot>>)[i] = a[i]
          /\ (a \o <<Dot>>)[l + 1] = Dot
      <3>1. Dot \in C
        BY DEF C
      <3>2. a \o <<Dot>> = Append(a, Dot)
        BY <1>2, <3>1, AppendIsConcat
      <3>3. QED
        BY <1>2, <3>1, <3>2, AppendProperties
    <2>2. Len(q) \in Nat
      BY <1>1, LenProperties
    <2>3. /\ n = (l + 1) + Len(q)
          /\ \A i \in 1 .. (l + 1) + Len(q) :
               t[i] = IF i <= l + 1 THEN (a \o <<Dot>>)[i] ELSE q[i - (l + 1)]
      <3>1. /\ n = Len(a \o <<Dot>>) + Len(q)
            /\ \A i \in 1 .. Len(a \o <<Dot>>) + Len(q) :
                 t[i] = IF i <= Len(a \o <<Dot>>) THEN (a \o <<Dot>>)[i] ELSE q[i - Len(a \o <<Dot>>)]
        BY <1>2, <1>3, <1>11, ConcatProperties
      <3>2. QED
        BY <2>1, <3>1
    <2>4. \A i \in 1 .. l : t[i] = a[i] /\ t[i] # Dot
      <3>1. SUFFICES ASSUME NEW i \in 1 .. l
                     PROVE  t[i] = a[i] /\ t[i] # Dot
        OBVIOUS
      <3>2. i \in 1 .. (l + 1) + Len(q) /\ i <= l + 1
        BY <1>9, <2>2
      <3>3. t[i] = a[i]
        BY <2>1, <2>3, <3>2
      <3>4. a[i] \in Digit
        BY <1>1, ElementOfSeq
      <3>5. QED
        BY <1>5, <3>3, <3>4
    <2>5. t[l + 1] = Dot /\ l + 1 \in 1 .. n
      <3>1. l + 1 \in 1 .. (l + 1) + Len(q) /\ l + 1 <= l + 1
        BY <1>9, <2>2
      <3>2. QED
        BY <2>1, <2>3, <3>1
    <2>6. PICK k \in 1 .. n :
            /\ t[k] = Dot /\ \A i \in 1 .. k - 1 : t[i] # Dot
            /\ Whole(t) = SubSeq(t, 1, k - 1) /\ Frac(t) = SubSeq(t, k + 1, n)
      BY <1>4, <2>5, CutIs
    <2>7. k = l + 1
      <3>1. ~(k \in 1 .. l)
        BY <2>4, <2>6
      <3>2. ~(l + 1 \in 1 .. k - 1)
        BY <2>5, <2>6
      <3>3. k \in Nat /\ k >= 1
        BY <1>9
      <3>4. QED
        BY <1>9, <3>1, <3>2, <3>3
    <2>8. SubSeq(t, 1, l) = a
      <3>1. 1 \in Nat \ {0} /\ l \in Int /\ l <= n
        BY <1>9, <2>5
      <3>2. /\ SubSeq(t, 1, l) \in Seq(C)
            /\ Len(SubSeq(t, 1, l)) = IF 1 <= l THEN l - 1 + 1 ELSE 0
            /\ \A i \in 1 .. l - 1 + 1 : SubSeq(t, 1, l)[i] = t[1 + i - 1]
        BY <1>4, <3>1, Slice
      <3>3. (IF 1 <= l THEN l - 1 + 1 ELSE 0) = l /\ l - 1 + 1 = l /\ \A i \in 1 .. l : 1 + i - 1 = i
        BY <1>9
      <3>4. Len(SubSeq(t, 1, l)) = l
        BY <3>2, <3>3
      <3>5. \A i \in 1 .. Len(SubSeq(t, 1, l)) : SubSeq(t, 1, l)[i] = a[i]
        BY <2>4, <3>2, <3>3, <3>4
      <3>6. QED
        BY <1>2, <3>2, <3>4, <3>5, SeqEqual
    <2>9. SubSeq(t, l + 2, n) = q
      <3>1. l + 2 \in Nat \ {0} /\ n \in Int /\ n <= n
        BY <1>9
      <3>2. /\ SubSeq(t, l + 2, n) \in Seq(C)
            /\ Len(SubSeq(t, l + 2, n)) = IF l + 2 <= n THEN n - (l + 2) + 1 ELSE 0
            /\ \A i \in 1 .. n - (l + 2) + 1 : SubSeq(t, l + 2, n)[i] = t[(l + 2) + i - 1]
        BY <1>4, <3>1, Slice
      <3>3. n - (l + 2) + 1 = Len(q)
        BY <1>9, <2>2, <2>3
      <3>4. Len(SubSeq(t, l + 2, n)) = Len(q)
        <4>1. CASE l + 2 <= n
          BY <3>2, <3>3, <4>1
        <4>2. CASE ~(l + 2 <= n)
          <5>1. Len(q) = 0
            BY <1>9, <2>2, <2>3, <4>2
          <5>2. QED
            BY <3>2, <4>2, <5>1
        <4>3. QED
          BY <4>1, <4>2
      <3>5. ASSUME NEW i \in 1 .. Len(q)
            PROVE  SubSeq(t, l + 2, n)[i] = q[i]
        <4>1. /\ (l + 2) + i - 1 \in 1 .. (l + 1) + Len(q)
              /\ ~((l + 2) + i - 1 <= l + 1)
              /\ ((l + 2) + i - 1) - (l + 1) = i
          BY <1>9, <2>2
        <4>2. t[(l + 2) + i - 1] = q[i]
          BY <2>3, <4>1
        <4>3. QED
          BY <3>2, <3>3, <4>2
      <3>6. QED
        BY <1>2, <3>2, <3>4, <3>5, SeqEqual
    <2>10. k - 1 = l /\ k + 1 = l + 2
      BY <1>9, <2>7
    <2>11. QED
      BY <1>6, <1>8, <2>6, <2>8, <2>9, <2>10
  <1>12. QED
    BY <1>10, <1>11 DEF Displays

\* An amount above zero that is displayed and read again is the same.
THEOREM FormatReadsBack ==
  ASSUME NEW v \in Nat \ {0}, NEW decimals \in Nat
  PROVE  ParseAmount(FormatAmount(v, decimals), decimals) = v
  <1> DEFINE t == FormatAmount(v, decimals)
             u == ParseAmount(t, decimals)
  <1>0. v \in Nat
    OBVIOUS
  <1>1. PICK a, q : Displays(t, a, q) /\ Len(q) <= decimals
                    /\ v = Worth(a \o q) * TenTo(decimals - Len(q))
    <2>1. PICK a, q : Shows(v, decimals, a, q)
      BY <1>0, FormatIs
    <2>2. QED
      BY <2>1 DEF Shows
  <1> HIDE DEF t
  <1>2. t \in Seq(Character) /\ Bare(t) = t /\ Whole(t) = a /\ Frac(t) = q
    BY <1>1, ShownIsRead
  <1>3. a \in Seq(Digit) /\ q \in Seq(Digit) /\ Len(q) \in Nat
    BY <1>1, LenProperties DEF Displays
  <1>4. WellFormed(t)
    BY <1>2, <1>3, WellFormedIs
  <1>5. Mantissa(t) = Worth(a \o q) /\ Places(t) = Len(q)
    BY <1>2 DEF Mantissa, Places
  <1>6. Worth(a \o q) \in Nat
    <2>1. a \o q \in Seq(Digit)
      BY <1>3, ConcatProperties
    <2>2. QED
      BY <2>1, WorthBound
  <1>7. PICK m : m = Worth(a \o q)
    OBVIOUS
  <1>8. PICK p : p = decimals - Len(q)
    OBVIOUS
  <1>9. p \in Nat /\ p + Len(q) = decimals + 0 /\ m \in Nat /\ v = m * TenTo(p)
    BY <1>1, <1>3, <1>6, <1>7, <1>8
  <1>10. TenTo(Len(q)) \in Nat \ {0} /\ TenTo(decimals) \in Nat \ {0} /\ TenTo(p) \in Nat
    BY <1>3, <1>9, TenToType
  <1>11. m * TenTo(decimals) = v * TenTo(Len(q))
    <2>1. (m * TenTo(p)) * TenTo(Len(q)) = (m * TenTo(decimals)) * TenTo(0)
      BY <1>3, <1>9, SameScale
    <2>2. (m * TenTo(decimals)) * TenTo(0) = m * TenTo(decimals)
      <3>1. m * TenTo(decimals) \in Nat
        BY <1>9, <1>10, ProductType
      <3>2. \A c \in Nat : c * 1 = c
        OBVIOUS
      <3>3. QED
        BY <3>1, <3>2, TenToSteps
    <2>3. QED
      BY <1>9, <2>1, <2>2
  <1>12. m > 0
    <2>1. m # 0
      <3>1. SUFFICES ASSUME m = 0
                     PROVE  v = 0
        OBVIOUS
      <3>2. 0 * TenTo(p) = 0
        BY <1>10
      <3>3. QED
        BY <1>9, <3>1, <3>2
    <2>2. QED
      BY <1>9, <2>1
  <1>13. (m * TenTo(decimals)) % TenTo(Len(q)) = 0
    <2>1. PICK c : c = TenTo(Len(q))
      OBVIOUS
    <2>2. c \in Nat \ {0}
      BY <1>10, <2>1
    <2>3. (v * c) % c = 0
      BY <2>2
    <2>4. QED
      BY <1>11, <2>1, <2>3
  <1>14. u \in Nat /\ u # Refused /\ IsWorth(u, t, decimals)
    <2>1. /\ u \in Nat /\ (u # Refused => IsWorth(u, t, decimals))
          /\ u = Refused =>
               ~ /\ WellFormed(t) /\ Mantissa(t) > 0
                 /\ (Mantissa(t) * TenTo(decimals)) % TenTo(Places(t)) = 0
      BY <1>2, ParseIsExact
    <2>2. QED
      BY <1>4, <1>5, <1>7, <1>12, <1>13, <2>1
  <1>15. u * TenTo(Len(q)) = v * TenTo(Len(q))
    BY <1>5, <1>7, <1>11, <1>14 DEF IsWorth
  <1>16. \A c, d \in Nat : \A x \in Nat \ {0} : c * x = d * x => c = d
    OBVIOUS
  <1>17. u = v
    BY <1>10, <1>14, <1>15, <1>16
  <1>18. QED
    BY <1>17 DEF t
=============================================================================
