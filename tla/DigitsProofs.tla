---------------------------- MODULE DigitsProofs ----------------------------
(***************************************************************************)
(* Proofs about the digit loop, for accumulators and bounds of any width.  *)
(***************************************************************************)
EXTENDS Digits, SequenceTheorems, WellFoundedInduction, TLAPS

\* The digits before and after a number in a division: what Overflows compares.
LEMMA QuotientBounds ==
  ASSUME NEW n \in Nat, NEW b \in {10, 16}, NEW v \in Nat
  PROVE  v > n \div b <=> v * b > n
<1>1. CASE b = 10
  BY <1>1, SMT
<1>2. CASE b = 16
  BY <1>2, SMT
<1> QED
  BY <1>1, <1>2

\* Every byte stands for a number from 0 to 16.
LEMMA DigitRange ==
  ASSUME NEW c \in Byte, NEW b \in {10, 16}
  PROVE  DigitOf(c, b) \in 0 .. 16
BY SMT DEF DigitOf, DecimalDigit, Byte

\* The test before the multiplication is exact: it refuses a digit when, and
\* only when, the longer number does not fit the accumulator.
THEOREM OverflowIsExact ==
  ASSUME NEW v \in Nat, NEW b \in {10, 16}, NEW d \in 0 .. (b - 1)
  PROVE  Overflows(v, d, b) <=> v * b + d >= AccLimit
<1>1. AccLimit \in Nat /\ AccLimit > 16
  BY AccLimitAssumption, IndexLimitAssumption, SMT
<1>2. d \in Nat /\ d <= 15
  BY SMT
<1>3. AccLimit - 1 - d \in Nat
  BY <1>1, <1>2, SMT
<1>4. Overflows(v, d, b) <=> v * b > AccLimit - 1 - d
  BY <1>3, QuotientBounds DEF Overflows
<1>5. v * b \in Nat
  BY SMT
<1> QED
  BY <1>1, <1>2, <1>4, <1>5, SMT

-----------------------------------------------------------------------------
(* The invariant *)

\* No digit is read before the loop, and nothing is decided before its end.
Progress ==
  /\ pc = "start" => pos = 0
  /\ pc # "done" => outcome = "running"
  /\ outcome = "accepted" => Fits(parser, value)

IInv == TypeOK /\ NothingWraps /\ Progress

\* A number a parser lets through fits a uint32_t.
LEMMA FitsIsUint32 ==
  ASSUME NEW v \in Nat, NEW p, Fits(p, v)
  PROVE  v \in Uint32
BY IndexLimitAssumption, SMT DEF Fits, Uint32

\* The invariant holds before the call.
LEMMA InitHolds == Init => IInv
<1> SUFFICES ASSUME Init PROVE IInv
  OBVIOUS
<1>1. text \in Seq(Byte)
  BY TextsAssumption DEF Init
<1>2. 0 \in 0 .. Len(body) /\ 0 \in 0 .. AccLimit - 1
  BY <1>1, AccLimitAssumption, IndexLimitAssumption, LenProperties, SMT
     DEF Init
<1> QED
  BY <1>1, <1>2, SMT DEF Init, IInv, TypeOK, NothingWraps, Progress

\* Choosing base and body keeps the invariant.
LEMMA StartKeeps ==
  ASSUME IInv, Start
  PROVE  IInv'
<1> USE DEF IInv, TypeOK, NothingWraps, Progress
<1>1. body' \in Seq(Byte) /\ base' \in {10, 16}
  <2>1. CASE parser = "uint32" /\ HasHexPrefix(text)
    <3>1. \A i \in 3 .. Len(text) : text[i] \in Byte
      BY ElementOfSeq, LenProperties, SMT
    <3>2. SubSeq(text, 3, Len(text)) \in Seq(Byte)
      BY <3>1, LenProperties, SubSeqProperties
    <3>3. body' = SubSeq(text, 3, Len(text)) /\ base' = 16
      BY <2>1 DEF Start
    <3> QED
      BY <3>2, <3>3
  <2>2. CASE parser = "segment" /\ HasMarker(text)
    <3>1. \A i \in 1 .. Len(text) - 1 : text[i] \in Byte
      BY ElementOfSeq, LenProperties, SMT
    <3>2. SubSeq(text, 1, Len(text) - 1) \in Seq(Byte)
      BY <3>1, LenProperties, SubSeqProperties
    <3>3. body' = SubSeq(text, 1, Len(text) - 1) /\ base' = base
      BY <2>2 DEF Start
    <3> QED
      BY <3>2, <3>3
  <2>3. CASE ~ (parser = "uint32" /\ HasHexPrefix(text))
             /\ ~ (parser = "segment" /\ HasMarker(text))
    BY <2>3 DEF Start
  <2> QED
    BY <2>1, <2>2, <2>3
<1>2. pos' \in 0 .. Len(body')
  BY <1>1, LenProperties, SMT DEF Start
<1>3. /\ pc' \in {"loop", "done"}
      /\ outcome' \in {"running", "accepted", "rejected"}
      /\ outcome' # "accepted"
      /\ pc' # "done" => outcome' = "running"
  BY SMT DEF Start, End
<1> QED
  BY <1>1, <1>2, <1>3, SMT DEF Start, Fits

\* A turn of the loop keeps it: the overflow test is exact.
LEMMA ReadDigitKeeps ==
  ASSUME IInv, ReadDigit
  PROVE  IInv'
<1> DEFINE d == DigitOf(body[pos + 1], base)
<1> USE DEF IInv, TypeOK, NothingWraps, Progress
<1>1. Len(body) \in Nat /\ pos \in Nat /\ pos < Len(body) /\ pc = "loop"
  BY LenProperties, SMT DEF ReadDigit
<1>2. body[pos + 1] \in Byte
  BY <1>1, ElementOfSeq, SMT
<1>3. d \in 0 .. 16
  BY <1>2, DigitRange
<1>4. CASE d >= base \/ Overflows(value, d, base)
  <2>1. /\ outcome' = "rejected" /\ pc' = "done"
        /\ UNCHANGED <<pos, value, total, parser, text, body, base>>
    BY <1>4 DEF ReadDigit, End
  <2> QED
    BY <2>1, SMT
<1>5. CASE ~ (d >= base \/ Overflows(value, d, base))
  <2>1. d \in 0 .. (base - 1) /\ value \in Nat /\ base \in {10, 16}
    <3> HIDE DEF d
    <3>1. ~ (d >= base)
      BY <1>5
    <3>2. base \in {10, 16} /\ value \in 0 .. AccLimit - 1
      OBVIOUS
    <3> HIDE DEF IInv, TypeOK, NothingWraps, Progress
    <3> QED
      BY <1>3, <3>1, <3>2, AccLimitAssumption, SMT
  <2>2. value * base + d < AccLimit /\ value * base + d \in Nat
    <3>1. ~ (value * base + d >= AccLimit)
      BY <1>5, <2>1, OverflowIsExact
    <3> HIDE DEF d, IInv, TypeOK, NothingWraps, Progress
    <3>2. CASE base = 10
      BY <3>1, <3>2, <2>1, AccLimitAssumption, SMT
    <3>3. CASE base = 16
      BY <3>1, <3>3, <2>1, AccLimitAssumption, SMT
    <3> QED
      BY <2>1, <3>2, <3>3
  <2>3. (value * base + d) % AccLimit = value * base + d
    <3> DEFINE n == value * base + d
    <3>1. n \in Nat /\ n < AccLimit /\ AccLimit \in Nat
      BY <2>2, AccLimitAssumption
    <3> HIDE DEF n
    <3>2. n % AccLimit = n
      BY <3>1, SMT
    <3> QED
      BY <3>2 DEF n
  <2>4. /\ value' = value * base + d
        /\ total' = total * base + d
        /\ pos' = pos + 1
        /\ UNCHANGED <<pc, outcome, parser, text, body, base>>
    BY <1>5, <2>3 DEF ReadDigit
  <2>5. total' = value' /\ value' \in 0 .. AccLimit - 1
    BY <2>2, <2>4, AccLimitAssumption, SMT
  <2>6. outcome # "accepted"
    BY <1>1 DEF Progress
  <2> QED
    BY <1>1, <2>4, <2>5, <2>6, SMT
<1> QED
  BY <1>4, <1>5

\* So does the test of the bound after the loop.
LEMMA ConcludeKeeps ==
  ASSUME IInv, Conclude
  PROVE  IInv'
<1> USE DEF IInv, TypeOK, NothingWraps, Progress
<1>1. CASE Fits(parser, value)
  <2>1. value \in Uint32
    BY <1>1, FitsIsUint32, SMT
  <2> QED
    BY <1>1, <2>1, SMT DEF Conclude, End, Fits
<1>2. CASE ~ Fits(parser, value)
  BY <1>2, SMT DEF Conclude, End, Fits
<1> QED
  BY <1>1, <1>2

\* Every step keeps it.
LEMMA StepHolds == IInv /\ [Next]_vars => IInv'
<1> SUFFICES ASSUME IInv, [Next]_vars PROVE IInv'
  OBVIOUS
<1>1. CASE Start
  BY <1>1, StartKeeps
<1>2. CASE ReadDigit
  BY <1>2, ReadDigitKeeps
<1>3. CASE Conclude
  BY <1>3, ConcludeKeeps
<1>4. CASE UNCHANGED vars
  BY <1>4, SMT DEF IInv, TypeOK, NothingWraps, Progress, Fits, vars
<1> QED
  BY <1>1, <1>2, <1>3, <1>4 DEF Next

-----------------------------------------------------------------------------

\* In every reachable state the variables have their types and an accepted
\* number fits the integer it is cast to.
THEOREM DigitsTypeCorrect == Spec => []TypeOK
<1>1. IInv => TypeOK
  BY DEF IInv
<1> QED
  BY <1>1, InitHolds, StepHolds, PTL DEF Spec

\* The accumulator holds the number read, whatever the width, the base and the
\* text: parse_in_base never wraps.
THEOREM NeverWraps == Spec => []NothingWraps
<1>1. IInv => NothingWraps
  BY DEF IInv
<1> QED
  BY <1>1, InitHolds, StepHolds, PTL DEF Spec


-----------------------------------------------------------------------------
(* Induction *)

\* A set of naturals with 0 and the successor of each of its elements has them
\* all: the smallest number outside would have a predecessor inside.
LEMMA SetInduction ==
  ASSUME NEW S \in SUBSET Nat, 0 \in S, \A n \in S : n + 1 \in S
  PROVE  S = Nat
<1> DEFINE T == Nat \ S
           R == OpToRel(<, Nat)
<1>1. IsWellFoundedOn(R, Nat)
  BY NatLessThanWellFounded
<1>2. \A x, y \in Nat : x < y => <<x, y>> \in R
  BY DEF OpToRel
<1> HIDE DEF R
<1>3. SUFFICES ASSUME T # {} PROVE FALSE
  OBVIOUS
<1>4. PICK x \in T : \A y \in T : ~ (<<y, x>> \in R)
  <2>1. T \subseteq Nat
    OBVIOUS
  <2> HIDE DEF T
  <2> QED
    BY <1>1, <1>3, <2>1, WFMin
<1>5. x \in Nat /\ x # 0 /\ x - 1 \in Nat /\ x - 1 < x
  OBVIOUS
<1>6. x - 1 \in T
  BY <1>5
<1> QED
  BY <1>2, <1>4, <1>5, <1>6

-----------------------------------------------------------------------------
(* The number a text spells *)

\* The recursion of Spells, as an equation: f[i] is what the first i digits of s
\* spell.
Adds(f, s, b, n) ==
  f = [i \in 0 .. n |-> IF i = 0 THEN 0 ELSE f[i - 1] * b + DigitOf(s[i], b)]

SumOf(s, b) == CHOOSE f : Adds(f, s, b, Len(s))

\* What a text spells is the last of its sums.
LEMMA SpellsIsSum ==
  ASSUME NEW s, NEW b
  PROVE  Spells(s, b) = SumOf(s, b)[Len(s)]
BY Zenon DEF Spells, SumOf, Adds

\* The recursion has a solution of every length.
LEMMA SumExists ==
  ASSUME NEW s, NEW b
  PROVE  \A n \in Nat : \E f : Adds(f, s, b, n)
<1> DEFINE Longer(f, i) == f[i - 1] * b + DigitOf(s[i], b)
           Solves(f, n) == f = [i \in 0 .. n |-> IF i = 0 THEN 0 ELSE Longer(f, i)]
           S == {n \in Nat : \E f : Solves(f, n)}
<1>1. 0 \in S
  <2> DEFINE f == [i \in 0 .. 0 |-> 0]
  <2>1. \A i \in 0 .. 0 : i = 0
    OBVIOUS
  <2>2. Solves(f, 0)
    BY <2>1
  <2> HIDE DEF Solves, f
  <2> QED
    BY <2>2
<1>2. ASSUME NEW n \in S
      PROVE  n + 1 \in S
  <2>1. n \in Nat /\ n + 1 \in Nat
    OBVIOUS
  <2>2. PICK f : Solves(f, n)
    OBVIOUS
  <2>3. f[0] = 0 /\ \A i \in 1 .. n : f[i] = Longer(f, i)
    <3>1. \A i \in 0 .. n : f[i] = IF i = 0 THEN 0 ELSE Longer(f, i)
      BY <2>2
    <3> HIDE DEF Longer, Solves, S
    <3> QED
      BY <2>1, <3>1
  <2> DEFINE g == [i \in 0 .. (n + 1) |-> IF i = n + 1 THEN Longer(f, n + 1) ELSE f[i]]
  <2> HIDE DEF S, Solves
  <2>4. \A i \in 0 .. n : g[i] = f[i]
    BY <2>1
  <2>5. g[n + 1] = Longer(f, n + 1)
    BY <2>1
  <2>6. ASSUME NEW i \in 1 .. (n + 1)
        PROVE  Longer(g, i) = Longer(f, i)
    <3>1. i - 1 \in 0 .. n
      BY <2>1
    <3> HIDE DEF g
    <3> QED
      BY <2>4, <3>1
  <2>7. \A i \in 0 .. (n + 1) : g[i] = IF i = 0 THEN 0 ELSE Longer(g, i)
    <3> HIDE DEF g, Longer
    <3> SUFFICES ASSUME NEW i \in 0 .. (n + 1)
                 PROVE  g[i] = IF i = 0 THEN 0 ELSE Longer(g, i)
      OBVIOUS
    <3>1. CASE i = 0
      BY <2>1, <2>3, <2>4, <3>1
    <3>2. CASE i \in 1 .. n
      <4>1. i \in 1 .. (n + 1) /\ i \in 0 .. n
        BY <2>1, <3>2
      <4> QED
        BY <2>3, <2>4, <2>6, <3>2, <4>1
    <3>3. CASE i = n + 1
      <4>1. i \in 1 .. (n + 1) /\ i # 0
        BY <2>1, <3>3
      <4> QED
        BY <2>5, <2>6, <3>3, <4>1
    <3> QED
      BY <2>1, <3>1, <3>2, <3>3
  <2>8. g = [i \in 0 .. (n + 1) |-> g[i]]
    OBVIOUS
  <2> HIDE DEF g
  <2>9. Solves(g, n + 1)
    BY <2>7, <2>8, Zenon DEF Solves
  <2> QED
    BY <2>1, <2>9 DEF S
<1>3. \A f, n : Solves(f, n) <=> Adds(f, s, b, n)
  BY Zenon DEF Adds
<1> HIDE DEF Solves
<1>4. S = Nat
  <2>1. S \in SUBSET Nat
    OBVIOUS
  <2> HIDE DEF S
  <2> QED
    BY <1>1, <1>2, <2>1, SetInduction
<1>5. \A n \in Nat : \E f : Solves(f, n)
  BY <1>4
<1> QED
  BY <1>3, <1>5, Zenon

\* The numbers of the prefixes of s: natural, each from the one before, and none
\* above the whole.
LEMMA SumFacts ==
  ASSUME NEW s \in Seq(Byte), NEW b \in {10, 16}, NEW f, f = SumOf(s, b)
  PROVE  /\ f[0] = 0
         /\ \A i \in 1 .. Len(s) :
              /\ f[i] = f[i - 1] * b + DigitOf(s[i], b)
              /\ DigitOf(s[i], b) \in 0 .. 16
         /\ \A i \in 0 .. Len(s) : f[i] \in Nat /\ f[i] <= f[Len(s)]
<1> DEFINE d(i) == DigitOf(s[i], b)
           n == Len(s)
<1>1. n \in Nat
  BY LenProperties
<1>2. f = [i \in 0 .. n |-> IF i = 0 THEN 0 ELSE f[i - 1] * b + d(i)]
  <2>1. \E h : Adds(h, s, b, Len(s))
    BY <1>1, SumExists, Zenon
  <2>2. Adds(f, s, b, Len(s))
    BY <2>1, Zenon DEF SumOf
  <2> QED
    BY <2>2, Zenon DEF Adds
<1>3. \A i \in 1 .. n : d(i) \in 0 .. 16
  BY ElementOfSeq, DigitRange
<1> HIDE DEF d
<1>4. \A i \in 0 .. n : f[i] = IF i = 0 THEN 0 ELSE f[i - 1] * b + d(i)
  BY <1>2, Zenon
<1> HIDE DEF n
<1>5. f[0] = 0 /\ \A i \in 1 .. n : f[i] = f[i - 1] * b + d(i)
  <2>1. 0 \in 0 .. n /\ \A i \in 1 .. n : i \in 0 .. n /\ i # 0
    BY <1>1
  <2> QED
    BY <1>4, <2>1, Zenon
<1>6. ASSUME NEW x \in Nat, NEW y \in 0 .. 16
      PROVE  x * b + y \in Nat /\ x <= x * b + y
  <2>1. CASE b = 10
    BY <1>6, <2>1, SMT
  <2>2. CASE b = 16
    BY <1>6, <2>2, SMT
  <2> QED
    BY <2>1, <2>2
<1>7. \A i \in 0 .. n : f[i] \in Nat
  <2> DEFINE S == {k \in Nat : k <= n => f[k] \in Nat}
  <2>1. 0 \in S
    BY <1>1, <1>5
  <2>2. ASSUME NEW k \in S
        PROVE  k + 1 \in S
    <3>1. k \in Nat /\ k + 1 \in Nat
      OBVIOUS
    <3>2. CASE k + 1 <= n
      <4>1. k + 1 \in 1 .. n /\ k <= n /\ (k + 1) - 1 = k
        BY <1>1, <3>1, <3>2
      <4>2. f[k] \in Nat
        BY <4>1
      <4>3. f[k + 1] = f[k] * b + d(k + 1) /\ d(k + 1) \in 0 .. 16
        BY <1>3, <1>5, <4>1
      <4>4. f[k + 1] \in Nat
        BY <1>6, <4>2, <4>3
      <4> QED
        BY <3>1, <4>4
    <3> QED
      BY <3>1, <3>2
  <2>3. S \in SUBSET Nat
    OBVIOUS
  <2>4. S = Nat
    <3> HIDE DEF S
    <3> QED
      BY <2>1, <2>2, <2>3, SetInduction
  <2>5. ASSUME NEW i \in 0 .. n
        PROVE  f[i] \in Nat
    <3>1. i \in S /\ i <= n
      BY <1>1, <2>4
    <3> QED
      BY <3>1
  <2> QED
    BY <2>5
<1>8. ASSUME NEW i \in 0 .. n
      PROVE  f[i] <= f[n]
  <2> DEFINE S == {k \in Nat : i + k <= n => f[i] <= f[i + k]}
  <2>1. 0 \in S
    BY <1>7
  <2>2. ASSUME NEW k \in S
        PROVE  k + 1 \in S
    <3>1. k \in Nat /\ k + 1 \in Nat /\ i \in Nat
      OBVIOUS
    <3>2. CASE i + (k + 1) <= n
      <4> DEFINE j == i + k
      <4>1. /\ j \in 0 .. n /\ j + 1 \in 1 .. n /\ j + 1 = i + (k + 1)
            /\ (j + 1) - 1 = j
        BY <1>1, <3>1, <3>2
      <4>2. f[i] <= f[j]
        BY <4>1
      <4> HIDE DEF j, S
      <4>3. f[j + 1] = f[j] * b + d(j + 1) /\ d(j + 1) \in 0 .. 16
        BY <1>3, <1>5, <4>1
      <4>4. f[j] <= f[j + 1] /\ f[i] \in Nat /\ f[j] \in Nat /\ f[j + 1] \in Nat
        BY <1>6, <1>7, <4>1, <4>3
      <4>5. f[i] <= f[j + 1]
        BY <4>2, <4>4
      <4> QED
        BY <3>1, <4>1, <4>5 DEF S
    <3> QED
      BY <3>1, <3>2
  <2>3. S \in SUBSET Nat
    OBVIOUS
  <2>4. S = Nat
    <3> HIDE DEF S
    <3> QED
      BY <2>1, <2>2, <2>3, SetInduction
  <2>5. n - i \in Nat /\ i + (n - i) = n
    BY <1>1
  <2>6. n - i \in S
    BY <2>4, <2>5, Zenon
  <2> QED
    BY <1>1, <2>5, <2>6
<1> QED
  BY <1>3, <1>5, <1>7, <1>8 DEF d, n

\* The parser's bound, as TakesExactlyNumbers puts it.
Bound(p) == IF p = "uint32" THEN 2 * IndexLimit ELSE IndexLimit

\* In the loop, what was read is what the digits before pos spell, and each is a
\* digit of the base; a number that is accepted was read to its end.
Counted ==
  /\ pc = "start" => total = 0
  /\ pc = "loop" =>
       /\ body # <<>>
       /\ total = SumOf(body, base)[pos]
       /\ \A i \in 1 .. pos : DigitOf(body[i], base) < base
  /\ outcome = "accepted" => total = Spells(body, base)

\* Markers and prefixes are off before the loop, and only coins are hexadecimal.
BodyCut ==
  /\ parser # "uint32" => base = 10
  /\ pc = "start" => body = text
  /\ (parser = "segment" /\ pc # "start") =>
       body = IF HasMarker(text) THEN SubSeq(text, 1, Len(text) - 1) ELSE text

ReadInv == IInv /\ Counted /\ BodyCut /\ TakesExactlyNumbers

\* The bound of a parser, as a number.
LEMMA FitsIsBound ==
  ASSUME NEW p, NEW v
  PROVE  Fits(p, v) <=> v < Bound(p)
BY DEF Fits, Bound

\* The counting invariant holds before the call.
LEMMA ReadInit == Init => ReadInv
<1> SUFFICES ASSUME Init PROVE ReadInv
  OBVIOUS
<1>1. IInv
  BY InitHolds
<1>2. Counted /\ BodyCut /\ TakesExactlyNumbers
  BY DEF Init, Counted, BodyCut, TakesExactlyNumbers
<1> QED
  BY <1>1, <1>2 DEF ReadInv

\* Choosing base and body keeps it: nothing has been read.
LEMMA ReadStart ==
  ASSUME ReadInv, Start
  PROVE  ReadInv'
<1>1. IInv /\ IInv'
  BY StartKeeps DEF ReadInv
<1>2. pc = "start" /\ pos = 0 /\ total = 0 /\ outcome = "running"
  BY <1>1 DEF Start, ReadInv, Counted, IInv, Progress
<1>3. UNCHANGED <<parser, text, pos, value, total>>
  BY DEF Start
<1>4. BodyCut'
  <2>1. parser # "uint32" => base' = 10
    BY DEF ReadInv, BodyCut, Start
  <2>2. body = text
    BY <1>2 DEF ReadInv, BodyCut
  <2>3. parser = "segment" =>
          body' = IF HasMarker(text) THEN SubSeq(text, 1, Len(text) - 1)
                  ELSE text
    BY <2>2 DEF Start
  <2>4. pc' # "start"
    BY DEF Start, End
  <2> QED
    BY <1>3, <2>1, <2>3, <2>4 DEF BodyCut
<1>5. body' \in Seq(Byte) /\ base' \in {10, 16}
  BY <1>1 DEF IInv, TypeOK
<1>6. CASE body' = <<>>
  <2>1. outcome' = "rejected" /\ pc' = "done"
    BY <1>6 DEF Start, End
  <2>2. Counted' /\ TakesExactlyNumbers'
    BY <1>6, <2>1 DEF Counted, TakesExactlyNumbers
  <2> QED
    BY <1>1, <1>4, <2>2 DEF ReadInv
<1>7. CASE body' # <<>>
  <2>1. outcome' = "running" /\ pc' = "loop"
    BY <1>2, <1>7 DEF Start
  <2>2. SumOf(body', base')[0] = 0
    BY <1>5, SumFacts
  <2>3. Counted' /\ TakesExactlyNumbers'
    BY <1>2, <1>3, <1>7, <2>1, <2>2 DEF Counted, TakesExactlyNumbers
  <2> QED
    BY <1>1, <1>4, <2>3 DEF ReadInv
<1> QED
  BY <1>6, <1>7

\* A number that does not fit the accumulator fits no bound, however it goes on.
LEMMA TooLong ==
  ASSUME NEW s \in Seq(Byte), NEW b \in {10, 16}, NEW i \in 0 .. Len(s),
         SumOf(s, b)[i] >= AccLimit, NEW p
  PROVE  ~ (Spells(s, b) < Bound(p))
<1> DEFINE f == SumOf(s, b)
           n == Len(s)
<1>1. f[i] \in Nat /\ f[i] <= f[n] /\ f[n] \in Nat
  <2>1. n \in 0 .. Len(s)
    BY LenProperties
  <2> QED
    BY <2>1, SumFacts
<1>2. f[i] >= AccLimit
  OBVIOUS
<1>3. Spells(s, b) = f[n]
  BY SpellsIsSum
<1> HIDE DEF f, n
<1>4. f[n] >= AccLimit
  BY <1>1, <1>2, AccLimitAssumption
<1>5. Bound(p) \in Nat /\ Bound(p) < AccLimit
  BY AccLimitAssumption, IndexLimitAssumption DEF Bound
<1> QED
  BY <1>1, <1>3, <1>4, <1>5, AccLimitAssumption

\* A turn of the loop keeps it: the total is the sum of the digits read, and a
\* refusal means that the whole text is refused.
LEMMA ReadReadDigit ==
  ASSUME ReadInv, ReadDigit
  PROVE  ReadInv'
<1> DEFINE d == DigitOf(body[pos + 1], base)
           f == SumOf(body, base)
<1>1. IInv /\ IInv' /\ Counted /\ BodyCut
  BY ReadDigitKeeps DEF ReadInv
<1>2. /\ body \in Seq(Byte) /\ base \in {10, 16} /\ value = total
      /\ value \in Nat /\ outcome = "running" /\ pc = "loop"
      /\ pos \in Nat /\ pos < Len(body) /\ Len(body) \in Nat
  BY <1>1, LenProperties
  DEF IInv, TypeOK, NothingWraps, Progress, ReadDigit
<1>3. /\ body # <<>> /\ total = f[pos]
      /\ \A i \in 1 .. pos : DigitOf(body[i], base) < base
  BY <1>1, <1>2 DEF Counted
<1>4. pos + 1 \in 1 .. Len(body) /\ pos \in 0 .. Len(body)
  BY <1>2
<1>5. /\ f[pos + 1] = f[pos] * base + d
      /\ d \in 0 .. 16
  <2>1. (pos + 1) - 1 = pos
    BY <1>2
  <2> QED
    BY <1>2, <1>4, <2>1, SumFacts
<1>6. UNCHANGED <<parser, text, body, base>>
  BY DEF ReadDigit
<1>7. BodyCut'
  <2>1. pc' # "start"
    BY <1>2 DEF ReadDigit, End
  <2> QED
    BY <1>1, <1>2, <1>6, <2>1 DEF BodyCut
<1> HIDE DEF f
<1>8. CASE d >= base \/ Overflows(value, d, base)
  <2>1. outcome' = "rejected" /\ pc' = "done"
    BY <1>8 DEF ReadDigit, End
  <2>2. ~ /\ \A i \in DOMAIN body : DigitOf(body[i], base) < base
          /\ Spells(body, base) < Bound(parser)
    <3>1. CASE d >= base
      <4>1. pos + 1 \in DOMAIN body
        BY <1>2, <1>4
      <4>2. ~ (d < base)
        BY <1>2, <1>5, <3>1
      <4> QED
        BY <4>1, <4>2
    <3>2. CASE ~ (d >= base) /\ Overflows(value, d, base)
      <4>1. d \in 0 .. (base - 1)
        <5>1. ~ (d >= base)
          BY <3>2
        <5> HIDE DEF d
        <5> QED
          BY <1>2, <1>5, <5>1
      <4> HIDE DEF d
      <4>2. value * base + d >= AccLimit
        BY <1>2, <3>2, <4>1, OverflowIsExact
      <4>3. f[pos + 1] >= AccLimit
        BY <1>2, <1>3, <1>5, <4>2
      <4>4. pos + 1 \in 0 .. Len(body)
        BY <1>2, <1>4
      <4> QED
        BY <1>2, <4>3, <4>4, TooLong DEF f
    <3> QED
      BY <1>8, <3>1, <3>2
  <2>3. TakesExactlyNumbers'
    BY <1>2, <1>3, <1>6, <2>1, <2>2 DEF TakesExactlyNumbers, Bound
  <2>4. Counted'
    BY <2>1 DEF Counted
  <2> QED
    BY <1>1, <1>7, <2>3, <2>4 DEF ReadInv
<1>9. CASE ~ (d >= base \/ Overflows(value, d, base))
  <2>1. /\ total' = total * base + d /\ pos' = pos + 1
        /\ UNCHANGED <<pc, outcome>>
    BY <1>9 DEF ReadDigit
  <2>2. d < base
    BY <1>2, <1>5, <1>9
  <2> HIDE DEF d
  <2>3. total' = f[pos']
    BY <1>3, <1>5, <2>1
  <2>4. \A i \in 1 .. pos' : DigitOf(body[i], base) < base
    <3> SUFFICES ASSUME NEW i \in 1 .. (pos + 1)
                 PROVE  DigitOf(body[i], base) < base
      BY <2>1
    <3>1. i \in 1 .. pos \/ i = pos + 1
      BY <1>2
    <3> QED
      BY <1>3, <2>2, <3>1 DEF d
  <2>5. Counted'
    BY <1>2, <1>3, <1>6, <2>1, <2>3, <2>4 DEF Counted, f
  <2>6. TakesExactlyNumbers'
    BY <1>2, <2>1 DEF TakesExactlyNumbers
  <2> QED
    BY <1>1, <1>7, <2>5, <2>6 DEF ReadInv
<1> QED
  BY <1>8, <1>9

\* At the end of the loop the total is what the text spells.
LEMMA ReadConclude ==
  ASSUME ReadInv, Conclude
  PROVE  ReadInv'
<1>1. IInv /\ IInv' /\ Counted /\ BodyCut
  BY ConcludeKeeps DEF ReadInv
<1>2. /\ body \in Seq(Byte) /\ value = total /\ pc = "loop"
      /\ pos = Len(body) /\ UNCHANGED <<parser, text, body, base, total>>
  BY <1>1 DEF IInv, TypeOK, NothingWraps, Conclude
<1>3. /\ pc' = "done"
      /\ outcome' = IF Fits(parser, value) THEN "accepted" ELSE "rejected"
  BY DEF Conclude, End
<1>4. BodyCut'
  BY <1>1, <1>2, <1>3 DEF BodyCut
<1>5. /\ body # <<>> /\ total = Spells(body, base)
      /\ \A i \in DOMAIN body : DigitOf(body[i], base) < base
  <2>1. DOMAIN body = 1 .. Len(body)
    BY <1>2, LenProperties
  <2> QED
    BY <1>1, <1>2, <2>1, SpellsIsSum DEF Counted
<1>6. outcome' = "accepted" <=> Spells(body, base) < Bound(parser)
  BY <1>2, <1>3, <1>5, FitsIsBound
<1>7. TakesExactlyNumbers'
  <2>1. value' = value
    BY DEF Conclude
  <2> QED
    BY <1>2, <1>3, <1>5, <1>6, <2>1 DEF TakesExactlyNumbers, Bound
<1>8. Counted'
  BY <1>2, <1>3, <1>5 DEF Counted
<1> QED
  BY <1>1, <1>4, <1>7, <1>8 DEF ReadInv

\* The counting invariant holds at every step.
LEMMA ReadHolds == Spec => []ReadInv
<1>1. ReadInv /\ [Next]_vars => ReadInv'
  <2> SUFFICES ASSUME ReadInv, [Next]_vars PROVE ReadInv'
    OBVIOUS
  <2>1. CASE UNCHANGED vars
    <3>1. IInv'
      BY <2>1, StepHolds DEF ReadInv
    <3>2. Counted' /\ BodyCut' /\ TakesExactlyNumbers'
      BY <2>1 DEF ReadInv, Counted, BodyCut, TakesExactlyNumbers, vars
    <3> QED
      BY <3>1, <3>2 DEF ReadInv
  <2> QED
    BY <2>1, ReadStart, ReadReadDigit, ReadConclude DEF Next
<1> QED
  BY <1>1, ReadInit, PTL DEF Spec

\* Exactly the spellings of numbers below the parser's bound are taken, each as
\* the number it spells, for every width of the accumulator that holds the
\* bounds: refusing a number as soon as it outgrows the accumulator refuses
\* nothing that fits (TakesExactlyNumbers).
THEOREM NumbersAreTaken == Spec => []TakesExactlyNumbers
<1>1. ReadInv => TakesExactlyNumbers
  BY DEF ReadInv
<1> QED
  BY <1>1, ReadHolds, PTL

-----------------------------------------------------------------------------
(* A level, and its one spelling *)

\* Only the ten digits are digits of base 10.
LEMMA DecimalDigits ==
  ASSUME NEW c \in Byte
  PROVE  /\ DigitOf(c, 10) < 10 <=> c \in DecimalDigit
         /\ c \in DecimalDigit => DigitOf(c, 10) = c - 48
BY DEF DigitOf, DecimalDigit, Byte

\* A segment that was read is the segment the models of paths take the same text
\* for, and the level is its level (LevelAsModelled).
THEOREM SegmentsAreLevels == Spec => []LevelAsModelled
<1> SUFFICES ReadInv => LevelAsModelled
  BY ReadHolds, PTL
<1> SUFFICES ASSUME ReadInv, pc = "done", parser = "segment"
             PROVE  /\ outcome = "accepted" <=> ParseSegmentOk(SegmentOf)
                    /\ outcome = "accepted" =>
                         RawLevel(SegmentOf) =
                           [index |-> value, hard |-> HasMarker(text),
                            exact |-> Exact]
  BY DEF LevelAsModelled
<1> DEFINE marked == HasMarker(text)
           isNumber == body # <<>> /\ \A i \in DOMAIN body : body[i] \in DecimalDigit
           mark == IF ~ marked THEN ""
                   ELSE CASE text[Len(text)] = 39  -> "'"
                          [] text[Len(text)] = 104 -> "h"
                          [] OTHER                 -> "H"
           seg == [digits |-> isNumber,
                   val    |-> IF isNumber THEN Spells(body, 10) ELSE 0,
                   pad    |-> isNumber /\ Len(body) > 1 /\ body[1] = 48,
                   mark   |-> mark]
<1>1. /\ body \in Seq(Byte) /\ base = 10 /\ value = total
      /\ body = IF marked THEN SubSeq(text, 1, Len(text) - 1) ELSE text
  BY DEF ReadInv, IInv, TypeOK, NothingWraps, BodyCut
<1>2. SegmentOf = seg
  BY <1>1, Zenon DEF SegmentOf
<1>3. isNumber <=> /\ body # <<>>
                   /\ \A i \in DOMAIN body : DigitOf(body[i], 10) < 10
  <2>1. \A i \in DOMAIN body : body[i] \in Byte
    BY <1>1
  <2> QED
    BY <2>1, DecimalDigits, Zenon
<1>4. outcome = "accepted" <=> isNumber /\ Spells(body, 10) < IndexLimit
  BY <1>1, <1>3 DEF ReadInv, TakesExactlyNumbers
<1>5. mark \in HardeningMarkers <=> marked
  <2> HIDE DEF marked
  <2>1. CASE ~ marked
    <3>1. mark = ""
      BY <2>1
    <3> QED
      BY <2>1, <3>1 DEF HardeningMarkers
  <2>2. CASE marked
    <3>1. mark \in {"'", "h", "H"}
      BY <2>2
    <3> QED
      BY <2>2, <3>1 DEF HardeningMarkers
  <2> QED
    BY <2>1, <2>2
<1> HIDE DEF isNumber, mark, marked
<1>6. /\ seg.digits = isNumber /\ seg.mark = mark
      /\ seg.val = IF isNumber THEN Spells(body, 10) ELSE 0
      /\ seg.pad = (isNumber /\ Len(body) > 1 /\ body[1] = 48)
  OBVIOUS
<1> HIDE DEF seg
<1>7. outcome = "accepted" <=> ParseSegmentOk(SegmentOf)
  BY <1>2, <1>4, <1>6, Zenon DEF ParseSegmentOk
<1>8. ASSUME outcome = "accepted"
      PROVE  RawLevel(SegmentOf) = [index |-> value, hard |-> HasMarker(text),
                                    exact |-> Exact]
  <2>1. isNumber /\ value = Spells(body, 10)
    BY <1>1, <1>4, <1>8 DEF ReadInv, Counted
  <2>2. seg.val = value
    BY <1>6, <2>1
  <2>3. (seg.mark \in HardeningMarkers) = HasMarker(text)
    <3>1. HasMarker(text) \in BOOLEAN /\ (seg.mark \in HardeningMarkers) \in BOOLEAN
      BY DEF HasMarker
    <3>2. seg.mark \in HardeningMarkers <=> HasMarker(text)
      BY <1>5, <1>6, Zenon DEF marked
    <3> QED
      BY <3>1, <3>2
  <2>4. (~ seg.pad) = Exact
    <3>1. Len(body) \in Nat /\ Len(body) # 0
      <4>1. body # <<>>
        BY <2>1, Zenon DEF isNumber
      <4>2. body \in Seq(Byte)
        BY <1>1
      <4> HIDE DEF seg
      <4> QED
        BY <4>1, <4>2, EmptySeq, LenProperties
    <3>2. Exact <=> ~ (Len(body) > 1 /\ body[1] = 48)
      <4>1. \A n \in Nat : n # 0 => (n = 1 <=> ~ (n > 1))
        OBVIOUS
      <4>2. Len(body) = 1 <=> ~ (Len(body) > 1)
        BY <3>1, <4>1, Zenon
      <4> QED
        BY <4>2, Zenon DEF Exact
    <3>3. seg.pad <=> (Len(body) > 1 /\ body[1] = 48)
      BY <1>6, <2>1, Zenon
    <3>4. Exact \in BOOLEAN /\ (~ seg.pad) \in BOOLEAN
      BY DEF Exact
    <3> QED
      BY <3>2, <3>3, <3>4
  <2> QED
    BY <1>2, <2>2, <2>3, <2>4, Zenon DEF RawLevel
<1> QED
  BY <1>7, <1>8

\* The recursion of Decimal, as an equation on the numbers in N.
Prints(f, N) ==
  f = [k \in N |-> IF k < 10 THEN <<48 + k>>
                   ELSE Append(f[k \div 10], 48 + (k % 10))]

\* A number of two digits or more is larger than its tenth.
LEMMA TenthIsLess ==
  ASSUME NEW k \in Nat, ~ (k < 10)
  PROVE  k \div 10 \in Nat /\ k \div 10 < k /\ k \div 10 # 0
OBVIOUS

\* Two solutions agree as far as both go.
LEMMA PrintsUnique ==
  ASSUME NEW m \in Nat, NEW n \in Nat, NEW f, NEW g,
         Prints(f, 0 .. m), Prints(g, 0 .. n)
  PROVE  \A k \in Nat : k <= m /\ k <= n => f[k] = g[k]
<1> DEFINE Digits(h, k) == IF k < 10 THEN <<48 + k>>
                           ELSE Append(h[k \div 10], 48 + (k % 10))
           Agree(j) == j <= m /\ j <= n => f[j] = g[j]
           S == {k \in Nat : \A j \in 0 .. k : Agree(j)}
<1>1. /\ \A j \in 0 .. m : f[j] = Digits(f, j)
      /\ \A j \in 0 .. n : g[j] = Digits(g, j)
  BY Zenon DEF Prints
<1>2. ASSUME NEW k \in Nat, \A j \in Nat : j < k => Agree(j)
      PROVE  Agree(k)
  <2>1. SUFFICES ASSUME k <= m, k <= n PROVE f[k] = g[k]
    OBVIOUS
  <2>2. k \in 0 .. m /\ k \in 0 .. n
    BY <2>1
  <2>3. f[k] = Digits(f, k) /\ g[k] = Digits(g, k)
    BY <1>1, <2>2, Zenon
  <2>4. CASE k < 10
    BY <2>3, <2>4
  <2>5. CASE ~ (k < 10)
    <3>1. k \div 10 \in Nat /\ k \div 10 < k
      BY <2>5, TenthIsLess
    <3>2. k \div 10 <= m /\ k \div 10 <= n
      BY <2>1, <3>1
    <3>3. f[k \div 10] = g[k \div 10]
      BY <1>2, <3>1, <3>2
    <3> QED
      BY <2>3, <2>5, <3>3, Zenon
  <2> QED
    BY <2>4, <2>5
<1> HIDE DEF Agree
<1>3. 0 \in S
  <2>1. Agree(0)
    BY <1>2
  <2>2. \A j \in 0 .. 0 : j = 0
    OBVIOUS
  <2> QED
    BY <2>1, <2>2
<1>4. ASSUME NEW k \in S
      PROVE  k + 1 \in S
  <2>1. k \in Nat /\ k + 1 \in Nat /\ \A j \in 0 .. k : Agree(j)
    OBVIOUS
  <2>2. \A j \in Nat : j < k + 1 => j \in 0 .. k
    BY <2>1
  <2>3. Agree(k + 1)
    BY <1>2, <2>1, <2>2
  <2>4. \A j \in 0 .. (k + 1) : j \in 0 .. k \/ j = k + 1
    BY <2>1
  <2> QED
    BY <2>1, <2>3, <2>4
<1>5. S = Nat
  <2>1. S \in SUBSET Nat
    OBVIOUS
  <2> HIDE DEF S
  <2> QED
    BY <1>3, <1>4, <2>1, SetInduction
<1>6. ASSUME NEW k \in Nat
      PROVE  Agree(k)
  <2>1. k \in S
    BY <1>5, Zenon
  <2>2. k \in 0 .. k
    OBVIOUS
  <2> QED
    BY <2>1, <2>2
<1> QED
  BY <1>6 DEF Agree

\* There is a solution up to every number, and hence one for all of them.
LEMMA PrintsUpTo == \A n \in Nat : \E f : Prints(f, 0 .. n)
<1> DEFINE Digits(h, k) == IF k < 10 THEN <<48 + k>>
                           ELSE Append(h[k \div 10], 48 + (k % 10))
           S == {n \in Nat : \E f : Prints(f, 0 .. n)}
<1>1. 0 \in S
  <2> DEFINE f == [k \in 0 .. 0 |-> <<48 + k>>]
  <2>1. \A k \in 0 .. 0 : k < 10
    OBVIOUS
  <2>2. Prints(f, 0 .. 0)
    BY <2>1 DEF Prints
  <2> QED
    BY <2>2, Zenon
<1>2. ASSUME NEW n \in S
      PROVE  n + 1 \in S
  <2>1. n \in Nat /\ n + 1 \in Nat
    OBVIOUS
  <2>2. PICK f : Prints(f, 0 .. n)
    OBVIOUS
  <2>3. \A k \in 0 .. n : f[k] = Digits(f, k)
    BY <2>2, Zenon DEF Prints
  <2> DEFINE g == [k \in 0 .. (n + 1) |-> IF k = n + 1 THEN Digits(f, n + 1)
                                          ELSE f[k]]
  <2> HIDE DEF S
  <2>4. \A k \in 0 .. n : k \in 0 .. (n + 1) /\ k # n + 1
    BY <2>1
  <2>5. \A k \in 0 .. n : g[k] = f[k]
    <3> HIDE DEF Digits
    <3> QED
      BY <2>4
  <2>6. n + 1 \in 0 .. (n + 1)
    BY <2>1
  <2>7. g[n + 1] = Digits(f, n + 1)
    <3> HIDE DEF Digits
    <3> QED
      BY <2>6
  <2>8. ASSUME NEW k \in 0 .. (n + 1)
        PROVE  Digits(g, k) = Digits(f, k)
    <3>1. CASE k < 10
      BY <3>1, Zenon
    <3>2. CASE ~ (k < 10)
      <4>1. k \div 10 \in 0 .. n
        BY <2>1, <3>2, TenthIsLess
      <4>2. g[k \div 10] = f[k \div 10]
        BY <2>5, <4>1, Zenon
      <4> HIDE DEF g
      <4> QED
        BY <3>2, <4>2, Zenon
    <3> QED
      BY <3>1, <3>2
  <2> HIDE DEF Digits
  <2>9. \A k \in 0 .. (n + 1) : g[k] = Digits(g, k)
    <3> SUFFICES ASSUME NEW k \in 0 .. (n + 1) PROVE g[k] = Digits(g, k)
      OBVIOUS
    <3>1. k \in 0 .. n \/ k = n + 1
      BY <2>1
    <3> HIDE DEF g
    <3> QED
      BY <2>3, <2>5, <2>7, <2>8, <3>1
  <2>10. g = [k \in 0 .. (n + 1) |-> g[k]]
    OBVIOUS
  <2> HIDE DEF g
  <2>11. Prints(g, 0 .. (n + 1))
    BY <2>9, <2>10, Zenon DEF Prints, Digits
  <2> QED
    BY <2>1, <2>11, Zenon DEF S
<1>3. S = Nat
  <2>1. S \in SUBSET Nat
    OBVIOUS
  <2> HIDE DEF S
  <2> QED
    BY <1>1, <1>2, <2>1, SetInduction
<1> QED
  BY <1>3

\* The equation of Decimal: the last digit of a longer number stands behind the
\* digits of its tenth.
LEMMA DecimalFacts ==
  ASSUME NEW k \in Nat
  PROVE  Decimal(k) = IF k < 10 THEN <<48 + k>>
                      ELSE Append(Decimal(k \div 10), 48 + (k % 10))
<1> DEFINE Digits(h, j) == IF j < 10 THEN <<48 + j>>
                           ELSE Append(h[j \div 10], 48 + (j % 10))
           Upto(j) == CHOOSE f : Prints(f, 0 .. j)
           F == [j \in Nat |-> Upto(j)[j]]
           G == CHOOSE f : Prints(f, Nat)
<1>1. \A j \in Nat : Prints(Upto(j), 0 .. j)
  BY PrintsUpTo, Zenon
<1>2. \A f, N : Prints(f, N) <=> f = [j \in N |-> Digits(f, j)]
  BY Zenon DEF Prints
<1> HIDE DEF Upto
<1>3. \A j \in Nat : F[j] = Upto(j)[j]
  OBVIOUS
<1>4. \A j \in Nat : F[j] = Digits(F, j)
  <2> SUFFICES ASSUME NEW j \in Nat PROVE F[j] = Digits(F, j)
    OBVIOUS
  <2>1. j \in 0 .. j
    OBVIOUS
  <2>2. Upto(j)[j] = Digits(Upto(j), j)
    <3> HIDE DEF Digits, F
    <3>1. Upto(j) = [i \in 0 .. j |-> Digits(Upto(j), i)]
      BY <1>1, <1>2, Zenon
    <3> QED
      BY <2>1, <3>1, Zenon
  <2>3. CASE j < 10
    BY <1>3, <2>2, <2>3, Zenon
  <2>4. CASE ~ (j < 10)
    <3> DEFINE t == j \div 10
    <3>1. t \in Nat /\ t <= j /\ t <= t
      BY <2>4, TenthIsLess
    <3> HIDE DEF t, F
    <3>2. Upto(j)[t] = Upto(t)[t]
      <4>1. Prints(Upto(j), 0 .. j) /\ Prints(Upto(t), 0 .. t)
        BY <1>1, <3>1
      <4> QED
        BY <3>1, <4>1, PrintsUnique
    <3>3. Upto(j)[t] = F[t]
      BY <1>3, <3>1, <3>2, Zenon
    <3> QED
      BY <1>3, <2>2, <2>4, <3>3, Zenon DEF t
  <2> QED
    BY <2>3, <2>4
<1>5. F = [j \in Nat |-> F[j]]
  OBVIOUS
<1> HIDE DEF F
<1>6. Prints(F, Nat)
  <2> HIDE DEF Digits
  <2> QED
    BY <1>2, <1>4, <1>5, Zenon
<1>7. Prints(G, Nat)
  BY <1>6, Zenon
<1>8. \A j : Decimal(j) = G[j]
  BY Zenon DEF Decimal, Prints
<1> HIDE DEF G
<1>9. G[k] = Digits(G, k)
  <2> HIDE DEF Digits
  <2> QED
    BY <1>2, <1>7, Zenon
<1> QED
  BY <1>8, <1>9, Zenon

\* No number but zero is printed with a leading zero.
LEMMA NoLeadingZero ==
  \A k \in Nat : /\ Decimal(k) \in Seq(Nat) /\ Len(Decimal(k)) >= 1
                 /\ k # 0 => Decimal(k)[1] # 48
<1> DEFINE Good(k) == /\ Decimal(k) \in Seq(Nat) /\ Len(Decimal(k)) >= 1
                      /\ k # 0 => Decimal(k)[1] # 48
           S == {k \in Nat : \A j \in 0 .. k : Good(j)}
<1>1. ASSUME NEW k \in Nat, \A j \in Nat : j < k => Good(j)
      PROVE  Good(k)
  <2>1. CASE k < 10
    <3>1. Decimal(k) = <<48 + k>>
      BY <2>1, DecimalFacts
    <3> QED
      BY <3>1
  <2>2. CASE ~ (k < 10)
    <3> DEFINE t == Decimal(k \div 10)
    <3>1. Decimal(k) = Append(t, 48 + (k % 10))
      BY <2>2, DecimalFacts
    <3>2. t \in Seq(Nat) /\ Len(t) >= 1 /\ t[1] # 48
      BY <1>1, <2>2, TenthIsLess
    <3>3. 48 + (k % 10) \in Nat
      OBVIOUS
    <3> HIDE DEF t
    <3> QED
      BY <3>1, <3>2, <3>3
  <2> QED
    BY <2>1, <2>2
<1> HIDE DEF Good
<1>2. 0 \in S
  <2>1. Good(0)
    BY <1>1
  <2>2. \A j \in 0 .. 0 : j = 0
    OBVIOUS
  <2> QED
    BY <2>1, <2>2
<1>3. ASSUME NEW k \in S
      PROVE  k + 1 \in S
  <2>1. k \in Nat /\ k + 1 \in Nat /\ \A j \in 0 .. k : Good(j)
    OBVIOUS
  <2>2. \A j \in Nat : j < k + 1 => j \in 0 .. k
    BY <2>1
  <2>3. Good(k + 1)
    BY <1>1, <2>1, <2>2
  <2>4. \A j \in 0 .. (k + 1) : j \in 0 .. k \/ j = k + 1
    BY <2>1
  <2> QED
    BY <2>1, <2>3, <2>4
<1>4. S = Nat
  <2>1. S \in SUBSET Nat
    OBVIOUS
  <2> HIDE DEF S
  <2> QED
    BY <1>2, <1>3, <2>1, SetInduction
<1>5. ASSUME NEW k \in Nat
      PROVE  Good(k)
  <2>1. k \in S
    BY <1>4, Zenon
  <2>2. k \in 0 .. k
    OBVIOUS
  <2> QED
    BY <2>1, <2>2
<1> QED
  BY <1>5 DEF Good

\* A digit string without a leading zero is what its number prints.
LEMMA SpelledIsPrinted ==
  ASSUME NEW s \in Seq(Byte), s # <<>>,
         \A i \in DOMAIN s : s[i] \in DecimalDigit,
         Len(s) = 1 \/ s[1] # 48
  PROVE  Decimal(Spells(s, 10)) = s
<1> DEFINE f == SumOf(s, 10)
           n == Len(s)
           d(i) == DigitOf(s[i], 10)
<1>1. n \in Nat /\ n >= 1 /\ DOMAIN s = 1 .. n
  BY EmptySeq, LenProperties
<1>2. /\ f[0] = 0
      /\ \A i \in 1 .. n : f[i] = f[i - 1] * 10 + d(i)
      /\ \A i \in 0 .. n : f[i] \in Nat
  BY SumFacts
<1>3. \A i \in 1 .. n : d(i) = s[i] - 48 /\ d(i) \in 0 .. 9 /\ s[i] \in Nat
  <2> SUFFICES ASSUME NEW i \in 1 .. n
               PROVE  d(i) = s[i] - 48 /\ d(i) \in 0 .. 9 /\ s[i] \in Nat
    OBVIOUS
  <2>1. s[i] \in Byte /\ s[i] \in DecimalDigit
    BY <1>1
  <2>2. d(i) = s[i] - 48
    BY <2>1, DecimalDigits
  <2>3. s[i] \in 48 .. 57
    BY <2>1 DEF DecimalDigit
  <2> HIDE DEF d
  <2> QED
    BY <2>2, <2>3
<1>4. Spells(s, 10) = f[n]
  BY SpellsIsSum
<1> HIDE DEF f, d
<1>5. f[1] = s[1] - 48 /\ f[1] \in 0 .. 9
  <2>1. 1 \in 1 .. n /\ 1 - 1 = 0
    BY <1>1
  <2>2. f[1] = f[0] * 10 + d(1)
    BY <1>2, <2>1
  <2> QED
    BY <1>2, <1>3, <2>1, <2>2
<1>6. Decimal(f[1]) = SubSeq(s, 1, 1)
  <2>1. f[1] \in Nat /\ f[1] < 10 /\ 48 + f[1] = s[1]
    BY <1>1, <1>3, <1>5
  <2>2. Decimal(f[1]) = <<s[1]>>
    BY <2>1, DecimalFacts
  <2> QED
    BY <1>1, <2>2
<1>7. CASE n = 1
  BY <1>1, <1>4, <1>6, <1>7, SubSeqFull
<1>8. CASE s[1] # 48
  <2> DEFINE P(i) == f[i] >= 1 /\ Decimal(f[i]) = SubSeq(s, 1, i)
             S == {k \in Nat : k + 1 <= n => P(k + 1)}
  <2>1. 0 \in S
    <3>1. 1 \in 1 .. n
      BY <1>1
    <3>2. f[1] >= 1
      BY <1>3, <1>5, <1>8, <3>1
    <3> QED
      BY <1>6, <3>2
  <2>2. ASSUME NEW k \in S
        PROVE  k + 1 \in S
    <3>1. k \in Nat /\ k + 1 \in Nat
      OBVIOUS
    <3>2. CASE (k + 1) + 1 <= n
      <4> DEFINE i == k + 1
      <4>1. /\ i \in 1 .. n /\ i \in Nat /\ i + 1 \in 1 .. n
            /\ i \in 0 .. n /\ (i + 1) - 1 = i /\ i + 1 <= n
        BY <1>1, <3>1, <3>2
      <4>2. f[i] >= 1 /\ Decimal(f[i]) = SubSeq(s, 1, i)
        BY <4>1
      <4> HIDE DEF i, S
      <4>3. /\ f[i + 1] = f[i] * 10 + d(i + 1) /\ f[i] \in Nat
            /\ d(i + 1) \in 0 .. 9 /\ d(i + 1) = s[i + 1] - 48
            /\ s[i + 1] \in Nat
        BY <1>2, <1>3, <4>1
      <4> DEFINE x == f[i]
                 y == d(i + 1)
                 z == f[i + 1]
                 c == s[i + 1]
      <4>4. /\ z = x * 10 + y /\ x \in Nat /\ x >= 1 /\ y \in 0 .. 9
            /\ y = c - 48 /\ c \in Nat
        BY <4>2, <4>3
      <4> HIDE DEF x, y, z, c
      <4>5. /\ z \in Nat /\ ~ (z < 10) /\ z >= 1
            /\ z \div 10 = x /\ z % 10 = y /\ 48 + y = c
        BY <4>4
      <4>6. Decimal(z) = Append(Decimal(x), c)
        BY <4>5, DecimalFacts
      <4>7. Append(SubSeq(s, 1, i), s[i + 1]) = SubSeq(s, 1, i + 1)
        BY <1>1, <4>1
      <4>8. P(i + 1)
        BY <4>2, <4>5, <4>6, <4>7 DEF x, z, c
      <4> HIDE DEF P
      <4> QED
        BY <3>1, <4>8 DEF i, S
    <3> QED
      BY <3>1, <3>2
  <2>3. S = Nat
    <3>1. S \in SUBSET Nat
      OBVIOUS
    <3> HIDE DEF S
    <3> QED
      BY <2>1, <2>2, <3>1, SetInduction
  <2>4. n - 1 \in Nat /\ (n - 1) + 1 = n
    BY <1>1
  <2>5. n - 1 \in S
    BY <2>3, <2>4, Zenon
  <2>6. Decimal(f[n]) = SubSeq(s, 1, n)
    BY <1>1, <2>4, <2>5
  <2> QED
    BY <1>1, <1>4, <2>6, SubSeqFull
<1> QED
  BY <1>7, <1>8

\* A level that is accepted as exact is spelled as str() spells it, and no other
\* spelling is exact (ExactIsPrinted).
THEOREM ExactIsOneSpelling == Spec => []ExactIsPrinted
<1> SUFFICES ReadInv => ExactIsPrinted
  BY ReadHolds, PTL
<1> SUFFICES ASSUME ReadInv, outcome = "accepted", parser # "uint32"
             PROVE  Exact <=> body = Decimal(value)
  BY DEF ExactIsPrinted
<1>1. /\ body \in Seq(Byte) /\ base = 10 /\ value \in Nat
      /\ value = Spells(body, 10) /\ pc = "done"
  BY DEF ReadInv, IInv, TypeOK, NothingWraps, Progress, BodyCut, Counted
<1>2. body # <<>> /\ \A i \in DOMAIN body : DigitOf(body[i], 10) < 10
  BY <1>1 DEF ReadInv, TakesExactlyNumbers
<1>3. \A i \in DOMAIN body : body[i] \in DecimalDigit
  <2>1. \A i \in DOMAIN body : body[i] \in Byte
    BY <1>1
  <2> QED
    BY <1>2, <2>1, DecimalDigits, Zenon
<1>4. ASSUME Exact
      PROVE  body = Decimal(value)
  BY <1>1, <1>2, <1>3, <1>4, SpelledIsPrinted, Zenon DEF Exact
<1>5. ASSUME body = Decimal(value)
      PROVE  Exact
  <2>1. CASE value = 0
    <3>1. body = <<48>>
      BY <1>5, <2>1, DecimalFacts
    <3> QED
      BY <3>1 DEF Exact
  <2>2. CASE value # 0
    <3>1. body[1] # 48
      BY <1>1, <1>5, <2>2, NoLeadingZero
    <3> QED
      BY <3>1 DEF Exact
  <2> QED
    BY <2>1, <2>2
<1> QED
  BY <1>4, <1>5
=============================================================================
