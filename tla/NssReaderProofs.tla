-------------------------- MODULE NssReaderProofs --------------------------
(***************************************************************************)
(* Proofs about the reading of a text byte by byte, for every text: a      *)
(* quoted piece reads back, the pieces are the tokens of NssText, and the  *)
(* loop finds the components of the token model.                           *)
(***************************************************************************)
EXTENDS NssReader, SequenceTheorems, FiniteSetTheorems, WellFoundedInduction,
        TLAPS

-----------------------------------------------------------------------------
(* Induction and recursion *)

\* A set of places that holds 0, and with a place the next one, holds them all:
\* the smallest place outside would have a predecessor inside.
LEMMA PlaceInduction ==
  ASSUME NEW n \in Nat, NEW P, 0 \in P,
         \A k \in 1 .. n : k - 1 \in P => k \in P
  PROVE  \A k \in 0 .. n : k \in P
<1> DEFINE T == (0 .. n) \ P
           R == OpToRel(<, Nat)
<1>1. IsWellFoundedOn(R, Nat)
  BY NatLessThanWellFounded
<1>2. \A x, y \in Nat : x < y => <<x, y>> \in R
  BY DEF OpToRel
<1> HIDE DEF R
<1>3. SUFFICES ASSUME T # {} PROVE FALSE
  OBVIOUS
<1>4. PICK x \in T : \A y \in T : ~ (<<y, x>> \in R)
  <2>1. T \subseteq Nat
    OBVIOUS
  <2> HIDE DEF T
  <2> QED
    BY <1>1, <1>3, <2>1, WFMin
<1>5. x \in 1 .. n /\ x - 1 \in 0 .. n /\ x - 1 \in Nat /\ x \in Nat /\ x - 1 < x
  OBVIOUS
<1>6. x - 1 \in T
  BY <1>5
<1> QED
  BY <1>2, <1>4, <1>5, <1>6

\* n steps, each from the one before.
Steps(f, n, S, first, step) ==
  /\ f \in [0 .. n -> S]
  /\ f[0] = first
  /\ \A k \in 1 .. n : f[k] = step[f[k - 1]][k]

\* They can be made one after the other.
LEMMA StepsExist ==
  ASSUME NEW n \in Nat, NEW S, NEW first \in S, NEW step \in [S -> [1 .. n -> S]]
  PROVE  \E f : Steps(f, n, S, first, step)
<1> DEFINE Made(f, m) ==
             /\ f \in [0 .. m -> S]
             /\ f[0] = first
             /\ \A k \in 1 .. m : f[k] = step[f[k - 1]][k]
           P == {m \in 0 .. n : \E f : Made(f, m)}
<1>1. 0 \in P
  <2> DEFINE f == [k \in 0 .. 0 |-> first]
  <2>1. f \in [0 .. 0 -> S] /\ f[0] = first /\ \A k \in 1 .. 0 : FALSE
    OBVIOUS
  <2> HIDE DEF f
  <2>2. Made(f, 0)
    BY <2>1
  <2> QED
    BY <2>2
<1>2. ASSUME NEW m \in 1 .. n, m - 1 \in P
      PROVE  m \in P
  <2>1. PICK f : Made(f, m - 1)
    BY <1>2
  <2>2. m - 1 \in 0 .. m - 1 /\ m \in Nat /\ m # 0 /\ 0 \in 0 .. m - 1
    OBVIOUS
  <2>3. \A k \in 1 .. m : k = m \/ k \in 1 .. m - 1
    OBVIOUS
  <2>4. \A k \in 1 .. m - 1 : k \in 0 .. m - 1 /\ k - 1 \in 0 .. m - 1
    OBVIOUS
  <2>5. f[m - 1] \in S
    BY <2>1, <2>2
  <2>6. step[f[m - 1]][m] \in S
    BY <2>5
  <2> DEFINE g == [k \in 0 .. m |-> IF k = m THEN step[f[m - 1]][m] ELSE f[k]]
  <2>7. g \in [0 .. m -> S]
    BY <2>1, <2>6
  <2>8. g[m] = step[f[m - 1]][m] /\ \A k \in 0 .. m - 1 : g[k] = f[k]
    OBVIOUS
  <2> HIDE DEF g, P
  <2>9. Made(g, m)
    BY <2>1, <2>2, <2>3, <2>4, <2>7, <2>8, Zenon
  <2>10. m \in 0 .. n
    OBVIOUS
  <2> HIDE DEF Made
  <2> QED
    BY <2>9, <2>10, Zenon DEF P
<1> HIDE DEF P
<1>3. \A m \in 0 .. n : m \in P
  BY <1>1, <1>2, PlaceInduction
<1>4. n \in 0 .. n
  OBVIOUS
<1>5. PICK f : Made(f, n)
  BY <1>3, <1>4 DEF P
<1> QED
  BY <1>5, Zenon DEF Steps

\* What keeps a step keeps all of them.
LEMMA StepsStay ==
  ASSUME NEW n \in Nat, NEW S, NEW f, f[0] \in S,
         \A k \in 1 .. n : f[k - 1] \in S => f[k] \in S
  PROVE  \A k \in 0 .. n : f[k] \in S
<1> DEFINE P == {k \in 0 .. n : f[k] \in S}
<1>1. 0 \in P /\ \A k \in 1 .. n : k - 1 \in P => k \in P
  OBVIOUS
<1> HIDE DEF P
<1>2. \A k \in 0 .. n : k \in P
  BY <1>1, PlaceInduction
<1> QED
  BY <1>2 DEF P

-----------------------------------------------------------------------------
(* What is quoted reads back *)

Printable == 32 .. 126

\* What one step of Unquote makes of a state and the next byte.
Step(state, c) ==
  CASE state.mode = "plain" /\ c = 92 -> [state EXCEPT !.mode = "escape"]
    [] state.mode = "escape" /\ c = 120 -> [state EXCEPT !.mode = "high"]
    [] state.mode = "high" ->
         [state EXCEPT !.mode = "low", !.high = HexValue(c)]
    [] OTHER -> [state EXCEPT !.text = Append(@, Meant(state, c)), !.mode = "plain"]

ScanStates ==
  [text : Seq(Int), mode : {"plain", "escape", "high", "low"}, high : Int]

NothingRead == [text |-> <<>>, mode |-> "plain", high |-> 0]

\* A step leads from state to state.
LEMMA StepTyped ==
  ASSUME NEW state \in ScanStates, NEW c \in Int
  PROVE  Step(state, c) \in ScanStates
<1>1. state.text \in Seq(Int) /\ state.high \in Int
  BY DEF ScanStates
<1>2. HexValue(c) \in Int
  BY DEF HexValue
<1>3. Meant(state, c) \in Int
  <2>1. CASE state.mode = "low"
    <3>1. Meant(state, c) = 16 * state.high + HexValue(c)
      BY <2>1 DEF Meant
    <3> QED
      BY <1>1, <1>2, <3>1
  <2>2. CASE state.mode # "low"
    BY <2>2 DEF Meant
  <2> QED
    BY <2>1, <2>2
<1>4. Append(state.text, Meant(state, c)) \in Seq(Int)
  BY <1>1, <1>3, AppendProperties
<1> QED
  BY <1>2, <1>4 DEF Step, ScanStates

\* An escaped byte is printable: alone, after a backslash, or as two hex digits.
LEMMA EscapedForms ==
  ASSUME NEW b \in Byte
  PROVE  \/ /\ Escaped(b) = <<b>> /\ b # 92 /\ b \in Printable
         \/ \E c \in Printable :
              /\ Escaped(b) = <<92, c>> /\ c # 120
              /\ b = IF c = 110 THEN 10 ELSE IF c = 114 THEN 13
                    ELSE IF c = 116 THEN 9 ELSE c
         \/ \E c, d \in Printable :
              /\ Escaped(b) = <<92, 120, c, d>>
              /\ HexValue(c) \in Int /\ HexValue(d) \in Int
              /\ b = 16 * HexValue(c) + HexValue(d)
<1>1. CASE b \in {34, 92}
  <2>1. Escaped(b) = <<92, b>> /\ b \in Printable /\ b \notin {120, 110, 114, 116}
    BY <1>1 DEF Escaped, Printable
  <2> QED
    BY <2>1
<1>2. CASE b = 10
  <2>1. Escaped(b) = <<92, 110>> /\ 110 \in Printable /\ 110 # 120
    BY <1>2 DEF Escaped, Printable
  <2> QED
    BY <1>2, <2>1
<1>3. CASE b = 13
  <2>1. Escaped(b) = <<92, 114>> /\ 114 \in Printable /\ 114 # 120 /\ 114 # 110
    BY <1>3 DEF Escaped, Printable
  <2> QED
    BY <1>3, <2>1
<1>4. CASE b = 9
  <2>1. Escaped(b) = <<92, 116>> /\ 116 \in Printable /\ 116 \notin {120, 110, 114}
    BY <1>4 DEF Escaped, Printable
  <2> QED
    BY <1>4, <2>1
<1>5. CASE b \notin {9, 10, 13} /\ b \notin 32 .. 126
  <2> DEFINE c == HexChar(b \div 16)
             d == HexChar(b % 16)
  <2>1. b \div 16 \in 0 .. 15 /\ b % 16 \in 0 .. 15 /\ b = 16 * (b \div 16) + (b % 16)
    BY DEF Byte
  <2>2. ASSUME NEW n \in 0 .. 15
        PROVE  HexChar(n) \in Printable /\ HexValue(HexChar(n)) = n
    BY DEF HexChar, HexValue, DecimalDigit, Printable
  <2>3. /\ c \in Printable /\ HexValue(c) = b \div 16
        /\ d \in Printable /\ HexValue(d) = b % 16
    BY <2>1, <2>2
  <2>4. Escaped(b) = <<92, 120, c, d>>
    BY <1>5 DEF Escaped
  <2> HIDE DEF c, d
  <2>5. HexValue(c) \in Int /\ HexValue(d) \in Int /\ b = 16 * HexValue(c) + HexValue(d)
    BY <2>1, <2>3
  <2> QED
    BY <2>3, <2>4, <2>5
<1>6. CASE b \in 32 .. 126 /\ b \notin {34, 92}
  <2>1. Escaped(b) = <<b>>
    BY <1>6 DEF Escaped
  <2> QED
    BY <1>6, <2>1 DEF Printable
<1> QED
  BY <1>1, <1>2, <1>3, <1>4, <1>5, <1>6

\* The printable bytes an escaped byte is made of.
LEMMA EscapedPrintable ==
  ASSUME NEW b \in Byte
  PROVE  Escaped(b) \in Seq(Printable)
<1>1. \A c, d \in Printable : <<92, c>> \in Seq(Printable) /\ <<92, 120, c, d>> \in Seq(Printable)
  BY DEF Printable
<1>2. CASE Escaped(b) = <<b>> /\ b \in Printable
  BY <1>2
<1>3. CASE \E c \in Printable : Escaped(b) = <<92, c>>
  BY <1>1, <1>3
<1>4. CASE \E c, d \in Printable : Escaped(b) = <<92, 120, c, d>>
  BY <1>1, <1>4
<1> QED
  BY <1>2, <1>3, <1>4, EscapedForms

\* The bodies of Quote, one byte of the text after the other.
Bodies(f, s) ==
  /\ f \in [0 .. Len(s) -> Seq(Printable)]
  /\ f[0] = <<>>
  /\ \A k \in 1 .. Len(s) : f[k] = f[k - 1] \o Escaped(s[k])

\* Quote puts quotes around the last of them.
LEMMA QuoteBodies ==
  ASSUME NEW s \in Seq(Byte)
  PROVE  \E f : Bodies(f, s) /\ Quote(s) = <<34>> \o f[Len(s)] \o <<34>>
<1> DEFINE n == Len(s)
           Solves(f) == f = [k \in 0 .. n |-> IF k = 0 THEN <<>> ELSE f[k - 1] \o Escaped(s[k])]
           h == CHOOSE f : Solves(f)
           step == [t \in Seq(Printable) |-> [k \in 1 .. n |-> t \o Escaped(s[k])]]
<1>1. n \in Nat /\ \A k \in 1 .. n : s[k] \in Byte
  BY LenProperties, ElementOfSeq
<1>2. \A k \in 1 .. n : Escaped(s[k]) \in Seq(Printable)
  BY <1>1, EscapedPrintable
<1>3. step \in [Seq(Printable) -> [1 .. n -> Seq(Printable)]]
  BY <1>2, ConcatProperties
<1>4. \A t \in Seq(Printable), k \in 1 .. n : step[t][k] = t \o Escaped(s[k])
  OBVIOUS
<1>5. <<>> \in Seq(Printable)
  OBVIOUS
<1> HIDE DEF n, step
<1>6. PICK f : Steps(f, n, Seq(Printable), <<>>, step)
  BY <1>1, <1>3, <1>5, StepsExist
<1>7. \A k \in 1 .. n : f[k - 1] \in Seq(Printable) /\ k \in 0 .. n /\ k # 0
  BY <1>1, <1>6 DEF Steps
<1>8. \A k \in 1 .. n : f[k] = f[k - 1] \o Escaped(s[k])
  BY <1>4, <1>6, <1>7 DEF Steps
<1>9. Solves(f)
  <2>1. f = [k \in 0 .. n |-> f[k]]
    BY <1>6 DEF Steps
  <2>2. \A k \in 0 .. n : k = 0 \/ k \in 1 .. n
    BY <1>1
  <2>3. \A k \in 0 .. n : f[k] = IF k = 0 THEN <<>> ELSE f[k - 1] \o Escaped(s[k])
    BY <1>6, <1>7, <1>8, <2>2, Zenon DEF Steps
  <2> QED
    BY <2>1, <2>3, Zenon
<1>10. Solves(h)
  BY <1>9, Zenon
<1>11. Quote(s) = <<34>> \o h[n] \o <<34>>
  BY Zenon DEF Quote, n
<1> HIDE DEF h
<1>12. \A k \in 0 .. n : h[k] = IF k = 0 THEN <<>> ELSE h[k - 1] \o Escaped(s[k])
  BY <1>10, Zenon
<1>13. h[0] = <<>> /\ \A k \in 1 .. n : h[k] = h[k - 1] \o Escaped(s[k])
  <2>1. 0 \in 0 .. n
    BY <1>1
  <2> QED
    BY <1>7, <1>12, <2>1, Zenon
<1>14. \A k \in 1 .. n : h[k - 1] \in Seq(Printable) => h[k] \in Seq(Printable)
  BY <1>2, <1>13, ConcatProperties
<1>15. \A k \in 0 .. n : h[k] \in Seq(Printable)
  BY <1>1, <1>5, <1>13, <1>14, StepsStay
<1>16. h = [k \in 0 .. n |-> h[k]]
  BY <1>10, Zenon
<1>17. h \in [0 .. n -> Seq(Printable)]
  BY <1>15, <1>16
<1> QED
  BY <1>11, <1>13, <1>17 DEF Bodies, n

\* The states of Unquote, one byte of the body after the other.
Scans(g, body) ==
  /\ g \in [0 .. Len(body) -> ScanStates]
  /\ g[0] = NothingRead
  /\ \A k \in 1 .. Len(body) : g[k] = Step(g[k - 1], body[k])

\* What Unquote reads between the quotes.
Read(body) ==
  LET Scan[k \in 0 .. Len(body)] ==
        IF k = 0 THEN NothingRead ELSE Step(Scan[k - 1], body[k])
  IN Scan[Len(body)].text

\* Unquote returns the text of the last of them.
LEMMA UnquoteScans ==
  ASSUME NEW q, NEW body \in Seq(Int), body = SubSeq(q, 2, Len(q) - 1)
  PROVE  \E g : Scans(g, body) /\ Unquote(q) = g[Len(body)].text
<1> DEFINE n == Len(body)
           Solves(f) ==
             f = [k \in 0 .. n |-> IF k = 0 THEN NothingRead ELSE Step(f[k - 1], body[k])]
           h == CHOOSE f : Solves(f)
           step == [t \in ScanStates |-> [k \in 1 .. n |-> Step(t, body[k])]]
<1>1. n \in Nat /\ \A k \in 1 .. n : body[k] \in Int
  BY LenProperties, ElementOfSeq
<1>3. step \in [ScanStates -> [1 .. n -> ScanStates]]
  BY <1>1, StepTyped
<1>4. \A t \in ScanStates, k \in 1 .. n : step[t][k] = Step(t, body[k])
  OBVIOUS
<1>5. NothingRead \in ScanStates
  BY DEF NothingRead, ScanStates
<1> HIDE DEF n, step
<1>6. PICK f : Steps(f, n, ScanStates, NothingRead, step)
  BY <1>1, <1>3, <1>5, StepsExist
<1>7. \A k \in 1 .. n : f[k - 1] \in ScanStates /\ k \in 0 .. n /\ k # 0
  BY <1>1, <1>6 DEF Steps
<1>8. \A k \in 1 .. n : f[k] = Step(f[k - 1], body[k])
  BY <1>4, <1>6, <1>7 DEF Steps
<1>9. Solves(f)
  <2>1. f = [k \in 0 .. n |-> f[k]]
    BY <1>6 DEF Steps
  <2>2. \A k \in 0 .. n : k = 0 \/ k \in 1 .. n
    BY <1>1
  <2>3. \A k \in 0 .. n : f[k] = IF k = 0 THEN NothingRead ELSE Step(f[k - 1], body[k])
    BY <1>6, <1>7, <1>8, <2>2, Zenon DEF Steps
  <2> QED
    BY <2>1, <2>3, Zenon
<1>10. Solves(h)
  BY <1>9, Zenon
<1>11. Unquote(q) = h[n].text
  <2>1. Unquote(q) = Read(SubSeq(q, 2, Len(q) - 1))
    BY Zenon DEF Unquote, Read, Step, NothingRead
  <2>2. Read(body) = h[n].text
    BY Zenon DEF Read, n
  <2> QED
    BY <2>1, <2>2, Zenon
<1> HIDE DEF h
<1>12. \A k \in 0 .. n : h[k] = IF k = 0 THEN NothingRead ELSE Step(h[k - 1], body[k])
  BY <1>10, Zenon
<1>13. h[0] = NothingRead /\ \A k \in 1 .. n : h[k] = Step(h[k - 1], body[k])
  <2>1. 0 \in 0 .. n
    BY <1>1
  <2> QED
    BY <1>7, <1>12, <2>1, Zenon
<1>14. \A k \in 1 .. n : h[k - 1] \in ScanStates => h[k] \in ScanStates
  BY <1>1, <1>13, StepTyped
<1>15. \A k \in 0 .. n : h[k] \in ScanStates
  BY <1>1, <1>5, <1>13, <1>14, StepsStay
<1>16. h = [k \in 0 .. n |-> h[k]]
  BY <1>10, Zenon
<1>17. h \in [0 .. n -> ScanStates]
  BY <1>15, <1>16
<1> QED
  BY <1>11, <1>13, <1>17 DEF Scans, n

\* A byte that is not a backslash stands for itself.
LEMMA StepPlain ==
  ASSUME NEW st \in ScanStates, NEW c \in Int, st.mode = "plain", c # 92
  PROVE  Step(st, c).mode = "plain" /\ Step(st, c).text = Append(st.text, c)
<1>1. Meant(st, c) = c
  BY DEF Meant
<1>2. Step(st, c) = [st EXCEPT !.text = Append(@, c), !.mode = "plain"]
  BY <1>1 DEF Step
<1> QED
  BY <1>2 DEF ScanStates

\* A backslash begins an escape.
LEMMA StepBackslash ==
  ASSUME NEW st \in ScanStates, NEW c \in Int, st.mode = "plain", c = 92
  PROVE  Step(st, c).mode = "escape" /\ Step(st, c).text = st.text
<1>1. Step(st, c) = [st EXCEPT !.mode = "escape"]
  BY DEF Step
<1> QED
  BY <1>1 DEF ScanStates

\* After it n, r and t stand for line ends and a tab, any other byte but x for
\* itself.
LEMMA StepLetter ==
  ASSUME NEW st \in ScanStates, NEW c \in Int, st.mode = "escape", c # 120
  PROVE  /\ Step(st, c).mode = "plain"
         /\ Step(st, c).text =
              Append(st.text, IF c = 110 THEN 10 ELSE IF c = 114 THEN 13
                              ELSE IF c = 116 THEN 9 ELSE c)
<1>1. Meant(st, c) = IF c = 110 THEN 10 ELSE IF c = 114 THEN 13
                     ELSE IF c = 116 THEN 9 ELSE c
  BY DEF Meant
<1>2. Step(st, c) = [st EXCEPT !.text = Append(@, Meant(st, c)), !.mode = "plain"]
  BY DEF Step
<1>3. Step(st, c).mode = "plain" /\ Step(st, c).text = Append(st.text, Meant(st, c))
  BY <1>2 DEF ScanStates
<1> QED
  BY <1>1, <1>3, Zenon

\* An x is followed by two digits.
LEMMA StepX ==
  ASSUME NEW st \in ScanStates, NEW c \in Int, st.mode = "escape", c = 120
  PROVE  Step(st, c).mode = "high" /\ Step(st, c).text = st.text
<1>1. Step(st, c) = [st EXCEPT !.mode = "high"]
  BY DEF Step
<1> QED
  BY <1>1 DEF ScanStates

\* The first digit is kept.
LEMMA StepHigh ==
  ASSUME NEW st \in ScanStates, NEW c \in Int, st.mode = "high"
  PROVE  /\ Step(st, c).mode = "low" /\ Step(st, c).text = st.text
         /\ Step(st, c).high = HexValue(c)
<1>1. Step(st, c) = [st EXCEPT !.mode = "low", !.high = HexValue(c)]
  BY DEF Step
<1> QED
  BY <1>1 DEF ScanStates

\* The second digit ends the number of the byte.
LEMMA StepLow ==
  ASSUME NEW st \in ScanStates, NEW c \in Int, st.mode = "low"
  PROVE  /\ Step(st, c).mode = "plain"
         /\ Step(st, c).text = Append(st.text, 16 * st.high + HexValue(c))
<1>1. Meant(st, c) = 16 * st.high + HexValue(c)
  BY DEF Meant
<1>2. Step(st, c) = [st EXCEPT !.text = Append(@, Meant(st, c)), !.mode = "plain"]
  BY DEF Step
<1>3. Step(st, c).mode = "plain" /\ Step(st, c).text = Append(st.text, Meant(st, c))
  BY <1>2 DEF ScanStates
<1> QED
  BY <1>1, <1>3, Zenon

\* A text before an escape is what is read, and the byte the escape means.
Reads(after, st, b) == after.mode = "plain" /\ after.text = Append(st.text, b)

\* A byte that needs no escape.
LEMMA ReadsPlain ==
  ASSUME NEW st \in ScanStates, st.mode = "plain", NEW b \in Byte, b # 92
  PROVE  Reads(Step(st, b), st, b)
<1>1. b \in Int
  BY DEF Byte
<1> QED
  BY <1>1, StepPlain DEF Reads

\* A backslash and a letter.
LEMMA ReadsLetter ==
  ASSUME NEW st \in ScanStates, st.mode = "plain", NEW c \in Printable, c # 120,
         NEW b, b = IF c = 110 THEN 10 ELSE IF c = 114 THEN 13
                    ELSE IF c = 116 THEN 9 ELSE c
  PROVE  Reads(Step(Step(st, 92), c), st, b)
<1>1. c \in Int
  BY DEF Printable
<1> DEFINE st1 == Step(st, 92)
<1>2. st1 \in ScanStates
  BY StepTyped
<1>3. st1.mode = "escape" /\ st1.text = st.text
  BY StepBackslash
<1> HIDE DEF st1
<1>4. Step(st1, c).mode = "plain" /\ Step(st1, c).text = Append(st1.text, b)
  BY <1>1, <1>2, <1>3, StepLetter
<1> QED
  BY <1>3, <1>4 DEF Reads, st1

\* A backslash, an x and two digits.
LEMMA ReadsHex ==
  ASSUME NEW st \in ScanStates, st.mode = "plain", NEW c \in Printable,
         NEW d \in Printable, NEW b, b = 16 * HexValue(c) + HexValue(d)
  PROVE  Reads(Step(Step(Step(Step(st, 92), 120), c), d), st, b)
<1>1. c \in Int /\ d \in Int
  BY DEF Printable
<1> DEFINE st1 == Step(st, 92)
           st2 == Step(st1, 120)
           st3 == Step(st2, c)
<1>2. st1 \in ScanStates /\ st1.mode = "escape" /\ st1.text = st.text
  BY StepTyped, StepBackslash
<1> HIDE DEF st1
<1>3. st2 \in ScanStates /\ st2.mode = "high" /\ st2.text = st.text
  BY <1>2, StepTyped, StepX
<1> HIDE DEF st2
<1>4. st3 \in ScanStates /\ st3.mode = "low" /\ st3.text = st.text /\ st3.high = HexValue(c)
  BY <1>1, <1>3, StepTyped, StepHigh
<1> HIDE DEF st3
<1>5. Step(st3, d).mode = "plain" /\ Step(st3, d).text = Append(st3.text, b)
  <2>1. /\ Step(st3, d).mode = "plain"
        /\ Step(st3, d).text = Append(st3.text, 16 * st3.high + HexValue(d))
    BY <1>1, <1>4, StepLow
  <2> QED
    BY <1>4, <2>1, Zenon
<1>6. Step(st3, d).mode = "plain" /\ Step(st3, d).text = Append(st.text, b)
  BY <1>4, <1>5
<1> QED
  BY <1>6, Zenon DEF Reads, st1, st2, st3

\* Where the body holds an escaped byte, the byte is read.
LEMMA EscapeReads ==
  ASSUME NEW body \in Seq(Int), NEW g, Scans(g, body), NEW b \in Byte, NEW p \in Nat,
         g[p].mode = "plain",
         NEW e, e = Escaped(b), p + Len(e) <= Len(body),
         \A r \in 1 .. Len(e) : body[p + r] = e[r]
  PROVE  Reads(g[p + Len(e)], g[p], b)
<1>1. Len(body) \in Nat
  BY LenProperties
<1>2. ASSUME NEW m \in 0 .. 3, p + m + 1 <= Len(body)
      PROVE  g[p + m] \in ScanStates /\ g[p + (m + 1)] = Step(g[p + m], body[p + (m + 1)])
  <2>1. p + m \in 0 .. Len(body) /\ p + (m + 1) \in 1 .. Len(body) /\ (p + (m + 1)) - 1 = p + m
    BY <1>1, <1>2
  <2> QED
    BY <2>1, Zenon DEF Scans
<1>3. p + 0 = p /\ 0 + 1 = 1 /\ 1 + 1 = 2 /\ 2 + 1 = 3 /\ 3 + 1 = 4
  OBVIOUS
<1>4. CASE e = <<b>> /\ b # 92
  <2>1. Len(e) = 1 /\ e[1] = b
    BY <1>4
  <2>2. body[p + 1] = b /\ p + 0 + 1 <= Len(body)
    BY <2>1
  <2>3. g[p] \in ScanStates /\ g[p + 1] = Step(g[p], b)
    BY <1>2, <1>3, <2>2
  <2> QED
    BY <1>4, <2>1, <2>3, ReadsPlain
<1>5. ASSUME NEW c \in Printable, e = <<92, c>>, c # 120,
             b = IF c = 110 THEN 10 ELSE IF c = 114 THEN 13
                 ELSE IF c = 116 THEN 9 ELSE c
      PROVE  Reads(g[p + Len(e)], g[p], b)
  <2>1. Len(e) = 2 /\ e[1] = 92 /\ e[2] = c
    BY <1>5
  <2>2. /\ body[p + 1] = 92 /\ body[p + 2] = c
        /\ p + 0 + 1 <= Len(body) /\ p + 1 + 1 <= Len(body)
    BY <1>1, <2>1
  <2>3. /\ g[p] \in ScanStates /\ g[p + 1] = Step(g[p], 92)
        /\ g[p + 2] = Step(g[p + 1], c)
    BY <1>2, <1>3, <2>2
  <2>4. Reads(Step(Step(g[p], 92), c), g[p], b)
    BY <1>5, <2>3, ReadsLetter
  <2> QED
    BY <2>1, <2>3, <2>4, Zenon
<1>6. ASSUME NEW c \in Printable, NEW d \in Printable, e = <<92, 120, c, d>>,
             b = 16 * HexValue(c) + HexValue(d)
      PROVE  Reads(g[p + Len(e)], g[p], b)
  <2>1. Len(e) = 4 /\ e[1] = 92 /\ e[2] = 120 /\ e[3] = c /\ e[4] = d
    BY <1>6
  <2>2. /\ body[p + 1] = 92 /\ body[p + 2] = 120 /\ body[p + 3] = c /\ body[p + 4] = d
        /\ p + 0 + 1 <= Len(body) /\ p + 1 + 1 <= Len(body)
        /\ p + 2 + 1 <= Len(body) /\ p + 3 + 1 <= Len(body)
    <3>1. 1 \in 1 .. Len(e) /\ 2 \in 1 .. Len(e) /\ 3 \in 1 .. Len(e) /\ 4 \in 1 .. Len(e)
      BY <2>1
    <3>2. body[p + 1] = 92 /\ body[p + 2] = 120 /\ body[p + 3] = c /\ body[p + 4] = d
      <4>1. /\ body[p + 1] = e[1] /\ body[p + 2] = e[2]
            /\ body[p + 3] = e[3] /\ body[p + 4] = e[4]
        BY <3>1, Zenon
      <4> QED
        BY <2>1, <4>1
    <3>3. p + 4 <= Len(body)
      BY <2>1
    <3> QED
      BY <1>1, <3>2, <3>3
  <2>3. /\ g[p] \in ScanStates /\ g[p + 1] = Step(g[p], 92)
        /\ g[p + 2] = Step(g[p + 1], 120)
        /\ g[p + 3] = Step(g[p + 2], c) /\ g[p + 4] = Step(g[p + 3], d)
    BY <1>2, <1>3, <2>2
  <2>4. Reads(Step(Step(Step(Step(g[p], 92), 120), c), d), g[p], b)
    <3>1. g[p] \in ScanStates /\ g[p].mode = "plain"
      BY <2>3
    <3> QED
      BY <1>6, <3>1, ReadsHex
  <2>5. Step(Step(Step(Step(g[p], 92), 120), c), d) = g[p + 4]
    BY <2>3
  <2>6. p + Len(e) = p + 4
    BY <2>1
  <2> QED
    BY <2>4, <2>5, <2>6
<1>7. \/ e = <<b>> /\ b # 92
      \/ \E c \in Printable :
           /\ e = <<92, c>> /\ c # 120
           /\ b = IF c = 110 THEN 10 ELSE IF c = 114 THEN 13
                 ELSE IF c = 116 THEN 9 ELSE c
      \/ \E c, d \in Printable :
           e = <<92, 120, c, d>> /\ b = 16 * HexValue(c) + HexValue(d)
  BY EscapedForms
<1> QED
  BY <1>4, <1>5, <1>6, <1>7, Zenon

\* The elements of a concatenation, by the parts they come from.
LEMMA ConcatParts ==
  ASSUME NEW S, NEW s \in Seq(S), NEW t \in Seq(S), NEW u, u = s \o t
  PROVE  /\ u \in Seq(S) /\ Len(s) \in Nat /\ Len(t) \in Nat
         /\ Len(u) = Len(s) + Len(t)
         /\ \A r \in 1 .. Len(s) : u[r] = s[r]
         /\ \A r \in 1 .. Len(t) : u[Len(s) + r] = t[r]
BY SMT

\* The place of the k-th escaped byte in the whole body.
Placed(f, s, k) ==
  /\ Len(f[k]) = Len(f[k - 1]) + Len(Escaped(s[k]))
  /\ Len(f[k]) <= Len(f[Len(s)])
  /\ \A r \in 1 .. Len(Escaped(s[k])) :
       f[Len(s)][Len(f[k - 1]) + r] = Escaped(s[k])[r]

\* Every body begins with the ones before it.
LEMMA BodiesGrow ==
  ASSUME NEW s \in Seq(Byte), NEW f, Bodies(f, s), NEW k \in 1 .. Len(s)
  PROVE  Placed(f, s, k)
<1> DEFINE n == Len(s)
           e(j) == Escaped(s[j])
           P == {m \in 0 .. n : k <= m => /\ Len(f[k]) <= Len(f[m])
                                          /\ \A r \in 1 .. Len(f[k]) : f[m][r] = f[k][r]}
<1>1. n \in Nat /\ \A j \in 1 .. n : s[j] \in Byte
  BY LenProperties, ElementOfSeq
<1>2. \A j \in 1 .. n : e(j) \in Seq(Printable)
  BY <1>1, EscapedPrintable
<1>3. /\ \A j \in 0 .. n : f[j] \in Seq(Printable)
      /\ \A j \in 1 .. n : f[j] = f[j - 1] \o e(j)
  BY DEF Bodies
<1> HIDE DEF e, n
<1>4. ASSUME NEW j \in 1 .. n
      PROVE  /\ Len(f[j - 1]) \in Nat /\ Len(e(j)) \in Nat /\ Len(f[j]) \in Nat
             /\ Len(f[j]) = Len(f[j - 1]) + Len(e(j))
             /\ \A r \in 1 .. Len(f[j - 1]) : f[j][r] = f[j - 1][r]
             /\ \A r \in 1 .. Len(e(j)) : f[j][Len(f[j - 1]) + r] = e(j)[r]
  <2>1. j - 1 \in 0 .. n /\ j \in 0 .. n
    BY <1>1
  <2>2. f[j - 1] \in Seq(Printable) /\ e(j) \in Seq(Printable) /\ f[j] = f[j - 1] \o e(j)
    BY <1>2, <1>3, <2>1
  <2> QED
    BY <2>2, ConcatParts
<1>5. 0 \in P
  BY <1>1
<1>6. ASSUME NEW m \in 1 .. n, m - 1 \in P
      PROVE  m \in P
  <2>1. m \in 0 .. n /\ k \in Nat /\ k \in 0 .. n /\ m - 1 \in 0 .. n
    BY <1>1 DEF n
  <2>2. CASE k <= m - 1
    <3>1. /\ Len(f[k]) <= Len(f[m - 1])
          /\ \A r \in 1 .. Len(f[k]) : f[m - 1][r] = f[k][r]
      BY <1>6, <2>2
    <3>2. Len(f[k]) \in Nat
      BY <1>3, <2>1, LenProperties
    <3> DEFINE c == Len(f[k])
               w == Len(f[m - 1])
    <3>3. c \in Nat /\ w \in Nat /\ Len(f[m]) \in Nat /\ c <= w /\ w <= Len(f[m])
      BY <1>4, <3>1, <3>2
    <3>4. \A r \in 1 .. w : f[m][r] = f[m - 1][r]
      BY <1>4
    <3>5. \A r \in 1 .. c : r \in 1 .. w /\ f[m - 1][r] = f[k][r]
      BY <3>1, <3>3
    <3> HIDE DEF w
    <3>6. \A r \in 1 .. c : f[m][r] = f[k][r]
      BY <3>4, <3>5
    <3>7. c <= Len(f[m])
      BY <3>3
    <3> QED
      BY <2>1, <3>6, <3>7
  <2>3. CASE k = m
    <3>1. Len(f[k]) \in Nat
      BY <1>3, <2>1, LenProperties
    <3> QED
      BY <2>1, <2>3, <3>1
  <2>4. CASE k > m
    BY <2>1, <2>4
  <2> QED
    BY <2>1, <2>2, <2>3, <2>4
<1> HIDE DEF P
<1>7. \A m \in 0 .. n : m \in P
  BY <1>1, <1>5, <1>6, PlaceInduction
<1>8. n \in 0 .. n /\ k \in 1 .. n /\ k <= n
  BY <1>1 DEF n
<1>9. /\ Len(f[k]) <= Len(f[n])
      /\ \A r \in 1 .. Len(f[k]) : f[n][r] = f[k][r]
  BY <1>7, <1>8 DEF P
<1>10. \A r \in 1 .. Len(e(k)) : f[n][Len(f[k - 1]) + r] = e(k)[r]
  <2> SUFFICES ASSUME NEW r \in 1 .. Len(e(k))
               PROVE  f[n][Len(f[k - 1]) + r] = e(k)[r]
    OBVIOUS
  <2>1. Len(f[k - 1]) + r \in 1 .. Len(f[k])
    BY <1>4, <1>8
  <2> QED
    BY <1>4, <1>8, <1>9, <2>1
<1> QED
  BY <1>4, <1>8, <1>9, <1>10 DEF e, n, Placed

\* A quoted text is one line of printable ASCII, and reads back as it was
\* (detail.hpp:118-121): two texts are never shown alike.
THEOREM QuoteReadsBack ==
  ASSUME NEW s \in Seq(Byte)
  PROVE  /\ Quote(s) \in Seq(Printable)
         /\ Unquote(Quote(s)) = s
<1>1. PICK f : Bodies(f, s) /\ Quote(s) = <<34>> \o f[Len(s)] \o <<34>>
  BY QuoteBodies
<1> DEFINE n == Len(s)
           body == f[n]
           q == <<34>> \o body \o <<34>>
<1>2. n \in Nat /\ \A k \in 1 .. n : s[k] \in Byte
  BY LenProperties, ElementOfSeq
<1>3. \A k \in 0 .. n : f[k] \in Seq(Printable) /\ Len(f[k]) \in Nat
  BY <1>1, LenProperties DEF Bodies
<1>4. body \in Seq(Printable) /\ body \in Seq(Int) /\ Len(body) \in Nat
  <2>1. Printable \subseteq Int /\ n \in 0 .. n
    BY <1>2 DEF Printable
  <2> QED
    BY <1>3, <2>1, SeqMonotonic
<1>5. q \in Seq(Printable)
  <2>1. <<34>> \in Seq(Printable)
    BY DEF Printable
  <2> QED
    BY <1>4, <2>1, ConcatProperties
<1>6. body = SubSeq(q, 2, Len(q) - 1)
  <2> HIDE DEF body
  <2>1. <<34>> \in Seq(Int) /\ Len(<<34>>) = 1 /\ <<34>>[1] = 34
    OBVIOUS
  <2>2. /\ <<34>> \o body \in Seq(Int) /\ Len(<<34>> \o body) = Len(body) + 1
        /\ \A r \in 1 .. Len(body) : (<<34>> \o body)[r + 1] = body[r]
    BY <1>4
  <2>3. /\ Len(q) = Len(body) + 2
        /\ \A r \in 1 .. Len(body) : q[r + 1] = body[r]
    BY <1>4, <2>1, <2>2
  <2> HIDE DEF q
  <2>4. \A r \in 2 .. Len(body) + 1 : r - 1 \in 1 .. Len(body) /\ q[r] = body[r - 1]
    BY <1>4, <2>3
  <2>5. \A r \in 2 .. Len(body) + 1 : q[r] \in Int
    BY <1>4, <2>4, ElementOfSeq
  <2>6. /\ SubSeq(q, 2, Len(q) - 1) \in Seq(Int)
        /\ Len(SubSeq(q, 2, Len(q) - 1)) = Len(body)
        /\ \A r \in 1 .. Len(body) : SubSeq(q, 2, Len(q) - 1)[r] = q[r + 1]
    <3> DEFINE hi == Len(body) + 1
    <3>1. Len(q) - 1 = hi /\ hi \in Int /\ 2 \in Int /\ (2 <= hi <=> Len(body) # 0)
          /\ hi - 2 + 1 = Len(body)
      BY <1>4, <2>3
    <3>2. /\ SubSeq(q, 2, hi) \in Seq(Int)
          /\ Len(SubSeq(q, 2, hi)) = IF 2 <= hi THEN hi - 2 + 1 ELSE 0
          /\ \A r \in 1 .. hi - 2 + 1 : SubSeq(q, 2, hi)[r] = q[2 + r - 1]
      <4> HIDE DEF hi
      <4>1. \A r \in 2 .. hi : q[r] \in Int
        BY <2>5 DEF hi
      <4> QED
        BY <3>1, <4>1, SubSeqProperties
    <3>3. \A r \in 1 .. Len(body) : 2 + r - 1 = r + 1
      BY <1>4
    <3> QED
      BY <1>4, <3>1, <3>2, <3>3
  <2>7. \A r \in 1 .. Len(body) : SubSeq(q, 2, Len(q) - 1)[r] = body[r]
    BY <2>3, <2>6
  <2> QED
    BY <1>4, <2>6, <2>7, SeqEqual
<1>7. PICK g : Scans(g, body) /\ Unquote(q) = g[Len(body)].text
  <2> HIDE DEF q, body
  <2> QED
    BY <1>4, <1>6, UnquoteScans
<1> DEFINE P == {k \in 0 .. n : /\ g[Len(f[k])].mode = "plain"
                                /\ g[Len(f[k])].text = SubSeq(s, 1, k)}
<1>8. 0 \in P
  <2>1. Len(f[0]) = 0 /\ SubSeq(s, 1, 0) = <<>> /\ 0 \in 0 .. n
    BY <1>1, <1>2 DEF Bodies
  <2>2. g[0] = NothingRead
    BY <1>7 DEF Scans
  <2>3. g[0].mode = "plain" /\ g[0].text = <<>>
    BY <2>2 DEF NothingRead
  <2>4. g[Len(f[0])].mode = "plain" /\ g[Len(f[0])].text = SubSeq(s, 1, 0)
    BY <2>1, <2>3
  <2> QED
    BY <2>1, <2>4
<1>9. ASSUME NEW k \in 1 .. n, k - 1 \in P
      PROVE  k \in P
  <2> DEFINE e == Escaped(s[k])
             p == Len(f[k - 1])
  <2>1. k \in 0 .. n /\ k - 1 \in 0 .. n /\ k - 1 \in Nat
    BY <1>2
  <2>2. g[p].mode = "plain" /\ g[p].text = SubSeq(s, 1, k - 1)
    BY <1>9
  <2>3. /\ Len(f[k]) = p + Len(e)
        /\ Len(f[k]) <= Len(body)
        /\ \A r \in 1 .. Len(e) : body[p + r] = e[r]
    <3>1. Placed(f, s, k)
      BY <1>1, BodiesGrow
    <3> QED
      BY <3>1 DEF Placed
  <2>4. p \in Nat /\ s[k] \in Byte
    BY <1>2, <1>3, <2>1
  <2>5. Reads(g[Len(f[k])], g[p], s[k])
    <3>1. p + Len(e) <= Len(body) /\ e = Escaped(s[k])
      BY <2>3
    <3> HIDE DEF p, body, e
    <3>2. Reads(g[p + Len(e)], g[p], s[k])
      BY <1>4, <1>7, <2>2, <2>3, <2>4, <3>1, EscapeReads
    <3> QED
      BY <2>3, <3>2
  <2>6. Append(SubSeq(s, 1, k - 1), s[k]) = SubSeq(s, 1, k)
    BY <1>2
  <2> QED
    BY <2>1, <2>2, <2>5, <2>6 DEF Reads
<1> HIDE DEF P
<1>10. \A k \in 0 .. n : k \in P
  BY <1>2, <1>8, <1>9, PlaceInduction
<1>11. g[Len(body)].text = SubSeq(s, 1, n)
  BY <1>2, <1>10 DEF P
<1>12. SubSeq(s, 1, n) = s
  BY SubSeqFull
<1> QED
  BY <1>1, <1>5, <1>7, <1>11, <1>12

-----------------------------------------------------------------------------
(* The places of the colons *)

ColonsOf(s) == {j \in DOMAIN s : s[j] = Colon}

\* How many colons are among the first j bytes.
Count(s, j) == Cardinality(ColonsOf(s) \cap 1 .. j)

\* The k-th colon, and the k-th piece of a text, as TokensOf takes it.
At(s, k) == CHOOSE j \in ColonsOf(s) : Cardinality(ColonsOf(s) \cap 1 .. j) = k
From(s, k) == IF k = 1 THEN 1 ELSE At(s, k - 1) + 1
To(s, k) == IF k > Cardinality(ColonsOf(s)) THEN Len(s) ELSE At(s, k) - 1
Piece(s, k) == SubSeq(s, From(s, k), To(s, k))

PieceCount(s) == Cardinality(ColonsOf(s)) + 1

\* The tokens of a text are the tokens of its pieces.
LEMMA TokensArePieces ==
  ASSUME NEW s
  PROVE  TokensOf(s) = [k \in 1 .. PieceCount(s) |-> TokenOf(Piece(s, k))]
BY Zenon DEF TokensOf, PieceCount, Piece, From, To, At, ColonsOf

\* The colons are counted one after the other.
LEMMA CountFacts ==
  ASSUME NEW s \in Seq(Byte)
  PROVE  /\ Len(s) \in Nat /\ ColonsOf(s) \subseteq 1 .. Len(s)
         /\ Count(s, 0) = 0
         /\ Count(s, Len(s)) = Cardinality(ColonsOf(s))
         /\ \A j \in 0 .. Len(s) : Count(s, j) \in Nat
         /\ \A j \in 1 .. Len(s) :
              Count(s, j) = IF s[j] = Colon THEN Count(s, j - 1) + 1 ELSE Count(s, j - 1)
<1>1. Len(s) \in Nat /\ DOMAIN s = 1 .. Len(s)
  BY LenProperties
<1> DEFINE C == ColonsOf(s)
           Upto(j) == C \cap 1 .. j
<1>2. C \subseteq 1 .. Len(s) /\ \A j \in 1 .. Len(s) : j \in C <=> s[j] = Colon
  BY <1>1 DEF ColonsOf
<1> HIDE DEF C
<1>3. \A j \in 0 .. Len(s) : IsFiniteSet(Upto(j))
  <2> SUFFICES ASSUME NEW j \in 0 .. Len(s) PROVE IsFiniteSet(Upto(j))
    OBVIOUS
  <2>1. IsFiniteSet(1 .. j) /\ Upto(j) \subseteq 1 .. j
    BY <1>1, FS_Interval
  <2> QED
    BY <2>1, FS_Subset
<1>4. \A j \in 0 .. Len(s) : Cardinality(Upto(j)) \in Nat
  BY <1>3, FS_CardinalityType
<1>5. Upto(0) = {} /\ Upto(Len(s)) = C
  <2>1. 1 .. 0 = {}
    OBVIOUS
  <2> QED
    BY <1>2, <2>1, Zenon
<1>6. Cardinality(Upto(0)) = 0
  BY <1>5, FS_EmptySet
<1>7. ASSUME NEW j \in 1 .. Len(s)
      PROVE  Cardinality(Upto(j)) =
               IF s[j] = Colon THEN Cardinality(Upto(j - 1)) + 1
               ELSE Cardinality(Upto(j - 1))
  <2>1. j - 1 \in 0 .. Len(s) /\ j \notin Upto(j - 1)
    BY <1>1
  <2>2. CASE s[j] = Colon
    <3>1. Upto(j) = Upto(j - 1) \cup {j}
      BY <1>1, <1>2, <2>2
    <3> HIDE DEF Upto
    <3>2. IsFiniteSet(Upto(j - 1))
      BY <1>3, <2>1
    <3> QED
      BY <2>1, <2>2, <3>1, <3>2, FS_AddElement
  <2>3. CASE s[j] # Colon
    <3>1. Upto(j) = Upto(j - 1)
      BY <1>1, <1>2, <2>3
    <3> QED
      BY <2>3, <3>1
  <2> QED
    BY <2>2, <2>3
<1> QED
  BY <1>1, <1>2, <1>4, <1>5, <1>6, <1>7, Zenon DEF Count, C

\* More bytes hold no fewer colons.
LEMMA CountGrows ==
  ASSUME NEW s \in Seq(Byte), NEW j \in 0 .. Len(s), NEW m \in j .. Len(s)
  PROVE  Count(s, j) <= Count(s, m)
<1>1. Len(s) \in Nat /\ ColonsOf(s) \subseteq 1 .. Len(s)
  BY CountFacts
<1>2. ColonsOf(s) \cap 1 .. j \subseteq ColonsOf(s) \cap 1 .. m
  BY <1>1
<1>3. IsFiniteSet(ColonsOf(s) \cap 1 .. m)
  <2>1. IsFiniteSet(1 .. m) /\ ColonsOf(s) \cap 1 .. m \subseteq 1 .. m
    BY <1>1, FS_Interval
  <2> QED
    BY <2>1, FS_Subset
<1> QED
  BY <1>2, <1>3, FS_Subset DEF Count

\* Two colons have different numbers.
LEMMA AtUnique ==
  ASSUME NEW s \in Seq(Byte), NEW j \in ColonsOf(s)
  PROVE  At(s, Count(s, j)) = j
<1>1. Len(s) \in Nat /\ ColonsOf(s) \subseteq 1 .. Len(s)
  BY CountFacts
<1>2. ASSUME NEW a \in ColonsOf(s), NEW b \in ColonsOf(s), a < b
      PROVE  Count(s, a) < Count(s, b)
  <2>1. a \in 1 .. Len(s) /\ b \in 1 .. Len(s) /\ s[b] = Colon
    BY <1>1 DEF ColonsOf
  <2>2. a \in 0 .. Len(s) /\ b - 1 \in a .. Len(s) /\ b - 1 \in 0 .. Len(s)
    BY <1>1, <1>2, <2>1
  <2>3. Count(s, b) = Count(s, b - 1) + 1 /\ Count(s, b - 1) \in Nat /\ Count(s, a) \in Nat
    BY <2>1, <2>2, CountFacts
  <2>4. Count(s, a) <= Count(s, b - 1)
    BY <2>2, CountGrows
  <2> QED
    BY <2>3, <2>4
<1>3. \A a \in ColonsOf(s) : a \in Nat /\ Count(s, a) \in Nat
  BY <1>1, CountFacts
<1>4. \A a \in ColonsOf(s) : Count(s, a) = Count(s, j) => a = j
  <2> SUFFICES ASSUME NEW a \in ColonsOf(s), Count(s, a) = Count(s, j)
               PROVE  a = j
    OBVIOUS
  <2>1. ~ (a < j) /\ ~ (j < a)
    BY <1>2, <1>3
  <2> QED
    BY <1>3, <2>1
<1> QED
  BY <1>4 DEF At, Count

\* The k-th colon exists when there are k of them.
LEMMA KthColon ==
  ASSUME NEW s \in Seq(Byte), NEW m \in 0 .. Len(s), NEW k \in 1 .. Count(s, m)
  PROVE  /\ At(s, k) \in ColonsOf(s) /\ At(s, k) \in 1 .. m
         /\ s[At(s, k)] = Colon /\ Count(s, At(s, k)) = k
<1> DEFINE n == Len(s)
           P == {j \in 0 .. n : \A x \in 1 .. Count(s, j) :
                   \E c \in ColonsOf(s) : c <= j /\ Count(s, c) = x}
<1>1. n \in Nat /\ ColonsOf(s) \subseteq 1 .. n /\ Count(s, 0) = 0
  BY CountFacts
<1>2. \A c \in ColonsOf(s) : s[c] = Colon
  BY DEF ColonsOf
<1>3. 0 \in P
  BY <1>1
<1>4. ASSUME NEW j \in 1 .. n, j - 1 \in P
      PROVE  j \in P
  <2>1. j - 1 \in 0 .. n /\ j \in 0 .. n /\ j \in Nat
    BY <1>1
  <2>2. Count(s, j - 1) \in Nat
    BY <2>1, CountFacts
  <2>3. Count(s, j) = IF s[j] = Colon THEN Count(s, j - 1) + 1 ELSE Count(s, j - 1)
    BY CountFacts
  <2>4. ASSUME NEW x \in 1 .. Count(s, j)
        PROVE  \E c \in ColonsOf(s) : c <= j /\ Count(s, c) = x
    <3>1. CASE x \in 1 .. Count(s, j - 1)
      <4>1. PICK c \in ColonsOf(s) : c <= j - 1 /\ Count(s, c) = x
        BY <1>4, <3>1
      <4>2. c <= j
        BY <1>1, <2>1, <4>1
      <4> QED
        BY <4>1, <4>2
    <3>2. CASE x \notin 1 .. Count(s, j - 1)
      <4>1. s[j] = Colon /\ x = Count(s, j)
        BY <2>2, <2>3, <3>2
      <4>2. j \in ColonsOf(s)
        BY <4>1, LenProperties DEF ColonsOf
      <4> QED
        BY <2>1, <4>1, <4>2
    <3> QED
      BY <3>1, <3>2
  <2> QED
    BY <2>1, <2>4
<1> HIDE DEF P
<1>5. m \in P
  BY <1>1, <1>3, <1>4, PlaceInduction
<1>6. PICK c \in ColonsOf(s) : c <= m /\ Count(s, c) = k
  BY <1>5 DEF P
<1>7. At(s, k) = c
  BY <1>6, AtUnique
<1> QED
  BY <1>1, <1>2, <1>6, <1>7

\* Where the pieces lie.
LEMMA PiecePlaces ==
  ASSUME NEW s \in Seq(Byte), NEW k \in 1 .. PieceCount(s)
  PROVE  /\ From(s, k) \in 1 .. Len(s) + 1
         /\ To(s, k) \in 0 .. Len(s) /\ From(s, k) <= To(s, k) + 1
         /\ Count(s, From(s, k) - 1) = k - 1
         /\ Piece(s, k) \in Seq(Byte)
<1> DEFINE n == Len(s)
           c == Cardinality(ColonsOf(s))
<1>1. n \in Nat /\ Count(s, n) = c /\ c \in Nat /\ Count(s, 0) = 0 /\ n \in 0 .. n
  BY CountFacts
<1>2. k \in 1 .. c + 1 /\ k \in Nat
  BY <1>1 DEF PieceCount
<1>3. \A x \in 1 .. c : At(s, x) \in 1 .. n /\ Count(s, At(s, x)) = x
  BY <1>1, KthColon
<1> HIDE DEF n, c
<1>4. From(s, k) \in 1 .. n + 1 /\ Count(s, From(s, k) - 1) = k - 1
  <2>1. CASE k = 1
    BY <1>1, <2>1 DEF From
  <2>2. CASE k # 1
    <3>1. k - 1 \in 1 .. c
      BY <1>1, <1>2, <2>2
    <3>2. At(s, k - 1) \in 1 .. n /\ Count(s, At(s, k - 1)) = k - 1
      BY <1>3, <3>1
    <3>3. From(s, k) = At(s, k - 1) + 1
      BY <2>2 DEF From
    <3>4. From(s, k) - 1 = At(s, k - 1) /\ From(s, k) \in 1 .. n + 1
      BY <1>1, <3>2, <3>3
    <3> QED
      BY <3>2, <3>4
  <2> QED
    BY <2>1, <2>2
<1>5. To(s, k) \in 0 .. n /\ From(s, k) <= To(s, k) + 1
  <2>1. CASE k > c
    <3>1. To(s, k) = n
      BY <2>1 DEF To, n, c
    <3> QED
      BY <1>1, <1>4, <3>1
  <2>2. CASE k \in 1 .. c
    <3>1. At(s, k) \in 1 .. n /\ Count(s, At(s, k)) = k /\ To(s, k) = At(s, k) - 1
      <4>1. ~ (k > c)
        BY <1>1, <2>2
      <4> QED
        BY <1>3, <2>2, <4>1 DEF To, c
    <3>2. ~ (At(s, k) <= From(s, k) - 1)
      <4>1. SUFFICES ASSUME At(s, k) <= From(s, k) - 1 PROVE FALSE
        OBVIOUS
      <4>2. At(s, k) \in 0 .. n /\ From(s, k) - 1 \in At(s, k) .. n
        BY <1>1, <1>4, <3>1, <4>1
      <4>3. Count(s, At(s, k)) <= Count(s, From(s, k) - 1)
        BY <4>2, CountGrows DEF n
      <4> QED
        BY <1>2, <1>4, <3>1, <4>3
    <3> QED
      BY <1>1, <1>4, <3>1, <3>2
  <2> QED
    BY <1>1, <1>2, <2>1, <2>2
<1>6. Piece(s, k) \in Seq(Byte)
  <2>1. \A j \in From(s, k) .. To(s, k) : s[j] \in Byte
    <3>1. \A j \in From(s, k) .. To(s, k) : j \in 1 .. Len(s)
      BY <1>1, <1>4, <1>5 DEF n
    <3> QED
      BY <3>1, ElementOfSeq
  <2>2. From(s, k) \in Int /\ To(s, k) \in Int
    BY <1>1, <1>4, <1>5
  <2> QED
    BY <2>1, <2>2, SubSeqProperties DEF Piece
<1> QED
  BY <1>4, <1>5, <1>6 DEF n

-----------------------------------------------------------------------------
(* The pieces of split are the pieces between the colons *)

CutStates == [pieces : Seq(Seq(Byte)), start : Nat \ {0}]

\* One step of the loop of split.
CutStep(s, cut, j) ==
  IF s[j] # Colon THEN cut
  ELSE [pieces |-> Append(cut.pieces, SubSeq(s, cut.start, j - 1)), start |-> j + 1]

NothingCut == [pieces |-> <<>>, start |-> 1]

\* The states of the loop, one byte of the text after the other.
CutsOf(f, s) ==
  /\ f \in [0 .. Len(s) -> CutStates]
  /\ f[0] = NothingCut
  /\ \A j \in 1 .. Len(s) : f[j] = CutStep(s, f[j - 1], j)

\* A part of a text is a text.
LEMMA PartTyped ==
  ASSUME NEW s \in Seq(Byte), NEW a \in Nat \ {0}, NEW b \in 0 .. Len(s)
  PROVE  /\ SubSeq(s, a, b) \in Seq(Byte)
         /\ Len(SubSeq(s, a, b)) = IF a <= b THEN b - a + 1 ELSE 0
         /\ \A j \in 1 .. b - a + 1 : SubSeq(s, a, b)[j] = s[a + j - 1]
<1>1. Len(s) \in Nat /\ a \in Int /\ b \in Int
  BY LenProperties
<1>2. \A j \in a .. b : j \in 1 .. Len(s)
  BY <1>1
<1>3. \A j \in a .. b : s[j] \in Byte
  BY <1>2, ElementOfSeq
<1> QED
  BY <1>1, <1>3, SubSeqProperties

\* Cuts returns the last of them.
LEMMA CutsStates ==
  ASSUME NEW s \in Seq(Byte)
  PROVE  \E f : CutsOf(f, s) /\ Cuts(s, Colon) = f[Len(s)]
<1> DEFINE n == Len(s)
           Solves(f) ==
             f = [j \in 0 .. n |-> IF j = 0 THEN NothingCut ELSE CutStep(s, f[j - 1], j)]
           h == CHOOSE f : Solves(f)
           step == [cut \in CutStates |-> [j \in 1 .. n |-> CutStep(s, cut, j)]]
<1>1. n \in Nat
  BY LenProperties
<1>2. ASSUME NEW cut \in CutStates, NEW j \in 1 .. n
      PROVE  CutStep(s, cut, j) \in CutStates
  <2>1. cut.pieces \in Seq(Seq(Byte)) /\ cut.start \in Nat \ {0}
    BY DEF CutStates
  <2>2. j - 1 \in 0 .. Len(s) /\ j + 1 \in Nat \ {0}
    BY <1>1
  <2>3. SubSeq(s, cut.start, j - 1) \in Seq(Byte)
    BY <2>1, <2>2, PartTyped
  <2>4. Append(cut.pieces, SubSeq(s, cut.start, j - 1)) \in Seq(Seq(Byte))
    BY <2>1, <2>3, AppendProperties
  <2> QED
    BY <2>2, <2>4, Zenon DEF CutStep, CutStates
<1>3. step \in [CutStates -> [1 .. n -> CutStates]]
  BY <1>2
<1>4. \A cut \in CutStates, j \in 1 .. n : step[cut][j] = CutStep(s, cut, j)
  OBVIOUS
<1>5. NothingCut \in CutStates
  <2>1. <<>> \in Seq(Seq(Byte)) /\ 1 \in Nat \ {0}
    OBVIOUS
  <2> QED
    BY <2>1, Zenon DEF NothingCut, CutStates
<1> HIDE DEF n, step
<1>6. PICK f : Steps(f, n, CutStates, NothingCut, step)
  BY <1>1, <1>3, <1>5, StepsExist
<1>7. \A k \in 1 .. n : f[k - 1] \in CutStates /\ k \in 0 .. n /\ k # 0
  BY <1>1, <1>6 DEF Steps
<1>8. \A k \in 1 .. n : f[k] = CutStep(s, f[k - 1], k)
  BY <1>4, <1>6, <1>7 DEF Steps
<1>9. Solves(f)
  <2>1. f = [k \in 0 .. n |-> f[k]]
    BY <1>6 DEF Steps
  <2>2. \A k \in 0 .. n : k = 0 \/ k \in 1 .. n
    BY <1>1
  <2>3. \A k \in 0 .. n : f[k] = IF k = 0 THEN NothingCut ELSE CutStep(s, f[k - 1], k)
    BY <1>6, <1>7, <1>8, <2>2, Zenon DEF Steps
  <2> QED
    BY <2>1, <2>3, Zenon
<1>10. Solves(h)
  BY <1>9, Zenon
<1>11. Cuts(s, Colon) = h[n]
  BY Zenon DEF Cuts, n, CutStep, NothingCut
<1> HIDE DEF h
<1>12. \A k \in 0 .. n : h[k] = IF k = 0 THEN NothingCut ELSE CutStep(s, h[k - 1], k)
  BY <1>10, Zenon
<1>13. h[0] = NothingCut /\ \A k \in 1 .. n : h[k] = CutStep(s, h[k - 1], k)
  <2>1. 0 \in 0 .. n
    BY <1>1
  <2> QED
    BY <1>7, <1>12, <2>1, Zenon
<1>14. \A k \in 1 .. n : h[k - 1] \in CutStates => h[k] \in CutStates
  BY <1>2, <1>13, Zenon
<1>15. \A k \in 0 .. n : h[k] \in CutStates
  BY <1>1, <1>5, <1>13, <1>14, StepsStay
<1>16. h = [k \in 0 .. n |-> h[k]]
  BY <1>10, Zenon
<1>17. h \in [0 .. n -> CutStates]
  BY <1>15, <1>16
<1> QED
  BY <1>11, <1>13, <1>17 DEF CutsOf, n

\* After j bytes there is a piece for every colon among them, and the piece
\* being read starts after the last of these.
CutFacts(s, cut, j) ==
  /\ Len(cut.pieces) = Count(s, j)
  /\ cut.start = From(s, Count(s, j) + 1)
  /\ \A k \in 1 .. Count(s, j) : cut.pieces[k] = Piece(s, k)

\* A step keeps these facts.
LEMMA CutFactsKept ==
  ASSUME NEW s \in Seq(Byte), NEW j \in 1 .. Len(s), NEW cut \in CutStates,
         CutFacts(s, cut, j - 1)
  PROVE  CutFacts(s, CutStep(s, cut, j), j)
<1> DEFINE c == Count(s, j - 1)
           all == Cardinality(ColonsOf(s))
<1>1. Len(s) \in Nat /\ j \in Nat /\ j - 1 \in 0 .. Len(s) /\ j \in 0 .. Len(s)
  BY LenProperties
<1>2. c \in Nat /\ Count(s, j) = IF s[j] = Colon THEN c + 1 ELSE c
  BY <1>1, CountFacts
<1>3. CASE s[j] # Colon
  BY <1>2, <1>3 DEF CutStep, CutFacts
<1>4. CASE s[j] = Colon
  <2> DEFINE p == SubSeq(s, cut.start, j - 1)
             new == [pieces |-> Append(cut.pieces, p), start |-> j + 1]
  <2>1. Count(s, j) = c + 1 /\ j \in ColonsOf(s)
    BY <1>1, <1>2, <1>4, LenProperties DEF ColonsOf
  <2>2. At(s, c + 1) = j
    BY <2>1, AtUnique
  <2>3. c + 1 <= all /\ all \in Nat
    <3>1. Count(s, j) <= Count(s, Len(s)) /\ Count(s, Len(s)) = all /\ Count(s, Len(s)) \in Nat
      <4>1. Len(s) \in j .. Len(s) /\ Len(s) \in 0 .. Len(s)
        BY <1>1
      <4> QED
        BY <1>1, <4>1, CountGrows, CountFacts
    <3> QED
      BY <1>2, <2>1, <3>1
  <2>4. To(s, c + 1) = j - 1
    <3>1. ~ (c + 1 > all)
      BY <1>2, <2>3
    <3> QED
      BY <2>2, <3>1 DEF To
  <2>5. p = Piece(s, c + 1)
    BY <2>4 DEF Piece, CutFacts
  <2>6. From(s, c + 2) = j + 1
    <3>1. c + 2 # 1 /\ (c + 2) - 1 = c + 1
      BY <1>2
    <3> QED
      BY <2>2, <3>1 DEF From
  <2>7. cut.pieces \in Seq(Seq(Byte)) /\ cut.start \in Nat \ {0}
    BY DEF CutStates
  <2>8. p \in Seq(Byte)
    BY <1>1, <2>7, PartTyped
  <2>9. /\ Len(Append(cut.pieces, p)) = c + 1
        /\ \A k \in 1 .. c : Append(cut.pieces, p)[k] = cut.pieces[k]
        /\ Append(cut.pieces, p)[c + 1] = p
    <3> HIDE DEF p
    <3>1. Len(cut.pieces) = c
      BY DEF CutFacts
    <3> QED
      BY <2>7, <2>8, <3>1, AppendProperties
  <2>10. \A k \in 1 .. c + 1 : Append(cut.pieces, p)[k] = Piece(s, k)
    <3> HIDE DEF p, c
    <3>1. \A k \in 1 .. c + 1 : k \in 1 .. c \/ k = c + 1
      BY <1>2
    <3>2. \A k \in 1 .. c : cut.pieces[k] = Piece(s, k)
      BY DEF CutFacts, c
    <3> QED
      BY <2>5, <2>9, <3>1, <3>2, Zenon
  <2>11. CutStep(s, cut, j) = new
    BY <1>4, Zenon DEF CutStep
  <2>12. new.pieces = Append(cut.pieces, p) /\ new.start = j + 1
    OBVIOUS
  <2>13. (c + 1) + 1 = c + 2
    BY <1>2
  <2> HIDE DEF p, new, c
  <2> QED
    BY <2>1, <2>6, <2>9, <2>10, <2>11, <2>12, <2>13 DEF CutFacts
<1> QED
  BY <1>3, <1>4

\* split cuts a text into the pieces of TokensOf.
LEMMA SplitPieces ==
  ASSUME NEW s \in Seq(Byte)
  PROVE  /\ Split(s, Colon) \in Seq(Seq(Byte))
         /\ Len(Split(s, Colon)) = PieceCount(s) /\ PieceCount(s) \in Nat \ {0}
         /\ \A k \in 1 .. PieceCount(s) : Split(s, Colon)[k] = Piece(s, k)
<1>1. PICK f : CutsOf(f, s) /\ Cuts(s, Colon) = f[Len(s)]
  BY CutsStates
<1> DEFINE n == Len(s)
           c == Cardinality(ColonsOf(s))
           P == {j \in 0 .. n : CutFacts(s, f[j], j)}
<1>2. n \in Nat /\ Count(s, 0) = 0 /\ Count(s, n) = c /\ c \in Nat
  <2>1. n \in Nat /\ Count(s, 0) = 0 /\ Count(s, n) = c
    BY CountFacts
  <2>2. n \in 0 .. n
    BY <2>1
  <2> QED
    BY <2>1, <2>2, CountFacts
<1>3. 0 \in P
  <2>1. f[0].pieces = <<>> /\ f[0].start = 1
    BY <1>1 DEF CutsOf, NothingCut
  <2>2. From(s, 0 + 1) = 1
    BY DEF From
  <2>3. CutFacts(s, f[0], 0)
    BY <1>2, <2>1, <2>2 DEF CutFacts
  <2> QED
    BY <1>2, <2>3
<1>4. ASSUME NEW j \in 1 .. n, j - 1 \in P
      PROVE  j \in P
  <2>1. j \in 0 .. n /\ j - 1 \in 0 .. n
    BY <1>2
  <2>2. f[j - 1] \in CutStates /\ f[j] = CutStep(s, f[j - 1], j)
    BY <1>1, <2>1 DEF CutsOf
  <2>3. CutFacts(s, f[j], j)
    BY <1>4, <2>2, CutFactsKept
  <2> QED
    BY <2>1, <2>3
<1> HIDE DEF P
<1>5. n \in P
  <2>1. n \in 0 .. n
    BY <1>2
  <2> QED
    BY <1>2, <1>3, <1>4, <2>1, PlaceInduction
<1> DEFINE cut == f[n]
           p == SubSeq(s, cut.start, n)
<1>6. CutFacts(s, cut, n) /\ cut \in CutStates
  BY <1>1, <1>2, <1>5 DEF P, CutsOf
<1>7. Split(s, Colon) = Append(cut.pieces, p)
  BY <1>1, Zenon DEF Split
<1> HIDE DEF cut
<1>8. cut.pieces \in Seq(Seq(Byte)) /\ cut.start \in Nat \ {0}
  BY <1>6 DEF CutStates
<1>9. p \in Seq(Byte)
  <2>1. n \in 0 .. Len(s)
    BY <1>2
  <2> QED
    BY <1>8, <2>1, PartTyped
<1>10. Len(cut.pieces) = c /\ cut.start = From(s, c + 1) /\ \A k \in 1 .. c : cut.pieces[k] = Piece(s, k)
  BY <1>2, <1>6 DEF CutFacts
<1>11. p = Piece(s, c + 1)
  <2>1. c + 1 > c
    BY <1>2
  <2>2. To(s, c + 1) = n
    BY <2>1 DEF To
  <2> QED
    BY <1>10, <2>2 DEF Piece
<1> HIDE DEF p, c
<1>12. /\ Append(cut.pieces, p) \in Seq(Seq(Byte))
       /\ Len(Append(cut.pieces, p)) = c + 1
       /\ \A k \in 1 .. c : Append(cut.pieces, p)[k] = cut.pieces[k]
       /\ Append(cut.pieces, p)[c + 1] = p
  BY <1>8, <1>9, <1>10, AppendProperties
<1>13. \A k \in 1 .. c + 1 : k \in 1 .. c \/ k = c + 1
  BY <1>2
<1>14. PieceCount(s) = c + 1 /\ PieceCount(s) \in Nat \ {0}
  BY <1>2 DEF PieceCount, c
<1>15. \A k \in 1 .. c + 1 : Append(cut.pieces, p)[k] = Piece(s, k)
  BY <1>10, <1>11, <1>12, <1>13, Zenon
<1> QED
  BY <1>7, <1>12, <1>14, <1>15

\* The same pieces, as tokens: what the loop sees and what TokensOf says.
LEMMA SplitIsTokens ==
  ASSUME NEW s \in Seq(Byte)
  PROVE  TokensOf(s) = [k \in DOMAIN Split(s, Colon) |-> TokenOf(Split(s, Colon)[k])]
<1> DEFINE t == Split(s, Colon)
           n == PieceCount(s)
<1>1. t \in Seq(Seq(Byte)) /\ Len(t) = n /\ \A k \in 1 .. n : t[k] = Piece(s, k)
  BY SplitPieces
<1> HIDE DEF t, n
<1>2. DOMAIN t = 1 .. n
  BY <1>1, LenProperties
<1>3. TokensOf(s) = [k \in 1 .. n |-> TokenOf(Piece(s, k))]
  BY TokensArePieces DEF n
<1>4. [k \in 1 .. n |-> TokenOf(Piece(s, k))] = [k \in 1 .. n |-> TokenOf(t[k])]
  BY <1>1, Zenon
<1> QED
  BY <1>2, <1>3, <1>4, Zenon DEF t

-----------------------------------------------------------------------------
(* The beginning of a text *)

\* v is the first m bytes of u, with the colons among them.
Begins(v, u, m) ==
  /\ v \in Seq(Byte) /\ Len(v) = m
  /\ \A j \in 1 .. m : v[j] = u[j]
  /\ ColonsOf(v) = ColonsOf(u) \cap 1 .. m
  /\ \A j \in 0 .. m : Count(v, j) = Count(u, j)
  /\ Cardinality(ColonsOf(v)) = Count(u, m)

\* A text cut off after m bytes has the same colons up to there.
LEMMA PrefixColons ==
  ASSUME NEW u \in Seq(Byte), NEW m \in 0 .. Len(u), NEW v, v = SubSeq(u, 1, m)
  PROVE  Begins(v, u, m)
<1>1. Len(u) \in Nat /\ m \in Nat /\ 1 \in Nat \ {0}
  BY LenProperties
<1>2. /\ v \in Seq(Byte)
      /\ Len(v) = IF 1 <= m THEN m - 1 + 1 ELSE 0
      /\ \A j \in 1 .. m - 1 + 1 : v[j] = u[1 + j - 1]
  BY <1>1, PartTyped
<1>3. Len(v) = m /\ \A j \in 1 .. m : v[j] = u[j]
  BY <1>1, <1>2
<1>4. DOMAIN v = 1 .. m /\ DOMAIN u = 1 .. Len(u)
  BY <1>2, <1>3, LenProperties
<1>5. ColonsOf(v) = ColonsOf(u) \cap 1 .. m
  <2>1. \A j \in 1 .. m : j \in 1 .. Len(u)
    BY <1>1
  <2>2. \A j : j \in ColonsOf(v) <=> j \in ColonsOf(u) /\ j \in 1 .. m
    BY <1>3, <1>4, <2>1 DEF ColonsOf
  <2> QED
    BY <2>2, Zenon
<1>6. \A j \in 0 .. m : ColonsOf(v) \cap 1 .. j = ColonsOf(u) \cap 1 .. j
  <2>1. \A j \in 0 .. m : 1 .. j \subseteq 1 .. m
    BY <1>1
  <2> QED
    BY <1>5, <2>1, Zenon
<1>7. \A j \in 0 .. m : Count(v, j) = Count(u, j)
  BY <1>6, Zenon DEF Count
<1>8. Cardinality(ColonsOf(v)) = Count(u, m)
  BY <1>5 DEF Count
<1> QED
  BY <1>2, <1>3, <1>5, <1>7, <1>8, Zenon DEF Begins

\* What lies in the beginning of a text lies in the text.
LEMMA PartOfPrefix ==
  ASSUME NEW u \in Seq(Byte), NEW m \in 0 .. Len(u), NEW v, v = SubSeq(u, 1, m),
         NEW a \in Nat \ {0}, NEW b \in 0 .. m
  PROVE  SubSeq(v, a, b) = SubSeq(u, a, b)
<1>1. v \in Seq(Byte) /\ Len(v) = m /\ \A j \in 1 .. m : v[j] = u[j]
  BY PrefixColons DEF Begins
<1>2. Len(u) \in Nat /\ b \in 0 .. Len(u)
  BY LenProperties
<1>3. /\ SubSeq(v, a, b) \in Seq(Byte)
      /\ Len(SubSeq(v, a, b)) = IF a <= b THEN b - a + 1 ELSE 0
      /\ \A j \in 1 .. b - a + 1 : SubSeq(v, a, b)[j] = v[a + j - 1]
  BY <1>1, PartTyped
<1>4. /\ SubSeq(u, a, b) \in Seq(Byte)
      /\ Len(SubSeq(u, a, b)) = IF a <= b THEN b - a + 1 ELSE 0
      /\ \A j \in 1 .. b - a + 1 : SubSeq(u, a, b)[j] = u[a + j - 1]
  BY <1>2, PartTyped
<1>5. \A j \in 1 .. b - a + 1 : a + j - 1 \in 1 .. m
  BY <1>2
<1>6. \A j \in 1 .. Len(SubSeq(v, a, b)) : j \in 1 .. b - a + 1
  BY <1>2, <1>3
<1>7. \A j \in 1 .. Len(SubSeq(v, a, b)) : SubSeq(v, a, b)[j] = SubSeq(u, a, b)[j]
  BY <1>1, <1>3, <1>4, <1>5, <1>6, Zenon
<1> QED
  BY <1>3, <1>4, <1>7, SeqEqual

\* v has the first pieces of u, the last of them cut off after byte m of u.
SamePieces(v, u, m) ==
  LET last == PieceCount(v)
  IN /\ last = Count(u, m) + 1 /\ Count(u, m) \in Nat
     /\ PieceCount(u) \in Nat /\ last <= PieceCount(u)
     /\ \A k \in 1 .. Count(u, m) : Piece(v, k) = Piece(u, k)
     /\ From(u, last) \in 1 .. m + 1
     /\ m <= To(u, last) /\ To(u, last) \in 0 .. Len(u)
     /\ Piece(v, last) = SubSeq(u, From(u, last), m)

\* The beginning of a text has its first pieces.
LEMMA PrefixPieces ==
  ASSUME NEW u \in Seq(Byte), NEW m \in 0 .. Len(u), NEW v, v = SubSeq(u, 1, m)
  PROVE  SamePieces(v, u, m)
<1> DEFINE c == Count(u, m)
           all == Cardinality(ColonsOf(u))
<1>1. /\ v \in Seq(Byte) /\ Len(v) = m
      /\ \A j \in 1 .. m : v[j] = u[j]
      /\ ColonsOf(v) = ColonsOf(u) \cap 1 .. m
      /\ \A j \in 0 .. m : Count(v, j) = Count(u, j)
      /\ Cardinality(ColonsOf(v)) = c
  <2>1. Begins(v, u, m)
    BY PrefixColons
  <2> QED
    BY <2>1, Zenon DEF Begins
<1>2. Len(u) \in Nat /\ m \in Nat /\ c \in Nat /\ all \in Nat /\ c <= all
  <2>1. Len(u) \in Nat /\ c \in Nat /\ Count(u, Len(u)) = all
    BY CountFacts
  <2>2. Len(u) \in m .. Len(u) /\ Len(u) \in 0 .. Len(u)
    BY <2>1
  <2> QED
    BY <2>1, <2>2, CountFacts, CountGrows
<1>3. Count(v, m) = c
  <2>1. m \in 0 .. m
    BY <1>2
  <2> QED
    BY <1>1, <2>1
<1>4. ASSUME NEW k \in 1 .. c
      PROVE  /\ At(v, k) = At(u, k) /\ At(u, k) \in 1 .. m
             /\ Count(u, At(u, k)) = k
  <2>1. m \in 0 .. Len(v)
    BY <1>1, <1>2
  <2>2. At(v, k) \in ColonsOf(v) /\ At(v, k) \in 1 .. m /\ Count(v, At(v, k)) = k
    BY <1>1, <1>3, <2>1, KthColon
  <2>3. At(v, k) \in ColonsOf(u) /\ At(v, k) \in 0 .. m
    BY <1>1, <1>2, <2>2
  <2>4. Count(u, At(v, k)) = k
    BY <1>1, <2>2, <2>3
  <2>5. At(u, k) = At(v, k)
    BY <2>3, <2>4, AtUnique
  <2> QED
    BY <2>2, <2>4, <2>5
<1>5. ASSUME NEW k \in 1 .. c + 1
      PROVE  From(v, k) = From(u, k) /\ From(u, k) \in 1 .. m + 1
  <2>1. CASE k = 1
    BY <1>2, <2>1 DEF From
  <2>2. CASE k # 1
    <3>1. k - 1 \in 1 .. c
      BY <1>2, <2>2
    <3>2. At(v, k - 1) = At(u, k - 1) /\ At(u, k - 1) \in 1 .. m
      BY <1>4, <3>1
    <3> QED
      BY <1>2, <2>2, <3>2 DEF From
  <2> QED
    BY <2>1, <2>2
<1>6. ASSUME NEW k \in 1 .. c
      PROVE  Piece(v, k) = Piece(u, k)
  <2>1. ~ (k > c) /\ ~ (k > all) /\ k \in 1 .. c + 1
    BY <1>2
  <2>2. To(v, k) = At(u, k) - 1 /\ To(u, k) = At(u, k) - 1
    BY <1>1, <1>4, <2>1 DEF To
  <2>3. From(v, k) = From(u, k) /\ From(u, k) \in 1 .. m + 1
    BY <1>5, <2>1
  <2> DEFINE a == From(u, k)
             b == At(u, k) - 1
  <2>4. a \in Nat \ {0} /\ b \in 0 .. m
    BY <1>2, <1>4, <2>3
  <2>5. SubSeq(v, a, b) = SubSeq(u, a, b)
    BY <2>4, PartOfPrefix
  <2> QED
    BY <2>2, <2>3, <2>5 DEF Piece
<1>7. PieceCount(v) = c + 1 /\ PieceCount(u) = all + 1
  BY <1>1 DEF PieceCount
<1>8. From(v, c + 1) = From(u, c + 1) /\ From(u, c + 1) \in 1 .. m + 1
  BY <1>2, <1>5
<1>9. To(v, c + 1) = m
  <2>1. c + 1 > c
    BY <1>2
  <2> QED
    BY <1>1, <2>1 DEF To
<1>10. To(u, c + 1) \in 0 .. Len(u) /\ m <= To(u, c + 1)
  <2>1. CASE c + 1 > all
    BY <1>2, <2>1 DEF To
  <2>2. CASE c + 1 <= all
    <3>1. c + 1 \in 1 .. all /\ all = Count(u, Len(u)) /\ Len(u) \in 0 .. Len(u)
      BY <1>2, <2>2, CountFacts
    <3>2. At(u, c + 1) \in 1 .. Len(u) /\ Count(u, At(u, c + 1)) = c + 1
      BY <3>1, KthColon
    <3>3. ~ (At(u, c + 1) <= m)
      <4>1. SUFFICES ASSUME At(u, c + 1) <= m PROVE FALSE
        OBVIOUS
      <4>2. At(u, c + 1) \in 0 .. Len(u) /\ m \in At(u, c + 1) .. Len(u)
        BY <1>2, <3>2, <4>1
      <4>3. Count(u, At(u, c + 1)) <= c
        BY <4>2, CountGrows
      <4> QED
        BY <1>2, <3>2, <4>3
    <3>4. To(u, c + 1) = At(u, c + 1) - 1
      <4>1. ~ (c + 1 > all)
        BY <1>2, <2>2
      <4> QED
        BY <4>1 DEF To
    <3> QED
      BY <1>2, <3>2, <3>3, <3>4
  <2> QED
    BY <1>2, <2>1, <2>2
<1>11. Piece(v, c + 1) = SubSeq(u, From(u, c + 1), m)
  <2> DEFINE a == From(u, c + 1)
  <2>1. Piece(v, c + 1) = SubSeq(v, a, m)
    BY <1>8, <1>9 DEF Piece
  <2>2. a \in Nat \ {0} /\ m \in 0 .. m
    BY <1>2, <1>8
  <2>3. SubSeq(v, a, m) = SubSeq(u, a, m)
    BY <2>2, PartOfPrefix
  <2> QED
    BY <2>1, <2>3
<1>12. \A k \in 1 .. c : Piece(v, k) = Piece(u, k)
  BY <1>6
<1> DEFINE last == PieceCount(v)
<1>13. last = c + 1 /\ PieceCount(u) \in Nat /\ last <= PieceCount(u)
  BY <1>2, <1>7
<1> HIDE DEF last
<1>14. /\ From(u, last) \in 1 .. m + 1
       /\ m <= To(u, last) /\ To(u, last) \in 0 .. Len(u)
       /\ Piece(v, last) = SubSeq(u, From(u, last), m)
  BY <1>8, <1>10, <1>11, <1>13, Zenon
<1> QED
  BY <1>2, <1>12, <1>13, <1>14, Zenon DEF last, c, SamePieces

-----------------------------------------------------------------------------
(* What the tokens keep of a piece *)

\* A set of numbers has a least one.
LEMMA LeastExists ==
  ASSUME NEW S, S \subseteq Nat, S # {}
  PROVE  Min(S) \in S /\ \A y \in S : Min(S) <= y
<1> DEFINE R == OpToRel(<, Nat)
<1>1. IsWellFoundedOn(R, Nat)
  BY NatLessThanWellFounded
<1>2. \A x, y \in Nat : x < y => <<x, y>> \in R
  BY DEF OpToRel
<1> HIDE DEF R
<1>3. PICK x \in S : \A y \in S : ~ (<<y, x>> \in R)
  BY <1>1, WFMin
<1>4. \A y \in S : x \in Nat /\ y \in Nat /\ ~ (y < x)
  BY <1>2, <1>3
<1>5. \A y \in S : x <= y
  BY <1>4
<1> QED
  BY <1>5, Zenon DEF Min

\* A set of numbers up to n has a greatest one.
LEMMA GreatestExists ==
  ASSUME NEW n \in Nat, NEW S, S \subseteq 1 .. n, S # {}
  PROVE  Max(S) \in S /\ \A y \in S : Max(S) >= y
<1> DEFINE B == {b \in Nat : \A y \in S : y <= b}
<1>1. n \in B
  OBVIOUS
<1>2. B \subseteq Nat /\ B # {}
  BY <1>1
<1> DEFINE m == Min(B)
<1>3. m \in B /\ \A b \in B : m <= b
  <2> HIDE DEF B
  <2> QED
    BY <1>2, LeastExists
<1>4. m \in Nat /\ \A y \in S : y <= m /\ y \in Nat /\ y >= 1
  BY <1>3
<1>5. m \in S
  <2>1. SUFFICES ASSUME m \notin S PROVE FALSE
    OBVIOUS
  <2>2. m - 1 \in Nat
    <3>1. PICK y \in S : TRUE
      OBVIOUS
    <3> HIDE DEF m
    <3> QED
      BY <1>4, <3>1
  <2>3. \A y \in S : y <= m - 1
    BY <1>4, <2>1
  <2>4. m - 1 \in B
    BY <2>2, <2>3
  <2> HIDE DEF m
  <2> QED
    BY <1>3, <1>4, <2>4
<1> HIDE DEF m
<1>6. \A y \in S : m >= y
  BY <1>4
<1> QED
  BY <1>5, <1>6, Zenon DEF Max

\* The body of a token: what is left when everything from a mark on, and the
\* whitespace before it, is gone.
Body(s) == TrimRight(StripRqfBytes(s))

HasUpper(s) == \E j \in DOMAIN s : s[j] \in UpperCase

ByteOf(s) ==
  IF Body(s) \notin Seq(NssByte) THEN "other"
  ELSE IF RqfMarks(s) # {} THEN "rqf" ELSE "none"

\* A token that is neither a number nor a path.
Tok(word, upper, space, byte) ==
  [word |-> word, num |-> 0, path |-> EmptyText, upper |-> upper,
   space |-> space, byte |-> byte]

\* The fields of a token.
LEMMA TokenFields ==
  ASSUME NEW s
  PROVE  TokenOf(s) = Tok(WordOf(Body(s)), HasUpper(Body(s)),
                          Body(s) # StripRqfBytes(s), ByteOf(s))
BY Zenon DEF TokenOf, Body, HasUpper, ByteOf, Tok

\* What trimming does to it.
LEMMA TokTrimmed ==
  ASSUME NEW w, NEW u, NEW p, NEW b
  PROVE  Trim(Tok(w, u, p, b)) = Tok(w, u, FALSE, b)
<1>1. \A q : [Tok(w, u, p, b) EXCEPT !.space = q] = Tok(w, u, q, b)
  BY DEF Tok
<1>2. [Tok(w, u, p, b) EXCEPT !.space = FALSE] = Tok(w, u, FALSE, b)
  BY <1>1, Zenon
<1> QED
  BY <1>2, Zenon DEF Trim

\* Tokens that differ at most in the whitespace after them.
LEMMA TrimmedAlike ==
  ASSUME NEW s, NEW t, Body(s) = Body(t), RqfMarks(s) = RqfMarks(t)
  PROVE  Trim(TokenOf(s)) = Trim(TokenOf(t))
<1>1. ByteOf(s) = ByteOf(t)
  BY Zenon DEF ByteOf
<1>2. ASSUME NEW r
      PROVE  Trim(TokenOf(r)) = Tok(WordOf(Body(r)), HasUpper(Body(r)), FALSE, ByteOf(r))
  BY TokenFields, TokTrimmed
<1>3. /\ Trim(TokenOf(s)) = Tok(WordOf(Body(s)), HasUpper(Body(s)), FALSE, ByteOf(s))
      /\ Trim(TokenOf(t)) = Tok(WordOf(Body(t)), HasUpper(Body(t)), FALSE, ByteOf(t))
  BY <1>2
<1> QED
  BY <1>1, <1>3

\* The marks, and the bytes that are not whitespace, are among the bytes.
LEMMA MarkPlaces ==
  ASSUME NEW s \in Seq(Byte)
  PROVE  /\ RqfMarks(s) \subseteq 1 .. Len(s) /\ Solid(s) \subseteq 1 .. Len(s)
         /\ RqfMarks(s) \subseteq Nat /\ Solid(s) \subseteq Nat /\ Len(s) \in Nat
         /\ RqfMarks(s) # {} => /\ Min(RqfMarks(s)) \in RqfMarks(s)
                                /\ \A j \in RqfMarks(s) : Min(RqfMarks(s)) <= j
         /\ Solid(s) # {} => /\ Max(Solid(s)) \in Solid(s)
                             /\ \A j \in Solid(s) : Max(Solid(s)) >= j
                             /\ Min(Solid(s)) \in Solid(s)
                             /\ \A j \in Solid(s) : Min(Solid(s)) <= j
<1>1. Len(s) \in Nat /\ DOMAIN s = 1 .. Len(s)
  BY LenProperties
<1>2. RqfMarks(s) \subseteq 1 .. Len(s) /\ Solid(s) \subseteq 1 .. Len(s)
  BY <1>1 DEF RqfMarks, Solid
<1>3. RqfMarks(s) \subseteq Nat /\ Solid(s) \subseteq Nat
  BY <1>2
<1>4. RqfMarks(s) # {} => /\ Min(RqfMarks(s)) \in RqfMarks(s)
                          /\ \A j \in RqfMarks(s) : Min(RqfMarks(s)) <= j
  BY <1>3, LeastExists
<1>5. Solid(s) # {} => /\ Max(Solid(s)) \in Solid(s)
                       /\ \A j \in Solid(s) : Max(Solid(s)) >= j
  BY <1>1, <1>2, GreatestExists
<1>6. Solid(s) # {} => /\ Min(Solid(s)) \in Solid(s)
                       /\ \A j \in Solid(s) : Min(Solid(s)) <= j
  BY <1>3, LeastExists
<1> QED
  BY <1>1, <1>2, <1>3, <1>4, <1>5, <1>6

\* Whitespace at the end of a piece changes neither its marks nor its body.
LEMMA SpaceAfter ==
  ASSUME NEW s \in Seq(Byte), NEW m \in 0 .. Len(s), NEW t, t = SubSeq(s, 1, m),
         \A j \in m + 1 .. Len(s) : s[j] \in AsciiSpace
  PROVE  /\ RqfMarks(t) = RqfMarks(s)
         /\ Solid(t) = Solid(s)
         /\ TrimRight(t) = TrimRight(s)
         /\ Body(t) = Body(s)
<1>1. t \in Seq(Byte) /\ Len(t) = m /\ \A j \in 1 .. m : t[j] = s[j]
  BY PrefixColons DEF Begins
<1>2. Len(s) \in Nat /\ m \in Nat /\ DOMAIN s = 1 .. Len(s) /\ DOMAIN t = 1 .. m
  BY <1>1, LenProperties
<1>3. \A j \in 1 .. Len(s) : j \in 1 .. m \/ j \in m + 1 .. Len(s)
  BY <1>2
<1>4. \A j \in 1 .. m : j \in 1 .. Len(s)
  BY <1>2
<1>5. 63 \notin AsciiSpace /\ 35 \notin AsciiSpace
  BY DEF AsciiSpace
<1>6. RqfMarks(t) = RqfMarks(s)
  <2>1. \A j : j \in RqfMarks(t) <=> j \in RqfMarks(s)
    BY <1>1, <1>2, <1>3, <1>4, <1>5 DEF RqfMarks
  <2> QED
    BY <2>1, Zenon
<1>7. Solid(t) = Solid(s)
  <2>1. \A j : j \in Solid(t) <=> j \in Solid(s)
    BY <1>1, <1>2, <1>3, <1>4 DEF Solid
  <2> QED
    BY <2>1, Zenon
<1>8. TrimRight(t) = TrimRight(s)
  <2>1. CASE Solid(s) = {}
    BY <1>7, <2>1 DEF TrimRight
  <2>2. CASE Solid(s) # {}
    <3> DEFINE b == Max(Solid(s))
    <3>1. b \in 0 .. m
      <4>1. Max(Solid(t)) \in Solid(t) /\ Solid(t) \subseteq 1 .. Len(t)
        BY <1>1, <1>7, <2>2, MarkPlaces
      <4> QED
        BY <1>1, <1>2, <1>7, <4>1
    <3> HIDE DEF b
    <3>2. SubSeq(t, 1, b) = SubSeq(s, 1, b)
      BY <3>1, PartOfPrefix
    <3> QED
      BY <1>7, <2>2, <3>2 DEF TrimRight, b
  <2> QED
    BY <2>1, <2>2
<1>9. Body(t) = Body(s)
  <2>1. CASE RqfMarks(s) = {}
    BY <1>6, <1>8, <2>1 DEF Body, StripRqfBytes
  <2>2. CASE RqfMarks(s) # {}
    <3> DEFINE b == Min(RqfMarks(s)) - 1
    <3>1. b \in 0 .. m
      <4>1. Min(RqfMarks(t)) \in RqfMarks(t) /\ RqfMarks(t) \subseteq 1 .. Len(t)
        BY <1>1, <1>6, <2>2, MarkPlaces
      <4> QED
        BY <1>1, <1>2, <1>6, <4>1
    <3> HIDE DEF b
    <3>2. SubSeq(t, 1, b) = SubSeq(s, 1, b)
      BY <3>1, PartOfPrefix
    <3> QED
      BY <1>6, <2>2, <3>2 DEF Body, StripRqfBytes, b
  <2> QED
    BY <2>1, <2>2
<1> QED
  BY <1>6, <1>7, <1>8, <1>9

\* What a token of a text can be.
PieceTokens ==
  [word : {"", "x"} \cup Keys, num : {0}, path : {EmptyText}, upper : BOOLEAN,
   space : BOOLEAN, byte : {"none", "rqf", "other"}]

\* The word of a piece is a key, no word, or another one.
LEMMA WordTyped ==
  ASSUME NEW s
  PROVE  WordOf(s) \in {"", "x"} \cup Keys
<1>1. CASE s # <<>> /\ IsKnownComponent(ToLower(s))
  <2>1. \E k \in Keys : KeyText[k] = ToLower(s)
    BY <1>1 DEF IsKnownComponent
  <2>2. WordOf(s) = CHOOSE k \in Keys : KeyText[k] = ToLower(s)
    BY <1>1, Zenon DEF WordOf
  <2> QED
    BY <2>1, <2>2, Zenon
<1>2. CASE ~ (s # <<>> /\ IsKnownComponent(ToLower(s)))
  BY <1>2, Zenon DEF WordOf
<1> QED
  BY <1>1, <1>2

\* A token of a text is one of these.
LEMMA TokenTyped ==
  ASSUME NEW s
  PROVE  TokenOf(s) \in PieceTokens
<1>1. ASSUME NEW w \in {"", "x"} \cup Keys, NEW u \in BOOLEAN, NEW p \in BOOLEAN,
             NEW b \in {"none", "rqf", "other"}
      PROVE  Tok(w, u, p, b) \in PieceTokens
  BY Zenon DEF Tok, PieceTokens
<1>2. HasUpper(Body(s)) \in BOOLEAN /\ (Body(s) # StripRqfBytes(s)) \in BOOLEAN
  BY Zenon DEF HasUpper
<1>3. ByteOf(s) \in {"none", "rqf", "other"}
  BY Zenon DEF ByteOf
<1>4. WordOf(Body(s)) \in {"", "x"} \cup Keys
  BY WordTyped
<1>5. Tok(WordOf(Body(s)), HasUpper(Body(s)), Body(s) # StripRqfBytes(s), ByteOf(s))
        \in PieceTokens
  BY <1>1, <1>2, <1>3, <1>4, Zenon
<1> QED
  BY <1>5, TokenFields, Zenon

\* The tokens of a text: as many as its pieces.
LEMMA TokensTyped ==
  ASSUME NEW s \in Seq(Byte)
  PROVE  /\ PieceCount(s) \in Nat \ {0}
         /\ TokensOf(s) \in Seq(PieceTokens)
         /\ Len(TokensOf(s)) = PieceCount(s)
         /\ DOMAIN TokensOf(s) = 1 .. PieceCount(s)
         /\ \A k \in 1 .. PieceCount(s) : TokensOf(s)[k] = TokenOf(Piece(s, k))
<1> DEFINE n == PieceCount(s)
           t(k) == TokenOf(Piece(s, k))
<1>1. n \in Nat \ {0}
  BY SplitPieces
<1>3. \A k \in 1 .. n : t(k) \in PieceTokens
  BY TokenTyped
<1>4. TokensOf(s) = [k \in 1 .. n |-> t(k)]
  BY TokensArePieces
<1> HIDE DEF n, t
<1>5. [k \in 1 .. n |-> t(k)] \in Seq(PieceTokens)
  BY <1>1, <1>3, IsASeq
<1>6. DOMAIN TokensOf(s) = 1 .. n /\ \A k \in 1 .. n : TokensOf(s)[k] = t(k)
  BY <1>4
<1>7. Len(TokensOf(s)) = n
  <2>1. Len(TokensOf(s)) \in Nat /\ DOMAIN TokensOf(s) = 1 .. Len(TokensOf(s))
    BY <1>4, <1>5, LenProperties
  <2> QED
    BY <1>1, <1>6, <2>1
<1> QED
  BY <1>1, <1>4, <1>5, <1>6, <1>7 DEF n, t

-----------------------------------------------------------------------------
(* Whitespace at the end of a text *)

\* What trimming keeps of a token.
LEMMA TrimFacts ==
  ASSUME NEW t \in PieceTokens
  PROVE  /\ Trim(t) \in PieceTokens /\ Trim(Trim(t)) = Trim(t)
         /\ Trim(t).word = t.word /\ Trim(t).upper = t.upper
         /\ Trim(t).byte = t.byte /\ ~ Trim(t).space
         /\ ~ t.space => Trim(t) = t
BY DEF Trim, PieceTokens

\* R is T with its last token trimmed.
Trims(R, T) ==
  /\ Len(R) = Len(T)
  /\ \A k \in 1 .. Len(T) : R[k] = IF k = Len(T) THEN Trim(T[k]) ELSE T[k]

\* TrimEnd trims the last token.
LEMMA TrimEndFacts ==
  ASSUME NEW T \in Seq(PieceTokens)
  PROVE  /\ TrimEnd(T) \in Seq(PieceTokens)
         /\ Len(T) = 1 /\ Trim(T[1]) = Nothing => TrimEnd(T) = <<>>
         /\ ~ (Len(T) = 1 /\ Trim(T[1]) = Nothing) => Trims(TrimEnd(T), T)
<1> DEFINE e(k) == IF k = Len(T) THEN Trim(T[k]) ELSE T[k]
           R == [k \in 1 .. Len(T) |-> e(k)]
<1>1. Len(T) \in Nat /\ DOMAIN T = 1 .. Len(T) /\ \A k \in 1 .. Len(T) : T[k] \in PieceTokens
  BY LenProperties, ElementOfSeq
<1>2. \A k \in 1 .. Len(T) : e(k) \in PieceTokens
  BY <1>1, TrimFacts
<1>3. R \in Seq(PieceTokens) /\ DOMAIN R = 1 .. Len(T)
  <2> HIDE DEF e
  <2> QED
    BY <1>1, <1>2, IsASeq
<1>4. Len(R) = Len(T)
  <2>1. Len(R) \in Nat /\ DOMAIN R = 1 .. Len(R)
    BY <1>3, LenProperties
  <2> HIDE DEF R
  <2> QED
    BY <1>1, <1>3, <2>1
<1>5. TrimEnd(T) = IF Len(T) = 1 /\ Trim(T[1]) = Nothing THEN <<>> ELSE R
  BY <1>1, Zenon DEF TrimEnd
<1>6. \A k \in 1 .. Len(T) : R[k] = e(k)
  OBVIOUS
<1>7. <<>> \in Seq(PieceTokens)
  OBVIOUS
<1> HIDE DEF R
<1>8. Trims(R, T)
  BY <1>4, <1>6 DEF Trims
<1> QED
  BY <1>3, <1>5, <1>7, <1>8

\* What trimming the last token makes alike.
LEMMA TrimEndAlike ==
  ASSUME NEW T \in Seq(PieceTokens), NEW U \in Seq(PieceTokens),
         NEW n \in Nat \ {0}, Len(T) = n, Len(U) = n,
         \A k \in 1 .. n : k # n => T[k] = U[k],
         Trim(T[n]) = Trim(U[n])
  PROVE  TrimEnd(T) = TrimEnd(U)
<1>1. CASE n = 1 /\ Trim(T[1]) = Nothing
  BY <1>1, TrimEndFacts
<1>2. CASE ~ (n = 1 /\ Trim(T[1]) = Nothing)
  <2>1. ~ (Len(U) = 1 /\ Trim(U[1]) = Nothing)
    BY <1>2
  <2>2. /\ TrimEnd(T) \in Seq(PieceTokens) /\ Len(TrimEnd(T)) = n
        /\ \A k \in 1 .. n : TrimEnd(T)[k] = IF k = n THEN Trim(T[k]) ELSE T[k]
    BY <1>2, TrimEndFacts DEF Trims
  <2>3. /\ TrimEnd(U) \in Seq(PieceTokens) /\ Len(TrimEnd(U)) = n
        /\ \A k \in 1 .. n : TrimEnd(U)[k] = IF k = n THEN Trim(U[k]) ELSE U[k]
    <3>1. TrimEnd(U) \in Seq(PieceTokens) /\ Trims(TrimEnd(U), U)
      BY <2>1, TrimEndFacts
    <3> QED
      BY <3>1 DEF Trims
  <2>4. \A k \in 1 .. n : TrimEnd(T)[k] = TrimEnd(U)[k]
    BY <2>2, <2>3
  <2> QED
    BY <2>2, <2>3, <2>4, SeqEqual
<1> QED
  BY <1>1, <1>2

\* The beginning of a part of a text.
LEMMA HeadOfPart ==
  ASSUME NEW u \in Seq(Byte), NEW a \in 1 .. Len(u) + 1, NEW b \in 0 .. Len(u),
         a <= b + 1, NEW m \in 0 .. b, a <= m + 1
  PROVE  /\ SubSeq(u, a, b) \in Seq(Byte) /\ Len(SubSeq(u, a, b)) = b - a + 1
         /\ m - a + 1 \in 0 .. Len(SubSeq(u, a, b))
         /\ SubSeq(u, a, m) = SubSeq(SubSeq(u, a, b), 1, m - a + 1)
         /\ \A j \in 1 .. b - a + 1 : SubSeq(u, a, b)[j] = u[a + j - 1]
<1> DEFINE s == SubSeq(u, a, b)
           t == SubSeq(s, 1, m - a + 1)
           w == SubSeq(u, a, m)
<1>1. Len(u) \in Nat /\ a \in Nat \ {0} /\ b \in Nat /\ m \in Nat /\ m \in 0 .. Len(u)
  BY LenProperties
<1>2. /\ s \in Seq(Byte) /\ Len(s) = IF a <= b THEN b - a + 1 ELSE 0
      /\ \A j \in 1 .. b - a + 1 : s[j] = u[a + j - 1]
  BY <1>1, PartTyped
<1>3. /\ w \in Seq(Byte) /\ Len(w) = IF a <= m THEN m - a + 1 ELSE 0
      /\ \A j \in 1 .. m - a + 1 : w[j] = u[a + j - 1]
  BY <1>1, PartTyped
<1>4. Len(s) = b - a + 1 /\ Len(w) = m - a + 1 /\ m - a + 1 \in 0 .. Len(s)
  BY <1>1, <1>2, <1>3
<1> HIDE DEF s, w
<1>5. /\ t \in Seq(Byte) /\ Len(t) = m - a + 1
      /\ \A j \in 1 .. m - a + 1 : t[j] = s[j]
  BY <1>2, <1>4, PrefixColons DEF Begins
<1> HIDE DEF t
<1>6. \A j \in 1 .. m - a + 1 : j \in 1 .. b - a + 1
  BY <1>1
<1>7. \A j \in 1 .. m - a + 1 : t[j] = w[j]
  BY <1>2, <1>3, <1>5, <1>6, Zenon
<1>8. t = w
  BY <1>3, <1>4, <1>5, <1>7, SeqEqual
<1> QED
  BY <1>2, <1>4, <1>8, Zenon DEF s, t, w

\* Whitespace at the end of a text is trimmed off its last token.
LEMMA TrimTokens ==
  ASSUME NEW u \in Seq(Byte), NEW m \in 0 .. Len(u), NEW v, v = SubSeq(u, 1, m),
         \A j \in m + 1 .. Len(u) : u[j] \in AsciiSpace
  PROVE  TrimEnd(TokensOf(u)) = TrimEnd(TokensOf(v))
<1> DEFINE n == PieceCount(v)
           a == From(u, n)
           s == Piece(u, n)
           t == Piece(v, n)
<1>1. Begins(v, u, m) /\ SamePieces(v, u, m)
  BY PrefixColons, PrefixPieces
<1>2. v \in Seq(Byte) /\ Len(u) \in Nat /\ m \in Nat
  BY <1>1, LenProperties DEF Begins
<1>3. ColonsOf(v) = ColonsOf(u)
  <2>1. \A j \in ColonsOf(u) : j \in 1 .. Len(u) /\ u[j] \notin AsciiSpace
    <3>1. Colon \notin AsciiSpace
      BY DEF Colon, AsciiSpace
    <3>2. DOMAIN u = 1 .. Len(u)
      BY LenProperties
    <3> QED
      BY <3>1, <3>2, Zenon DEF ColonsOf
  <2>2. \A j \in ColonsOf(u) : j \in 1 .. m
    BY <1>2, <2>1
  <2> QED
    BY <1>1, <2>2, Zenon DEF Begins
<1>4. PieceCount(u) = n /\ n \in Nat \ {0}
  BY <1>2, <1>3, TokensTyped DEF PieceCount
<1>5. /\ n = Count(u, m) + 1 /\ Count(u, m) \in Nat
      /\ \A k \in 1 .. Count(u, m) : Piece(v, k) = Piece(u, k)
      /\ a \in 1 .. m + 1
      /\ t = SubSeq(u, a, m)
  BY <1>1, Zenon DEF SamePieces
<1>6. s = SubSeq(u, a, Len(u))
  <2>1. n > Cardinality(ColonsOf(u))
    <3>1. Cardinality(ColonsOf(u)) \in Nat
      BY <1>1, <1>3, <1>5 DEF Begins
    <3> QED
      BY <1>4, <3>1 DEF PieceCount
  <2> QED
    BY <2>1 DEF Piece, To
<1> HIDE DEF n, a, s, t
<1>7. a \in 1 .. Len(u) + 1 /\ Len(u) \in 0 .. Len(u) /\ a <= Len(u) + 1 /\ a <= m + 1
  BY <1>2, <1>5
<1> DEFINE x == m - a + 1
<1>8. /\ s \in Seq(Byte) /\ Len(s) = Len(u) - a + 1
      /\ x \in 0 .. Len(s) /\ t = SubSeq(s, 1, x)
      /\ \A j \in 1 .. Len(u) - a + 1 : s[j] = u[a + j - 1]
  BY <1>5, <1>6, <1>7, HeadOfPart
<1>9. \A j \in x + 1 .. Len(s) : s[j] \in AsciiSpace
  <2> SUFFICES ASSUME NEW j \in x + 1 .. Len(s)
               PROVE  s[j] \in AsciiSpace
    OBVIOUS
  <2>1. j \in 1 .. Len(u) - a + 1 /\ a + j - 1 \in m + 1 .. Len(u)
    BY <1>2, <1>7, <1>8
  <2> QED
    BY <1>8, <2>1
<1> HIDE DEF x
<1>10. RqfMarks(t) = RqfMarks(s) /\ Body(t) = Body(s)
  BY <1>8, <1>9, SpaceAfter
<1>11. Trim(TokenOf(s)) = Trim(TokenOf(t))
  BY <1>10, TrimmedAlike
<1> DEFINE T == TokensOf(u)
           U == TokensOf(v)
<1>12. /\ T \in Seq(PieceTokens) /\ Len(T) = n /\ \A k \in 1 .. n : T[k] = TokenOf(Piece(u, k))
       /\ U \in Seq(PieceTokens) /\ Len(U) = n /\ \A k \in 1 .. n : U[k] = TokenOf(Piece(v, k))
  BY <1>2, <1>4, TokensTyped DEF n
<1> HIDE DEF T, U
<1>13. n \in 1 .. n /\ \A k \in 1 .. n : k # n => k \in 1 .. Count(u, m)
  BY <1>4, <1>5
<1>14. \A k \in 1 .. n : k # n => T[k] = U[k]
  BY <1>5, <1>12, <1>13, Zenon
<1>15. Trim(T[n]) = Trim(U[n])
  BY <1>11, <1>12, <1>13 DEF s, t
<1>16. TrimEnd(T) = TrimEnd(U)
  BY <1>4, <1>12, <1>14, <1>15, TrimEndAlike
<1> QED
  BY <1>16 DEF T, U

\* A text trimmed on the right is its beginning up to the last byte that is not
\* whitespace.
LEMMA TrimRightPrefix ==
  ASSUME NEW s \in Seq(Byte)
  PROVE  \E m \in 0 .. Len(s) :
           /\ TrimRight(s) = SubSeq(s, 1, m)
           /\ \A j \in m + 1 .. Len(s) : s[j] \in AsciiSpace
           /\ m # 0 => s[m] \notin AsciiSpace
<1>1. Len(s) \in Nat /\ DOMAIN s = 1 .. Len(s) /\ Solid(s) \subseteq 1 .. Len(s)
  BY LenProperties, MarkPlaces
<1>2. \A j \in 1 .. Len(s) : j \in Solid(s) <=> s[j] \notin AsciiSpace
  BY <1>1, Zenon DEF Solid
<1>3. CASE Solid(s) = {}
  <2>1. TrimRight(s) = SubSeq(s, 1, 0)
    BY <1>3, SubSeqEmpty DEF TrimRight
  <2>2. \A j \in 0 + 1 .. Len(s) : s[j] \in AsciiSpace
    BY <1>2, <1>3
  <2>3. 0 \in 0 .. Len(s)
    BY <1>1
  <2> QED
    BY <2>1, <2>2, <2>3
<1>4. CASE Solid(s) # {}
  <2> DEFINE m == Max(Solid(s))
  <2>1. m \in Solid(s) /\ \A j \in Solid(s) : m >= j
    BY <1>4, MarkPlaces
  <2>2. TrimRight(s) = SubSeq(s, 1, m)
    BY <1>4 DEF TrimRight
  <2> HIDE DEF m
  <2>3. m \in 1 .. Len(s) /\ m \in 0 .. Len(s) /\ s[m] \notin AsciiSpace
    BY <1>1, <1>2, <2>1
  <2>4. \A j \in m + 1 .. Len(s) : j \in 1 .. Len(s) /\ j \notin Solid(s)
    BY <1>1, <2>1, <2>3
  <2>5. \A j \in m + 1 .. Len(s) : s[j] \in AsciiSpace
    BY <1>2, <2>4
  <2> QED
    BY <2>2, <2>3, <2>5
<1> QED
  BY <1>3, <1>4

\* The tokens of a text do not change when the text is trimmed.
LEMMA TrimRightTokens ==
  ASSUME NEW u \in Seq(Byte)
  PROVE  TrimEnd(TokensOf(TrimRight(u))) = TrimEnd(TokensOf(u))
<1>1. PICK m \in 0 .. Len(u) :
        /\ TrimRight(u) = SubSeq(u, 1, m)
        /\ \A j \in m + 1 .. Len(u) : u[j] \in AsciiSpace
  BY TrimRightPrefix
<1> QED
  BY <1>1, TrimTokens

-----------------------------------------------------------------------------
(* What the marks cut off *)

Marks == {63, 35}

\* A text whose first mark comes after x bytes.
LEMMA FirstMark ==
  ASSUME NEW s \in Seq(Byte), NEW x \in 0 .. Len(s), x + 1 <= Len(s), s[x + 1] \in Marks,
         \A j \in 1 .. x : s[j] \notin Marks
  PROVE  /\ RqfMarks(s) # {} /\ StripRqfBytes(s) = SubSeq(s, 1, x)
         /\ RqfMarks(SubSeq(s, 1, x)) = {} /\ SubSeq(s, 1, x) \in Seq(Byte)
<1>1. Len(s) \in Nat /\ DOMAIN s = 1 .. Len(s) /\ x \in Nat
  BY LenProperties
<1>2. \A j : j \in RqfMarks(s) <=> j \in 1 .. Len(s) /\ s[j] \in Marks
  BY <1>1, Zenon DEF RqfMarks, Marks
<1>3. x + 1 \in RqfMarks(s)
  BY <1>1, <1>2
<1> DEFINE m == Min(RqfMarks(s))
<1>4. m \in RqfMarks(s) /\ m <= x + 1
  BY <1>3, MarkPlaces
<1> HIDE DEF m
<1>5. m \in 1 .. Len(s) /\ m \notin 1 .. x
  BY <1>2, <1>4
<1>6. m - 1 = x
  BY <1>1, <1>4, <1>5
<1>7. StripRqfBytes(s) = SubSeq(s, 1, x)
  BY <1>3, <1>6 DEF StripRqfBytes, m
<1> DEFINE t == SubSeq(s, 1, x)
<1>8. t \in Seq(Byte) /\ DOMAIN t = 1 .. x /\ \A j \in 1 .. x : t[j] = s[j]
  <2>1. Begins(t, s, x)
    BY PrefixColons
  <2> HIDE DEF t
  <2> QED
    BY <2>1, LenProperties DEF Begins
<1> HIDE DEF t
<1>9. RqfMarks(t) = {}
  BY <1>8 DEF RqfMarks, Marks
<1> QED
  BY <1>3, <1>7, <1>8, <1>9 DEF t

\* The first mark of a text that has one.
LEMMA FirstMarkExists ==
  ASSUME NEW s \in Seq(Byte), RqfMarks(s) # {}
  PROVE  \E x \in 0 .. Len(s) :
           /\ x + 1 <= Len(s) /\ s[x + 1] \in Marks
           /\ \A j \in 1 .. x : s[j] \notin Marks
<1>1. Len(s) \in Nat /\ DOMAIN s = 1 .. Len(s)
  BY LenProperties
<1>2. \A j : j \in RqfMarks(s) <=> j \in 1 .. Len(s) /\ s[j] \in Marks
  BY <1>1, Zenon DEF RqfMarks, Marks
<1> DEFINE m == Min(RqfMarks(s))
<1>3. m \in RqfMarks(s) /\ \A j \in RqfMarks(s) : m <= j
  BY MarkPlaces
<1> HIDE DEF m
<1> DEFINE x == m - 1
<1>4. m \in 1 .. Len(s) /\ x \in 0 .. Len(s) /\ x + 1 = m
  BY <1>1, <1>2, <1>3
<1>5. \A j \in 1 .. x : j \in 1 .. Len(s) /\ ~ (m <= j)
  BY <1>1, <1>4
<1>6. \A j \in 1 .. x : s[j] \notin Marks
  BY <1>2, <1>3, <1>5, Zenon
<1>7. x + 1 <= Len(s) /\ s[x + 1] \in Marks
  BY <1>2, <1>3, <1>4
<1> HIDE DEF x
<1> QED
  BY <1>4, <1>6, <1>7

\* The pieces of a text without marks have none.
LEMMA UnmarkedPieces ==
  ASSUME NEW s \in Seq(Byte), RqfMarks(s) = {}, NEW k \in 1 .. PieceCount(s)
  PROVE  RqfMarks(Piece(s, k)) = {}
<1> DEFINE a == From(s, k)
           b == To(s, k)
           p == Piece(s, k)
<1>1. a \in 1 .. Len(s) + 1 /\ b \in 0 .. Len(s) /\ a <= b + 1 /\ p = SubSeq(s, a, b)
  BY PiecePlaces DEF Piece
<1> HIDE DEF a, b, p
<1>2. Len(s) \in Nat /\ DOMAIN s = 1 .. Len(s) /\ a \in Nat \ {0} /\ b \in Nat
  BY <1>1, LenProperties
<1>3. p \in Seq(Byte) /\ Len(p) = (IF a <= b THEN b - a + 1 ELSE 0)
      /\ \A j \in 1 .. b - a + 1 : p[j] = s[a + j - 1]
  BY <1>1, <1>2, PartTyped
<1>4. DOMAIN p = 1 .. b - a + 1
  BY <1>1, <1>2, <1>3, LenProperties
<1>5. \A j \in 1 .. b - a + 1 : a + j - 1 \in 1 .. Len(s)
  BY <1>1, <1>2
<1>6. \A j \in DOMAIN s : s[j] \notin {63, 35}
  BY DEF RqfMarks
<1>7. \A j \in DOMAIN p : p[j] \notin {63, 35}
  <2> SUFFICES ASSUME NEW j \in DOMAIN p
               PROVE  p[j] \notin {63, 35}
    OBVIOUS
  <2>1. j \in 1 .. b - a + 1
    BY <1>4
  <2>2. p[j] = s[a + j - 1]
    BY <1>3, <2>1
  <2>3. a + j - 1 \in DOMAIN s
    BY <1>2, <1>5, <2>1
  <2> QED
    BY <1>6, <2>2, <2>3
<1> QED
  BY <1>7, Zenon DEF RqfMarks, p

\* A piece ends before a colon, or at the end of the text.
LEMMA AfterPiece ==
  ASSUME NEW s \in Seq(Byte), NEW k \in 1 .. PieceCount(s), To(s, k) # Len(s)
  PROVE  s[To(s, k) + 1] = Colon
<1> DEFINE c == Cardinality(ColonsOf(s))
<1>1. Len(s) \in Nat /\ Count(s, Len(s)) = c /\ Len(s) \in 0 .. Len(s) /\ c \in Nat
  BY CountFacts
<1>2. k \in 1 .. c
  BY <1>1 DEF PieceCount, To
<1>3. At(s, k) \in 1 .. Len(s) /\ s[At(s, k)] = Colon
  BY <1>1, <1>2, KthColon
<1>4. To(s, k) = At(s, k) - 1
  <2>1. ~ (k > c)
    BY <1>1, <1>2
  <2> QED
    BY <2>1 DEF To
<1>5. To(s, k) + 1 = At(s, k)
  BY <1>3, <1>4
<1> QED
  BY <1>3, <1>5

\* A byte that may not stand in an NSS makes a text unacceptable.
LEMMA BadByte ==
  ASSUME NEW T \in Seq(PieceTokens), NEW k \in 1 .. Len(T), T[k].byte # "none"
  PROVE  ~ NssOk(TrimEnd(T))
<1>1. Len(T) \in Nat /\ T[k] \in PieceTokens
  BY LenProperties, ElementOfSeq
<1>2. ~ (Len(T) = 1 /\ Trim(T[1]) = Nothing)
  <2>1. Nothing.byte = "none"
    BY DEF Nothing, Plain
  <2>2. Trim(T[k]).byte = T[k].byte
    BY <1>1, TrimFacts
  <2>3. Len(T) = 1 => k = 1
    BY <1>1
  <2> QED
    BY <2>1, <2>2, <2>3
<1> DEFINE R == TrimEnd(T)
<1>3. R \in Seq(PieceTokens) /\ Trims(R, T)
  BY <1>2, TrimEndFacts
<1> HIDE DEF R
<1>4. R[k].byte = T[k].byte
  <2>1. R[k] = IF k = Len(T) THEN Trim(T[k]) ELSE T[k]
    BY <1>3 DEF Trims
  <2> QED
    BY <1>1, <2>1, TrimFacts
<1>5. k \in DOMAIN R
  BY <1>3, LenProperties DEF Trims
<1> QED
  BY <1>4, <1>5 DEF NssOk, NssBytes, R

\* A text whose tokens hold no mark is not cut.
LEMMA StripNothing ==
  ASSUME NEW T \in Seq(PieceTokens), \A k \in 1 .. Len(T) : T[k].byte # "rqf"
  PROVE  StripRqf(T) = T
<1>1. {k \in DOMAIN T : T[k].byte = "rqf"} = {}
  BY LenProperties
<1> QED
  BY <1>1, Zenon DEF StripRqf

\* Q holds the tokens up to number c, the last one without its mark.
CutAt(Q, T, c) ==
  /\ Q \in Seq(PieceTokens) /\ Len(Q) = c
  /\ \A k \in 1 .. c - 1 : Q[k] = T[k]
  /\ Q[c] = [T[c] EXCEPT !.byte = "none"]

\* The tokens up to the first one with a mark are kept.
LEMMA StripAt ==
  ASSUME NEW T \in Seq(PieceTokens), NEW c \in 1 .. Len(T), T[c].byte = "rqf",
         \A k \in 1 .. c - 1 : T[k].byte # "rqf",
         NEW Q, Q = StripRqf(T)
  PROVE  CutAt(Q, T, c)
<1> DEFINE cuts == {k \in DOMAIN T : T[k].byte = "rqf"}
           cut == CHOOSE j \in cuts : \A k \in cuts : j <= k
<1>1. Len(T) \in Nat /\ DOMAIN T = 1 .. Len(T) /\ T[c] \in PieceTokens /\ c \in Nat
  BY LenProperties, ElementOfSeq
<1>2. c \in cuts /\ \A k \in cuts : k \in Nat /\ c <= k
  <2>1. \A k \in cuts : k \in 1 .. Len(T) /\ k \notin 1 .. c - 1
    BY <1>1
  <2> QED
    BY <1>1, <2>1
<1>3. cuts # {} /\ cuts \subseteq Nat
  BY <1>2
<1>4. cut = c
  <2> HIDE DEF cuts
  <2>1. cut \in cuts /\ \A k \in cuts : cut <= k
    BY <1>2
  <2> HIDE DEF cut
  <2>2. c <= cut /\ cut <= c /\ cut \in Nat
    BY <1>2, <2>1
  <2> QED
    BY <1>1, <2>2
<1>5. StripRqf(T) = [SubSeq(T, 1, cut) EXCEPT ![cut].byte = "none"]
  BY <1>3, Zenon DEF StripRqf
<1> HIDE DEF cut, cuts
<1> DEFINE U == SubSeq(T, 1, c)
           e == [T[c] EXCEPT !.byte = "none"]
<1>6. U \in Seq(PieceTokens) /\ Len(U) = c /\ \A k \in 1 .. c : U[k] = T[k]
  <2>1. \A k \in 1 .. c : T[k] \in PieceTokens
    BY <1>1, ElementOfSeq
  <2>2. /\ U \in Seq(PieceTokens) /\ Len(U) = IF 1 <= c THEN c - 1 + 1 ELSE 0
        /\ \A k \in 1 .. c - 1 + 1 : U[k] = T[1 + k - 1]
    BY <1>1, <2>1, SubSeqProperties
  <2> HIDE DEF U
  <2> QED
    BY <1>1, <2>2
<1>7. e \in PieceTokens
  BY <1>1 DEF PieceTokens
<1>8. Q = [U EXCEPT ![c] = [U[c] EXCEPT !.byte = "none"]]
  BY <1>4, <1>5
<1> HIDE DEF U, e
<1>9. c \in 1 .. Len(U) /\ U[c] = T[c]
  BY <1>1, <1>6
<1>10. Q = [U EXCEPT ![c] = e]
  BY <1>8, <1>9 DEF e
<1>11. /\ Q \in Seq(PieceTokens) /\ Len(Q) = c
       /\ \A k \in 1 .. c : Q[k] = IF k = c THEN e ELSE U[k]
  BY <1>6, <1>7, <1>9, <1>10, ExceptSeq
<1>12. c \in 1 .. c /\ \A k \in 1 .. c - 1 : k \in 1 .. c /\ k # c
  BY <1>1
<1> QED
  BY <1>6, <1>11, <1>12 DEF e, CutAt

\* A byte that is no mark stays, wherever the first mark after it is.
LEMMA StripAfter ==
  ASSUME NEW T \in Seq(PieceTokens), NEW c \in 1 .. Len(T), T[c].byte = "other",
         \A k \in 1 .. c - 1 : T[k].byte # "rqf",
         NEW Q, Q = StripRqf(T)
  PROVE  Q \in Seq(PieceTokens) /\ c \in 1 .. Len(Q) /\ Q[c].byte = "other"
<1>1. Len(T) \in Nat /\ DOMAIN T = 1 .. Len(T) /\ c \in Nat
  BY LenProperties
<1> DEFINE cuts == {k \in 1 .. Len(T) : T[k].byte = "rqf"}
<1>2. CASE cuts = {}
  <2>1. StripRqf(T) = T
    BY <1>2, StripNothing
  <2> QED
    BY <2>1
<1>3. CASE cuts # {}
  <2> DEFINE d == Min(cuts)
  <2>1. d \in cuts /\ \A k \in cuts : d <= k
    <3>1. cuts \subseteq Nat
      BY <1>1
    <3> HIDE DEF cuts
    <3> QED
      BY <1>3, <3>1, LeastExists
  <2> HIDE DEF d
  <2>2. d \in 1 .. Len(T) /\ T[d].byte = "rqf" /\ d \in Nat
    BY <1>1, <2>1
  <2>3. \A k \in 1 .. d - 1 : T[k].byte # "rqf"
    <3> SUFFICES ASSUME NEW k \in 1 .. d - 1, T[k].byte = "rqf"
                 PROVE  FALSE
      OBVIOUS
    <3>1. k \in cuts
      BY <1>1, <2>2
    <3> QED
      BY <2>1, <2>2, <3>1
  <2>4. d # c /\ d \notin 1 .. c - 1
    BY <2>2
  <2>5. c \in 1 .. d - 1
    BY <1>1, <2>2, <2>4
  <2>6. CutAt(Q, T, d)
    BY <2>2, <2>3, StripAt
  <2>7. Q[c] = T[c] /\ c \in 1 .. Len(Q)
    BY <1>1, <2>2, <2>5, <2>6 DEF CutAt
  <2> QED
    BY <2>6, <2>7 DEF CutAt
<1> QED
  BY <1>2, <1>3

\* Trimming the last token twice is trimming it once, and keeps the bytes.
LEMMA TrimEndTwice ==
  ASSUME NEW T \in Seq(PieceTokens), NEW W, W = TrimEnd(T)
  PROVE  /\ W \in Seq(PieceTokens) /\ TrimEnd(W) = W
         /\ \A k \in 1 .. Len(W) : k \in 1 .. Len(T) /\ W[k].byte = T[k].byte
<1>1. W \in Seq(PieceTokens) /\ Len(T) \in Nat
  BY TrimEndFacts, LenProperties
<1>2. CASE Len(T) = 1 /\ Trim(T[1]) = Nothing
  <2>1. W = <<>>
    BY <1>2, TrimEndFacts
  <2>2. TrimEnd(<<>>) = <<>>
    BY DEF TrimEnd
  <2> QED
    BY <1>1, <2>1, <2>2
<1>3. CASE ~ (Len(T) = 1 /\ Trim(T[1]) = Nothing)
  <2>1. Trims(W, T)
    BY <1>3, TrimEndFacts
  <2>2. Len(W) = Len(T) /\ \A k \in 1 .. Len(T) : T[k] \in PieceTokens
    BY <2>1, ElementOfSeq DEF Trims
  <2>3. \A k \in 1 .. Len(T) : W[k].byte = T[k].byte
    BY <2>1, <2>2, TrimFacts DEF Trims
  <2>4. CASE Len(T) = 0
    <3>1. T = <<>> /\ W = <<>>
      BY <1>1, <2>2, <2>4, EmptySeq
    <3>2. TrimEnd(<<>>) = <<>>
      BY DEF TrimEnd
    <3> QED
      BY <1>1, <3>1, <3>2
  <2>5. CASE Len(T) # 0
    <3> DEFINE n == Len(T)
    <3>1. n \in 1 .. n /\ n \in Nat \ {0}
      BY <1>1, <2>5
    <3>2. \A k \in 1 .. n : k # n => W[k] = T[k]
      BY <2>1 DEF Trims
    <3>3. Trim(W[n]) = Trim(T[n])
      <4>1. W[n] = Trim(T[n]) /\ T[n] \in PieceTokens
        BY <2>1, <2>2, <3>1 DEF Trims
      <4> QED
        BY <4>1, TrimFacts
    <3> HIDE DEF n
    <3>4. TrimEnd(W) = TrimEnd(T)
      BY <1>1, <2>2, <3>1, <3>2, <3>3, TrimEndAlike DEF n
    <3> QED
      BY <1>1, <2>2, <2>3, <3>4
  <2> QED
    BY <2>4, <2>5
<1> QED
  BY <1>2, <1>3

\* U holds the tokens of T up to the first one with a mark, and that one as it
\* is when its mark is taken from it.
Kept(U, T, c) ==
  /\ U \in Seq(PieceTokens) /\ T \in Seq(PieceTokens)
  /\ c \in 1 .. Len(T) /\ Len(U) = c
  /\ \A k \in 1 .. c - 1 : U[k] = T[k] /\ T[k].byte # "rqf"
  /\ \/ T[c].byte = "rqf" /\ U[c] = [T[c] EXCEPT !.byte = "none"]
     \/ T[c].byte = "other" /\ U[c].byte = "other"

\* Two sequences of tokens that are equal, or neither of which is accepted.
OkAlike(S, D) == S = D \/ (~ NssOk(S) /\ ~ NssOk(D))

\* Cutting off what follows the first mark, in the tokens and in the text, gives
\* texts that are accepted alike.
LEMMA KeptAlike ==
  ASSUME NEW T, NEW U, NEW c, Kept(U, T, c)
  PROVE  OkAlike(TrimEnd(StripRqf(TrimEnd(T))), TrimEnd(U))
<1> DEFINE W == TrimEnd(T)
           Q == StripRqf(W)
<1>1. /\ U \in Seq(PieceTokens) /\ T \in Seq(PieceTokens)
      /\ c \in 1 .. Len(T) /\ Len(U) = c
      /\ \A k \in 1 .. c - 1 : U[k] = T[k] /\ T[k].byte # "rqf"
      /\ T[c].byte \in {"rqf", "other"}
      /\ T[c].byte = "rqf" => U[c] = [T[c] EXCEPT !.byte = "none"]
      /\ T[c].byte = "other" => U[c].byte = "other"
  BY DEF Kept
<1>2. Len(T) \in Nat /\ c \in Nat \ {0} /\ c \in 1 .. Len(U)
  BY <1>1, LenProperties
<1>3. T[c] \in PieceTokens /\ U[c] \in PieceTokens
  BY <1>1, <1>2, ElementOfSeq
<1>4. W \in Seq(PieceTokens) /\ Trims(W, T)
  <2>1. ~ (Len(T) = 1 /\ Trim(T[1]) = Nothing)
    <3>1. Nothing.byte = "none"
      BY DEF Nothing, Plain
    <3>2. Trim(T[c]).byte = T[c].byte
      BY <1>3, TrimFacts
    <3>3. Len(T) = 1 => c = 1
      BY <1>1
    <3> QED
      BY <1>1, <3>1, <3>2, <3>3
  <2> QED
    BY <1>1, <2>1, TrimEndFacts
<1> HIDE DEF W
<1>5. /\ c \in 1 .. Len(W)
      /\ W[c] = T[c] \/ W[c] = Trim(T[c])
      /\ \A k \in 1 .. c - 1 : W[k] = T[k]
  <2>1. \A k \in 1 .. c - 1 : k \in 1 .. Len(T) /\ k # Len(T)
    BY <1>1, <1>2
  <2> QED
    BY <1>1, <1>4, <2>1 DEF Trims
<1>6. W[c].byte = T[c].byte
  BY <1>3, <1>5, TrimFacts
<1>7. \A k \in 1 .. c - 1 : W[k].byte # "rqf"
  BY <1>1, <1>5
<1>8. CASE T[c].byte = "rqf"
  <2>1. CutAt(Q, W, c)
    BY <1>4, <1>5, <1>6, <1>7, <1>8, StripAt
  <2>2. /\ Q \in Seq(PieceTokens) /\ Len(Q) = c
        /\ \A k \in 1 .. c - 1 : Q[k] = W[k]
        /\ Q[c] = [W[c] EXCEPT !.byte = "none"]
    BY <2>1, Zenon DEF CutAt
  <2> HIDE DEF Q
  <2>3. Trim(Q[c]) = Trim(U[c])
    <3>1. \A t \in PieceTokens :
            Trim([Trim(t) EXCEPT !.byte = "none"]) = Trim([t EXCEPT !.byte = "none"])
      BY DEF Trim, PieceTokens
    <3> DEFINE E(t) == [t EXCEPT !.byte = "none"]
    <3>2. Trim(E(Trim(T[c]))) = Trim(E(T[c]))
      BY <1>3, <3>1
    <3>3. Q[c] = E(W[c]) /\ U[c] = E(T[c])
      BY <1>1, <1>8, <2>2
    <3> HIDE DEF E
    <3> QED
      BY <1>5, <3>2, <3>3, Zenon
  <2>4. \A k \in 1 .. c : k # c => k \in 1 .. c - 1
    BY <1>2
  <2>5. \A k \in 1 .. c : k # c => Q[k] = U[k]
    BY <1>1, <1>5, <2>2, <2>4, Zenon
  <2>6. TrimEnd(Q) = TrimEnd(U)
    BY <1>1, <1>2, <2>2, <2>3, <2>5, TrimEndAlike
  <2> QED
    BY <2>6 DEF OkAlike, Q, W
<1>9. CASE T[c].byte = "other"
  <2>1. Q \in Seq(PieceTokens) /\ c \in 1 .. Len(Q) /\ Q[c].byte = "other"
    BY <1>4, <1>5, <1>6, <1>7, <1>9, StripAfter
  <2>2. ~ NssOk(TrimEnd(Q))
    BY <2>1, BadByte
  <2>3. ~ NssOk(TrimEnd(U))
    BY <1>1, <1>2, <1>9, BadByte
  <2> QED
    BY <2>2, <2>3 DEF OkAlike, W
<1> QED
  BY <1>1, <1>8, <1>9

\* A piece with a mark, and what is left of it when the mark and what follows
\* are cut off.
LEMMA MarkedToken ==
  ASSUME NEW s \in Seq(Byte), NEW y \in 0 .. Len(s), y + 1 <= Len(s), s[y + 1] \in Marks,
         \A j \in 1 .. y : s[j] \notin Marks, NEW t, t = SubSeq(s, 1, y)
  PROVE  \/ TokenOf(s).byte = "rqf" /\ TokenOf(t) = [TokenOf(s) EXCEPT !.byte = "none"]
         \/ TokenOf(s).byte = "other" /\ TokenOf(t).byte = "other"
<1>1. RqfMarks(s) # {} /\ StripRqfBytes(s) = t /\ RqfMarks(t) = {}
  BY FirstMark
<1>2. StripRqfBytes(t) = t
  BY <1>1 DEF StripRqfBytes
<1>3. Body(s) = Body(t)
  BY <1>1, <1>2, Zenon DEF Body
<1> DEFINE b == Body(t)
           w == WordOf(b)
           h == HasUpper(b)
           p == b # t
<1>4. TokenOf(s) = Tok(w, h, p, ByteOf(s)) /\ TokenOf(t) = Tok(w, h, p, ByteOf(t))
  BY <1>1, <1>2, <1>3, TokenFields, Zenon
<1>5. \A x, z : Tok(w, h, p, x).byte = x
                /\ [Tok(w, h, p, x) EXCEPT !.byte = z] = Tok(w, h, p, z)
  <2> HIDE DEF w, h, p
  <2> QED
    BY DEF Tok
<1>6. CASE b \in Seq(NssByte)
  <2>1. ByteOf(s) = "rqf" /\ ByteOf(t) = "none"
    BY <1>1, <1>3, <1>6 DEF ByteOf
  <2> HIDE DEF b, w, h, p
  <2>2. TokenOf(s) = Tok(w, h, p, "rqf") /\ TokenOf(t) = Tok(w, h, p, "none")
    BY <1>4, <2>1, Zenon
  <2>3. /\ Tok(w, h, p, "rqf").byte = "rqf"
        /\ [Tok(w, h, p, "rqf") EXCEPT !.byte = "none"] = Tok(w, h, p, "none")
    BY <1>5
  <2> QED
    BY <2>2, <2>3, Zenon
<1>7. CASE b \notin Seq(NssByte)
  <2>1. ByteOf(s) = "other" /\ ByteOf(t) = "other"
    BY <1>3, <1>7 DEF ByteOf
  <2> HIDE DEF b, w, h, p
  <2>2. TokenOf(s) = Tok(w, h, p, "other") /\ TokenOf(t) = Tok(w, h, p, "other")
    BY <1>4, <2>1, Zenon
  <2>3. Tok(w, h, p, "other").byte = "other"
    BY <1>5
  <2> QED
    BY <2>2, <2>3, Zenon
<1> QED
  BY <1>6, <1>7

\* The token of a piece without marks has no mark.
LEMMA UnmarkedToken ==
  ASSUME NEW s, RqfMarks(s) = {}
  PROVE  TokenOf(s).byte = (IF Body(s) \notin Seq(NssByte) THEN "other" ELSE "none")
BY TokenFields DEF Tok, ByteOf

\* The first pieces of a text with a mark, and those of the text cut off there.
LEMMA KeptPieces ==
  ASSUME NEW r \in Seq(Byte), RqfMarks(r) # {},
         NEW v, v = StripRqfBytes(r)
  PROVE  Kept(TokensOf(v), TokensOf(r), PieceCount(v))
<1>1. PICK x \in 0 .. Len(r) :
        /\ x + 1 <= Len(r) /\ r[x + 1] \in Marks
        /\ \A j \in 1 .. x : r[j] \notin Marks
  BY FirstMarkExists
<1>2. v = SubSeq(r, 1, x) /\ RqfMarks(v) = {} /\ v \in Seq(Byte)
  BY <1>1, FirstMark
<1> DEFINE c == PieceCount(v)
           a == From(r, c)
           b == To(r, c)
           s == Piece(r, c)
           t == Piece(v, c)
           y == x - a + 1
           T == TokensOf(r)
           U == TokensOf(v)
<1>3. SamePieces(v, r, x)
  BY <1>2, PrefixPieces
<1>4. /\ c = Count(r, x) + 1 /\ Count(r, x) \in Nat
      /\ c <= PieceCount(r)
      /\ \A k \in 1 .. Count(r, x) : Piece(v, k) = Piece(r, k)
      /\ a \in 1 .. x + 1
      /\ x <= b /\ b \in 0 .. Len(r)
      /\ t = SubSeq(r, a, x)
  BY <1>3, Zenon DEF SamePieces
<1>5. /\ T \in Seq(PieceTokens) /\ Len(T) = PieceCount(r) /\ PieceCount(r) \in Nat
      /\ \A k \in 1 .. PieceCount(r) : T[k] = TokenOf(Piece(r, k))
      /\ U \in Seq(PieceTokens) /\ Len(U) = c
      /\ \A k \in 1 .. c : U[k] = TokenOf(Piece(v, k))
  BY <1>2, TokensTyped
<1>6. c \in Nat \ {0} /\ c \in 1 .. PieceCount(r) /\ c \in 1 .. c /\ Len(r) \in Nat /\ x \in Nat
  BY <1>1, <1>4, <1>5, LenProperties
<1>7. s = SubSeq(r, a, b)
  BY DEF Piece
<1>8. x + 1 <= b
  <2>1. b # x
    <3> SUFFICES ASSUME b = x
                 PROVE  FALSE
      OBVIOUS
    <3>1. To(r, c) # Len(r)
      BY <1>1, <1>6
    <3>2. r[To(r, c) + 1] = Colon
      BY <1>6, <3>1, AfterPiece
    <3>3. Colon \notin Marks
      BY DEF Colon, Marks
    <3> QED
      BY <1>1, <3>2, <3>3
  <2> HIDE DEF b
  <2> QED
    BY <1>4, <1>6, <2>1
<1> HIDE DEF a, b, s, t, T, U, c
<1>9. a \in 1 .. Len(r) + 1 /\ a <= b + 1 /\ x \in 0 .. b /\ a <= x + 1
  BY <1>4, <1>6, <1>8
<1>10. /\ s \in Seq(Byte) /\ Len(s) = b - a + 1
       /\ y \in 0 .. Len(s) /\ t = SubSeq(s, 1, y)
       /\ \A j \in 1 .. b - a + 1 : s[j] = r[a + j - 1]
  BY <1>4, <1>7, <1>9, HeadOfPart
<1>11. y + 1 <= Len(s) /\ s[y + 1] \in Marks
  <2>1. y + 1 \in 1 .. b - a + 1 /\ a + (y + 1) - 1 = x + 1
    BY <1>4, <1>8, <1>6
  <2> HIDE DEF y
  <2> QED
    BY <1>1, <1>10, <2>1
<1>12. \A j \in 1 .. y : s[j] \notin Marks
  <2> SUFFICES ASSUME NEW j \in 1 .. y
               PROVE  s[j] \notin Marks
    OBVIOUS
  <2>1. j \in 1 .. b - a + 1 /\ a + j - 1 \in 1 .. x
    BY <1>4, <1>8, <1>6
  <2> HIDE DEF y
  <2> QED
    BY <1>1, <1>10, <2>1
<1> HIDE DEF y
<1>13. \/ TokenOf(s).byte = "rqf" /\ TokenOf(t) = [TokenOf(s) EXCEPT !.byte = "none"]
       \/ TokenOf(s).byte = "other" /\ TokenOf(t).byte = "other"
  BY <1>10, <1>11, <1>12, MarkedToken
<1>14. T[c] = TokenOf(s) /\ U[c] = TokenOf(t)
  BY <1>5, <1>6 DEF s, t, c
<1>15. \A k \in 1 .. c - 1 : U[k] = T[k] /\ T[k].byte # "rqf"
  <2> SUFFICES ASSUME NEW k \in 1 .. c - 1
               PROVE  U[k] = T[k] /\ T[k].byte # "rqf"
    OBVIOUS
  <2>1. k \in 1 .. Count(r, x) /\ k \in 1 .. PieceCount(r) /\ k \in 1 .. c
    BY <1>4, <1>6, <1>5
  <2>2. Piece(v, k) = Piece(r, k)
    BY <1>4, <2>1
  <2>3. T[k] = TokenOf(Piece(v, k)) /\ U[k] = TokenOf(Piece(v, k))
    BY <1>5, <2>1, <2>2
  <2>4. k \in 1 .. PieceCount(v)
    BY <2>1 DEF c
  <2>5. RqfMarks(Piece(v, k)) = {}
    BY <1>2, <2>4, UnmarkedPieces
  <2>6. TokenOf(Piece(v, k)).byte # "rqf"
    BY <2>5, UnmarkedToken
  <2> QED
    BY <2>3, <2>6
<1>16. Kept(U, T, c)
  BY <1>5, <1>6, <1>13, <1>14, <1>15 DEF Kept
<1> QED
  BY <1>16 DEF U, T, c

\* Cutting off the r/q/f components, token by token as the token model does or
\* byte by byte as parse_urn does, leaves texts that are accepted alike.
LEMMA StripTokens ==
  ASSUME NEW r \in Seq(Byte)
  PROVE  OkAlike(TrimEnd(StripRqf(TrimEnd(TokensOf(r)))), TrimEnd(TokensOf(StripRqfBytes(r))))
<1> DEFINE v == StripRqfBytes(r)
           T == TokensOf(r)
           W == TrimEnd(T)
<1>1. CASE RqfMarks(r) = {}
  <2>1. v = r
    BY <1>1 DEF StripRqfBytes
  <2>2. /\ T \in Seq(PieceTokens) /\ Len(T) = PieceCount(r)
        /\ \A k \in 1 .. PieceCount(r) : T[k] = TokenOf(Piece(r, k))
    BY TokensTyped
  <2>3. \A k \in 1 .. Len(T) : T[k].byte # "rqf"
    <3> SUFFICES ASSUME NEW k \in 1 .. PieceCount(r)
                 PROVE  T[k].byte # "rqf"
      BY <2>2
    <3>1. RqfMarks(Piece(r, k)) = {}
      BY <1>1, UnmarkedPieces
    <3> QED
      BY <2>2, <3>1, UnmarkedToken
  <2> HIDE DEF T
  <2>4. /\ W \in Seq(PieceTokens) /\ TrimEnd(W) = W
        /\ \A k \in 1 .. Len(W) : k \in 1 .. Len(T) /\ W[k].byte = T[k].byte
    BY <2>2, TrimEndTwice
  <2> HIDE DEF W
  <2>5. StripRqf(W) = W
    BY <2>3, <2>4, StripNothing
  <2> QED
    BY <2>1, <2>4, <2>5 DEF OkAlike, W, T
<1>2. CASE RqfMarks(r) # {}
  <2>1. Kept(TokensOf(v), T, PieceCount(v))
    BY <1>2, KeptPieces
  <2> QED
    BY <2>1, KeptAlike
<1> QED
  BY <1>1, <1>2

-----------------------------------------------------------------------------
(* What is passed to parse_nss_map, and the tokens of the argument *)

\* v is u without whitespace at its end.
TrimmedTo(v, u) ==
  \E m \in 0 .. Len(u) :
    /\ v = SubSeq(u, 1, m)
    /\ \A j \in m + 1 .. Len(u) : u[j] \in AsciiSpace

\* The trimmed text without its first bytes is the untrimmed text without its
\* leading whitespace and those bytes, trimmed at the end.
LEMMA TrimmedSource ==
  ASSUME NEW s \in Seq(Byte), NEW skip \in 0 .. Len(TrimBytes(s)),
         NEW lead, lead = IF Solid(s) = {} THEN 0 ELSE Min(Solid(s)) - 1
  PROVE  /\ TrimBytes(s) \in Seq(Byte)
         /\ SubSeq(s, lead + skip + 1, Len(s)) \in Seq(Byte)
         /\ TrimmedTo(SubSeq(TrimBytes(s), skip + 1, Len(TrimBytes(s))),
                      SubSeq(s, lead + skip + 1, Len(s)))
<1>1. Len(s) \in Nat /\ DOMAIN s = 1 .. Len(s)
  BY LenProperties
<1>2. \A j \in 1 .. Len(s) : j \in Solid(s) <=> s[j] \notin AsciiSpace
  BY <1>1, Zenon DEF Solid
<1>3. CASE Solid(s) = {}
  <2>1. TrimBytes(s) = <<>> /\ lead = 0 /\ <<>> \in Seq(Byte)
    BY <1>3 DEF TrimBytes
  <2>2. skip = 0
    BY <2>1
  <2>3. SubSeq(s, lead + skip + 1, Len(s)) = s
    <3>1. lead + skip + 1 = 1
      BY <2>1, <2>2
    <3>2. SubSeq(s, 1, Len(s)) = s
      BY SubSeqFull
    <3> QED
      BY <3>1, <3>2
  <2>4. SubSeq(TrimBytes(s), skip + 1, Len(TrimBytes(s))) = SubSeq(s, 1, 0)
    <3>1. SubSeq(<<>>, 1, 0) = <<>> /\ SubSeq(s, 1, 0) = <<>>
      BY SubSeqEmpty, <2>1
    <3>2. skip + 1 = 1 /\ Len(<<>>) = 0
      BY <2>2
    <3> QED
      BY <2>1, <3>1, <3>2
  <2>5. \A j \in 0 + 1 .. Len(s) : s[j] \in AsciiSpace
    BY <1>2, <1>3
  <2>6. 0 \in 0 .. Len(s)
    BY <1>1
  <2>7. TrimmedTo(SubSeq(s, 1, 0), s)
    BY <2>5, <2>6 DEF TrimmedTo
  <2> QED
    BY <2>1, <2>3, <2>4, <2>7
<1>4. CASE Solid(s) # {}
  <2> DEFINE f == Min(Solid(s))
             l == Max(Solid(s))
             a == f + skip
             u == SubSeq(s, a, Len(s))
             t == SubSeq(s, f, l)
             v == SubSeq(t, skip + 1, Len(t))
  <2>1. /\ f \in Solid(s) /\ l \in Solid(s) /\ f <= l
        /\ \A j \in Solid(s) : l >= j
    BY <1>4, MarkPlaces
  <2>2. TrimBytes(s) = t /\ lead = f - 1
    BY <1>4 DEF TrimBytes
  <2> HIDE DEF f, l
  <2>3. f \in 1 .. Len(s) /\ l \in 1 .. Len(s) /\ Solid(s) \subseteq 1 .. Len(s)
    BY <2>1, MarkPlaces
  <2>4. /\ t \in Seq(Byte) /\ Len(t) = l - f + 1
        /\ \A j \in 1 .. l - f + 1 : t[j] = s[f + j - 1]
    <3>1. l \in 0 .. Len(s) /\ f \in Nat \ {0}
      BY <1>1, <2>3
    <3> QED
      BY <2>1, <2>3, <3>1, PartTyped
  <2>5. skip \in 0 .. l - f + 1
    BY <2>2, <2>4
  <2> HIDE DEF t
  <2>6. a \in 1 .. Len(s) + 1 /\ Len(s) \in 0 .. Len(s) /\ a <= Len(s) + 1
        /\ l \in 0 .. Len(s) /\ a <= l + 1 /\ lead + skip + 1 = a
    BY <1>1, <2>1, <2>2, <2>3, <2>5
  <2>7. /\ u \in Seq(Byte) /\ Len(u) = Len(s) - a + 1
        /\ l - a + 1 \in 0 .. Len(u)
        /\ SubSeq(s, a, l) = SubSeq(u, 1, l - a + 1)
        /\ \A j \in 1 .. Len(s) - a + 1 : u[j] = s[a + j - 1]
    <3> HIDE DEF a
    <3> QED
      BY <2>6, HeadOfPart
  <2>8. v = SubSeq(s, a, l)
    <3> DEFINE w == SubSeq(s, a, l)
               d == l - a + 1
    <3>1. /\ v \in Seq(Byte)
          /\ Len(v) = IF skip + 1 <= Len(t) THEN Len(t) - (skip + 1) + 1 ELSE 0
          /\ \A j \in 1 .. Len(t) - (skip + 1) + 1 : v[j] = t[(skip + 1) + j - 1]
      <4>1. skip + 1 \in Nat \ {0} /\ Len(t) \in 0 .. Len(t)
        BY <2>1, <2>3, <2>4, <2>5
      <4> QED
        BY <2>4, <4>1, PartTyped
    <3>2. /\ w \in Seq(Byte) /\ Len(w) = IF a <= l THEN d ELSE 0
          /\ \A j \in 1 .. d : w[j] = s[a + j - 1]
      <4>1. a \in Nat \ {0} /\ l \in 0 .. Len(s)
        BY <1>1, <2>6
      <4> HIDE DEF a
      <4> QED
        BY <4>1, PartTyped
    <3> HIDE DEF v, w
    <3>3. Len(t) - (skip + 1) + 1 = d /\ Len(v) = d /\ Len(w) = d /\ d \in Nat
      BY <1>1, <2>1, <2>3, <2>4, <2>5, <3>1, <3>2
    <3>4. \A j \in 1 .. d : /\ skip + j \in 1 .. l - f + 1
                            /\ (skip + 1) + j - 1 = skip + j
                            /\ f + (skip + j) - 1 = a + j - 1
      BY <2>1, <2>3, <2>5
    <3> HIDE DEF d, a
    <3>5. \A j \in 1 .. d : v[j] = w[j]
      <4> SUFFICES ASSUME NEW j \in 1 .. d
                   PROVE  v[j] = w[j]
        OBVIOUS
      <4>1. v[j] = t[(skip + 1) + j - 1]
        BY <3>1, <3>3
      <4>2. t[skip + j] = s[f + (skip + j) - 1]
        BY <2>4, <3>4
      <4> QED
        BY <3>2, <3>4, <4>1, <4>2
    <3>6. v = w
      BY <3>1, <3>2, <3>3, <3>5, SeqEqual
    <3> QED
      BY <3>6 DEF w
  <2>9. \A j \in l - a + 1 + 1 .. Len(u) : u[j] \in AsciiSpace
    <3> SUFFICES ASSUME NEW j \in l - a + 1 + 1 .. Len(u)
                 PROVE  u[j] \in AsciiSpace
      OBVIOUS
    <3> HIDE DEF u, a
    <3>0. a \in Nat \ {0} /\ l \in Nat /\ a <= l + 1 /\ Len(u) = Len(s) - a + 1
      BY <1>1, <2>6, <2>7
    <3>1. j \in 1 .. Len(s) - a + 1 /\ a + j - 1 \in 1 .. Len(s) /\ ~ (l >= a + j - 1)
      BY <1>1, <3>0
    <3>2. a + j - 1 \notin Solid(s)
      BY <2>1, <3>1
    <3> QED
      BY <1>2, <2>7, <3>1, <3>2
  <2> HIDE DEF a, u, v
  <2>10. TrimmedTo(v, u)
    BY <2>7, <2>8, <2>9 DEF TrimmedTo
  <2> QED
    BY <2>2, <2>4, <2>6, <2>7, <2>10 DEF u, v
<1> QED
  BY <1>3, <1>4

\* Trimming a text leaves its tokens as they are.
LEMMA TrimmedToTokens ==
  ASSUME NEW u \in Seq(Byte), NEW v, TrimmedTo(v, u)
  PROVE  TrimEnd(TokensOf(u)) = TrimEnd(TokensOf(v))
<1>1. PICK m \in 0 .. Len(u) :
        /\ v = SubSeq(u, 1, m)
        /\ \A j \in m + 1 .. Len(u) : u[j] \in AsciiSpace
  BY DEF TrimmedTo
<1> QED
  BY <1>1, TrimTokens

\* The text ends with a byte that is not whitespace, or is empty.
Trimmed(s) == s # <<>> => s[Len(s)] \notin AsciiSpace

\* What TrimRight returns is trimmed.
LEMMA TrimRightTrimmed ==
  ASSUME NEW s \in Seq(Byte)
  PROVE  TrimRight(s) \in Seq(Byte) /\ Trimmed(TrimRight(s))
<1>1. PICK m \in 0 .. Len(s) :
        TrimRight(s) = SubSeq(s, 1, m) /\ (m # 0 => s[m] \notin AsciiSpace)
  BY TrimRightPrefix
<1> DEFINE v == SubSeq(s, 1, m)
<1>2. v \in Seq(Byte) /\ Len(v) = m /\ \A j \in 1 .. m : v[j] = s[j]
  BY PrefixColons DEF Begins
<1> HIDE DEF v
<1>3. Trimmed(v)
  <2>1. ASSUME v # <<>>
        PROVE  v[Len(v)] \notin AsciiSpace
    <3>1. m # 0 /\ m \in 1 .. m
      BY <1>2, <2>1, EmptySeq
    <3> QED
      BY <1>1, <1>2, <3>1
  <2> QED
    BY <2>1 DEF Trimmed
<1> QED
  BY <1>1, <1>2, <1>3 DEF v

\* So is what TrimBytes returns.
LEMMA TrimBytesTrimmed ==
  ASSUME NEW s \in Seq(Byte)
  PROVE  TrimBytes(s) \in Seq(Byte) /\ Trimmed(TrimBytes(s))
<1>1. CASE Solid(s) = {}
  BY <1>1 DEF TrimBytes, Trimmed
<1>2. CASE Solid(s) # {}
  <2> DEFINE f == Min(Solid(s))
             l == Max(Solid(s))
             t == SubSeq(s, f, l)
  <2>1. /\ f \in Solid(s) /\ l \in Solid(s) /\ f <= l
        /\ Solid(s) \subseteq 1 .. Len(s) /\ Len(s) \in Nat
    BY <1>2, MarkPlaces
  <2>2. TrimBytes(s) = t
    BY <1>2 DEF TrimBytes
  <2> HIDE DEF f, l
  <2>3. f \in Nat \ {0} /\ l \in 0 .. Len(s) /\ l - f + 1 \in 1 .. l - f + 1
    BY <2>1
  <2>4. /\ t \in Seq(Byte) /\ Len(t) = IF f <= l THEN l - f + 1 ELSE 0
        /\ \A j \in 1 .. l - f + 1 : t[j] = s[f + j - 1]
    BY <2>3, PartTyped
  <2> HIDE DEF t
  <2>5. Len(t) = l - f + 1 /\ f + (l - f + 1) - 1 = l
    BY <2>1, <2>3, <2>4
  <2>6. t[Len(t)] = s[l]
    BY <2>3, <2>4, <2>5
  <2>7. s[l] \notin AsciiSpace
    BY <2>1 DEF Solid
  <2> QED
    BY <2>2, <2>4, <2>6, <2>7 DEF Trimmed
<1> QED
  BY <1>1, <1>2

\* StripRqfBytes keeps a beginning of the text.
LEMMA StripTyped ==
  ASSUME NEW s \in Seq(Byte)
  PROVE  StripRqfBytes(s) \in Seq(Byte)
<1>1. CASE RqfMarks(s) = {}
  BY <1>1 DEF StripRqfBytes
<1>2. CASE RqfMarks(s) # {}
  <2>1. PICK x \in 0 .. Len(s) :
          /\ x + 1 <= Len(s) /\ s[x + 1] \in Marks
          /\ \A j \in 1 .. x : s[j] \notin Marks
    BY <1>2, FirstMarkExists
  <2> QED
    BY <2>1, FirstMark
<1> QED
  BY <1>1, <1>2

\* The tokens of the argument of parse_nss, trimmed, are those of its trimmed text.
LEMMA NssArgument ==
  ASSUME NEW s \in Seq(Byte),
         NEW lead, lead = IF Solid(s) = {} THEN 0 ELSE Min(Solid(s)) - 1
  PROVE  TrimEnd(TokensOf(SubSeq(s, lead + 0 + 1, Len(s)))) = TrimEnd(TokensOf(TrimBytes(s)))
<1> DEFINE t == TrimBytes(s)
           u == SubSeq(s, lead + 0 + 1, Len(s))
<1>1. t \in Seq(Byte)
  BY TrimBytesTrimmed
<1>2. 0 \in 0 .. Len(t)
  <2> HIDE DEF t
  <2> QED
    BY <1>1, LenProperties
<1>3. u \in Seq(Byte) /\ TrimmedTo(SubSeq(t, 0 + 1, Len(t)), u)
  BY <1>2, TrimmedSource
<1> HIDE DEF t, u
<1>4. SubSeq(t, 0 + 1, Len(t)) = t
  <2>1. SubSeq(t, 1, Len(t)) = t
    BY <1>1, SubSeqFull
  <2> QED
    BY <2>1
<1>5. TrimEnd(TokensOf(u)) = TrimEnd(TokensOf(t))
  BY <1>3, <1>4, TrimmedToTokens
<1> QED
  BY <1>5 DEF t, u

\* The tokens of the argument of parse_urn after the prefix, the r/q/f components
\* cut off, are accepted as those of the text that parse_urn passes on.
LEMMA UrnArgument ==
  ASSUME NEW s \in Seq(Byte), NEW skip \in 0 .. Len(TrimBytes(s)),
         NEW lead, lead = IF Solid(s) = {} THEN 0 ELSE Min(Solid(s)) - 1,
         NEW rest, rest = SubSeq(TrimBytes(s), skip + 1, Len(TrimBytes(s))),
         NEW text, text = TrimRight(StripRqfBytes(rest))
  PROVE  /\ text \in Seq(Byte) /\ Trimmed(text)
         /\ OkAlike(TrimEnd(StripRqf(TrimEnd(TokensOf(SubSeq(s, lead + skip + 1, Len(s)))))),
                    TrimEnd(TokensOf(text)))
<1> DEFINE u == SubSeq(s, lead + skip + 1, Len(s))
           v == StripRqfBytes(rest)
<1>1. /\ TrimBytes(s) \in Seq(Byte) /\ u \in Seq(Byte) /\ TrimmedTo(rest, u)
  BY TrimmedSource
<1>2. rest \in Seq(Byte)
  <2> DEFINE t == TrimBytes(s)
  <2>1. t \in Seq(Byte) /\ skip \in 0 .. Len(t) /\ rest = SubSeq(t, skip + 1, Len(t))
    BY <1>1
  <2> HIDE DEF t
  <2>2. Len(t) \in 0 .. Len(t) /\ skip + 1 \in Nat \ {0}
    BY <2>1, LenProperties
  <2> QED
    BY <2>1, <2>2, PartTyped
<1>3. v \in Seq(Byte)
  BY <1>2, StripTyped
<1> HIDE DEF u
<1>4. TrimEnd(TokensOf(u)) = TrimEnd(TokensOf(rest))
  BY <1>1, TrimmedToTokens
<1>5. OkAlike(TrimEnd(StripRqf(TrimEnd(TokensOf(rest)))), TrimEnd(TokensOf(v)))
  BY <1>2, StripTokens
<1> HIDE DEF v
<1>6. text = TrimRight(v)
  BY DEF v
<1>7. TrimEnd(TokensOf(text)) = TrimEnd(TokensOf(v))
  BY <1>3, <1>6, TrimRightTokens
<1>8. text \in Seq(Byte) /\ Trimmed(text)
  BY <1>3, <1>6, TrimRightTrimmed
<1> QED
  BY <1>4, <1>5, <1>7, <1>8, Zenon DEF u

-----------------------------------------------------------------------------
(* A piece and its token *)

\* The texts of the keys are lowercase and differ.
LEMMA KeyTexts ==
  /\ \A k \in Keys : /\ KeyText[k] \in Seq(LowerCase) \ {<<>>}
                     /\ Len(KeyText[k]) = 2
  /\ \A k, l \in Keys : KeyText[k] = KeyText[l] => k = l
<1>1. \A k \in Keys : KeyText[k] \in LowerCase \X LowerCase
  BY DEF Keys, KeyText, LowerCase
<1> QED
  BY <1>1 DEF Keys, KeyText, LowerCase

\* A piece that is not empty has a word.
LEMMA WordNotEmpty ==
  ASSUME NEW p, p # <<>>
  PROVE  WordOf(p) # ""
<1>1. CASE IsKnownComponent(ToLower(p))
  <2>1. WordOf(p) = CHOOSE k \in Keys : KeyText[k] = ToLower(p)
    BY <1>1, Zenon DEF WordOf
  <2>2. \E k \in Keys : KeyText[k] = ToLower(p)
    BY <1>1 DEF IsKnownComponent
  <2>3. WordOf(p) \in Keys
    BY <2>1, <2>2, Zenon
  <2> QED
    BY <2>3 DEF Keys
<1>2. CASE ~ IsKnownComponent(ToLower(p))
  BY <1>2 DEF WordOf
<1> QED
  BY <1>1, <1>2

-----------------------------------------------------------------------------
(* The tokens of what is passed to parse_nss_map *)

\* A text with a mark is refused.
LEMMA MarkedNss ==
  ASSUME NEW s \in Seq(Byte), RqfMarks(s) # {}
  PROVE  ~ NssOk(TrimEnd(TokensOf(s)))
<1> DEFINE T == TokensOf(s)
           v == StripRqfBytes(s)
           c == PieceCount(v)
<1>1. Kept(TokensOf(v), T, c)
  BY KeptPieces
<1> HIDE DEF T, c, v
<1>2. T \in Seq(PieceTokens) /\ c \in 1 .. Len(T) /\ T[c].byte # "none"
  BY <1>1 DEF Kept
<1> QED
  BY <1>2, BadByte DEF T

\* The empty text has no tokens, and no components.
LEMMA EmptyNss ==
  /\ TrimEnd(TokensOf(<<>>)) = <<>>
  /\ NssOk(<<>>)
  /\ Components(<<>>) = Abstract(<<>>)
<1> DEFINE e == <<>>
           T == TokensOf(e)
<1>1. e \in Seq(Byte) /\ Len(e) = 0 /\ DOMAIN e = {}
  OBVIOUS
<1>2. ColonsOf(e) = {} /\ RqfMarks(e) = {} /\ Solid(e) = {}
  BY <1>1, Zenon DEF ColonsOf, RqfMarks, Solid
<1>3. PieceCount(e) = 1
  BY <1>2, FS_EmptySet DEF PieceCount
<1>4. Piece(e, 1) = e
  <2>1. From(e, 1) = 1
    BY DEF From
  <2>2. To(e, 1) = 0
    <3>1. Cardinality(ColonsOf(e)) = 0
      BY <1>2, FS_EmptySet
    <3> QED
      BY <1>1, <3>1 DEF To
  <2> QED
    BY <2>1, <2>2, SubSeqEmpty DEF Piece
<1>5. StripRqfBytes(e) = e /\ Body(e) = e
  BY <1>2 DEF StripRqfBytes, Body, TrimRight
<1>6. WordOf(e) = "" /\ ByteOf(e) = "none"
  <2>1. WordOf(e) = ""
    BY DEF WordOf
  <2>2. e \in Seq(NssByte)
    OBVIOUS
  <2> QED
    BY <1>2, <1>5, <2>1, <2>2, Zenon DEF ByteOf
<1>7. HasUpper(e) = FALSE
  BY <1>1, Zenon DEF HasUpper
<1>8. TokenOf(e) = Tok("", FALSE, FALSE, "none")
  <2> HIDE DEF e
  <2>1. (e # e) = FALSE
    OBVIOUS
  <2>2. TokenOf(e) = Tok("", FALSE, e # e, "none")
    BY <1>5, <1>6, <1>7, TokenFields, Zenon
  <2> QED
    BY <2>1, <2>2, Zenon
<1>9. T \in Seq(PieceTokens) /\ Len(T) = 1 /\ T[1] = TokenOf(e)
  <2>1. 1 \in 1 .. 1
    OBVIOUS
  <2> HIDE DEF e
  <2> QED
    BY <1>1, <1>3, <1>4, <2>1, TokensTyped
<1> HIDE DEF T, e
<1>10. Trim(T[1]) = Nothing
  <2>1. Trim(Tok("", FALSE, FALSE, "none")) = Tok("", FALSE, FALSE, "none")
    BY TokTrimmed
  <2>2. Nothing = Tok("", FALSE, FALSE, "none")
    BY Zenon DEF Nothing, Plain, Tok
  <2> QED
    BY <1>8, <1>9, <2>1, <2>2, Zenon
<1>11. TrimEnd(T) = <<>>
  BY <1>9, <1>10, TrimEndFacts
<1>12. NssOk(<<>>)
  <2>1. Pairs(<<>>) = {}
    BY DEF Pairs
  <2>2. Len(<<>>) % 2 = 0
    OBVIOUS
  <2>3. DOMAIN <<>> = {}
    OBVIOUS
  <2> QED
    BY <2>1, <2>2, <2>3, Zenon DEF NssOk
<1>13. Components(<<>>) = Abstract(<<>>)
  <2> DEFINE known == {q \in Pairs(<<>>) : Known(KeyAt(<<>>, q))}
             A == {KeyAt(<<>>, q).word : q \in known}
             B == {WordOf(p) : p \in DOMAIN <<>>}
  <2>1. known = {}
    BY DEF Pairs
  <2>2. A = {} /\ B = {}
    BY <2>1
  <2>3. Components(<<>>) = [k \in A |->
          ValueAt(<<>>, CHOOSE q \in known : KeyAt(<<>>, q).word = k)]
    BY Zenon DEF Components
  <2>4. Abstract(<<>>) = [k \in B |-> TokenOf(<<>>[KeyText[k]])]
    BY Zenon DEF Abstract
  <2> HIDE DEF A, B, known
  <2> QED
    BY <2>2, <2>3, <2>4
<1> QED
  BY <1>11, <1>12, <1>13 DEF T, e

\* A text that is its own trimmed text.
LEMMA SolidEnd ==
  ASSUME NEW p \in Seq(Byte), Trimmed(p)
  PROVE  TrimRight(p) = p
<1>1. CASE p = <<>>
  <2>1. Solid(<<>>) = {}
    BY DEF Solid
  <2> QED
    BY <1>1, <2>1 DEF TrimRight
<1>2. CASE p # <<>>
  <2> DEFINE n == Len(p)
             l == Max(Solid(p))
  <2>1. n \in 1 .. n /\ DOMAIN p = 1 .. n /\ n \in Nat
    BY <1>2, LenProperties, EmptySeq
  <2>2. n \in Solid(p)
    BY <1>2, <2>1 DEF Trimmed, Solid
  <2>3. l \in Solid(p) /\ l >= n /\ Solid(p) \subseteq 1 .. n
    BY <2>2, MarkPlaces
  <2> HIDE DEF l
  <2>4. l = n
    BY <2>1, <2>3
  <2>5. TrimRight(p) = SubSeq(p, 1, Len(p))
    BY <2>2, <2>4 DEF TrimRight, l
  <2> QED
    BY <2>5, SubSeqFull
<1> QED
  BY <1>1, <1>2

\* No more is cut off a trimmed text without marks: its tokens are those of its
\* pieces.
LEMMA TrimmedNss ==
  ASSUME NEW s \in Seq(Byte), s # <<>>, Trimmed(s), RqfMarks(s) = {}
  PROVE  TrimEnd(TokensOf(s)) = TokensOf(s)
<1> DEFINE T == TokensOf(s)
           n == PieceCount(s)
           p == Piece(s, n)
           a == From(s, n)
           m == Len(s)
<1>1. /\ n \in Nat \ {0} /\ T \in Seq(PieceTokens) /\ Len(T) = n
      /\ \A k \in 1 .. n : T[k] = TokenOf(Piece(s, k))
  BY TokensTyped
<1>2. n \in 1 .. n /\ m \in Nat /\ m # 0
  BY <1>1, LenProperties, EmptySeq
<1>3. To(s, n) = m
  <2>1. Cardinality(ColonsOf(s)) \in Nat
    BY CountFacts
  <2>2. n > Cardinality(ColonsOf(s))
    BY <2>1 DEF PieceCount
  <2> QED
    BY <2>2, Zenon DEF To
<1>4. a \in 1 .. m + 1 /\ p = SubSeq(s, a, m)
  <2>1. p = SubSeq(s, a, m)
    BY <1>3, Zenon DEF Piece
  <2> HIDE DEF p
  <2>2. a \in 1 .. m + 1
    BY <1>2, PiecePlaces
  <2> QED
    BY <2>1, <2>2
<1>5. RqfMarks(p) = {}
  BY <1>2, UnmarkedPieces
<1> HIDE DEF T, n, p, a
<1>6. /\ p \in Seq(Byte) /\ Len(p) = IF a <= m THEN m - a + 1 ELSE 0
      /\ \A j \in 1 .. m - a + 1 : p[j] = s[a + j - 1]
  <2>1. m \in 0 .. m /\ a \in Nat \ {0}
    BY <1>2, <1>4
  <2> QED
    BY <1>4, <2>1, PartTyped
<1>7. Trimmed(p)
  <2> SUFFICES ASSUME p # <<>>
               PROVE  p[Len(p)] \notin AsciiSpace
    BY DEF Trimmed
  <2>1. Len(p) # 0
    BY <1>6, EmptySeq
  <2>2. Len(p) = m - a + 1 /\ m - a + 1 \in 1 .. m - a + 1 /\ a + (m - a + 1) - 1 = m
    BY <1>2, <1>4, <1>6, <2>1
  <2>3. p[Len(p)] = s[m]
    BY <1>6, <2>2
  <2> QED
    BY <2>3 DEF Trimmed
<1>8. StripRqfBytes(p) = p /\ Body(p) = p
  BY <1>5, <1>6, <1>7, SolidEnd DEF StripRqfBytes, Body
<1>9. TokenOf(p) = Tok(WordOf(p), HasUpper(p), FALSE, ByteOf(p))
  <2>1. (p # p) = FALSE
    OBVIOUS
  <2>2. TokenOf(p) = Tok(WordOf(p), HasUpper(p), p # p, ByteOf(p))
    BY <1>8, TokenFields, Zenon
  <2> QED
    BY <2>1, <2>2, Zenon
<1>10. T[n] = TokenOf(p)
  BY <1>1, <1>2 DEF p
<1>11. Trim(T[n]) = T[n]
  BY <1>9, <1>10, TokTrimmed
<1>12. ~ (Len(T) = 1 /\ Trim(T[1]) = Nothing)
  <2> SUFFICES ASSUME n = 1
               PROVE  T[1] # Nothing
    BY <1>1, <1>11
  <2>1. a = 1
    BY DEF a, From
  <2>2. p = s
    BY <1>4, <2>1, SubSeqFull
  <2>3. WordOf(p) # ""
    BY <2>2, WordNotEmpty
  <2>4. TokenOf(p).word = WordOf(p)
    BY <1>9 DEF Tok
  <2>5. Nothing.word = ""
    BY DEF Nothing, Plain
  <2> QED
    BY <1>10, <2>3, <2>4, <2>5
<1>13. TrimEnd(T) \in Seq(PieceTokens) /\ Trims(TrimEnd(T), T)
  BY <1>1, <1>12, TrimEndFacts
<1>14. \A k \in 1 .. n : TrimEnd(T)[k] = T[k]
  BY <1>1, <1>11, <1>13 DEF Trims
<1>15. TrimEnd(T) = T
  BY <1>1, <1>13, <1>14, SeqEqual DEF Trims
<1> QED
  BY <1>15 DEF T

-----------------------------------------------------------------------------
(* What the loop tests of a piece, and what the token model tests *)

\* A text is clean if all its bytes may stand in an NSS.
LEMMA CleanIsSeq ==
  ASSUME NEW p \in Seq(Byte)
  PROVE  Clean(p) <=> p \in Seq(NssByte)
<1>1. p \in [1 .. Len(p) -> Byte] /\ DOMAIN p = 1 .. Len(p) /\ Len(p) \in Nat
  BY LenProperties
<1>2. ASSUME Clean(p)
      PROVE  p \in Seq(NssByte)
  <2>1. p \in [1 .. Len(p) -> NssByte]
    <3>1. \A j \in 1 .. Len(p) : p[j] \in NssByte
      BY <1>1, <1>2, Zenon DEF Clean
    <3> QED
      BY <1>1, <3>1
  <2> QED
    BY <1>1, <2>1, SeqDef
<1>3. ASSUME p \in Seq(NssByte)
      PROVE  Clean(p)
  <2>1. \A j \in 1 .. Len(p) : p[j] \in NssByte
    BY <1>3, ElementOfSeq
  <2> QED
    BY <1>1, <2>1, Zenon DEF Clean
<1> QED
  BY <1>2, <1>3

\* Whitespace may not stand in an NSS.
LEMMA CleanIsTrimmed ==
  ASSUME NEW p \in Seq(Byte), Clean(p)
  PROVE  Trimmed(p)
<1>1. NssByte \cap AsciiSpace = {}
  BY DEF NssByte, AsciiSpace, UpperCase, LowerCase, DecimalDigit
<1>2. p # <<>> => Len(p) \in DOMAIN p
  BY LenProperties, EmptySeq
<1>3. p # <<>> => p[Len(p)] \in NssByte
  BY <1>2, Zenon DEF Clean
<1> QED
  BY <1>1, <1>3 DEF Trimmed

\* The token of a clean piece.
LEMMA CleanToken ==
  ASSUME NEW p \in Seq(Byte), RqfMarks(p) = {}, Clean(p)
  PROVE  TokenOf(p) = Tok(WordOf(p), HasUpper(p), FALSE, "none")
<1>1. StripRqfBytes(p) = p /\ Body(p) = p
  BY CleanIsTrimmed, SolidEnd DEF StripRqfBytes, Body
<1>2. ByteOf(p) = "none"
  BY <1>1, CleanIsSeq DEF ByteOf
<1>3. (p # p) = FALSE
  OBVIOUS
<1>4. TokenOf(p) = Tok(WordOf(p), HasUpper(p), p # p, "none")
  BY <1>1, <1>2, TokenFields, Zenon
<1> QED
  BY <1>3, <1>4, Zenon

\* The fields of Tok.
LEMMA TokFields ==
  ASSUME NEW w, NEW u, NEW p, NEW b
  PROVE  /\ Tok(w, u, p, b).word = w /\ Tok(w, u, p, b).upper = u
         /\ Tok(w, u, p, b).space = p /\ Tok(w, u, p, b).byte = b
BY DEF Tok

\* The loop refuses the pieces that NssOk refuses.
LEMMA CleanPiece ==
  ASSUME NEW p \in Seq(Byte), RqfMarks(p) = {}
  PROVE  (TokenOf(p).word # "" /\ NssBytes(TokenOf(p))) <=> (p # <<>> /\ Clean(p))
<1>1. ASSUME p # <<>>, Clean(p)
      PROVE  TokenOf(p).word # "" /\ NssBytes(TokenOf(p))
  <2> DEFINE t == Tok(WordOf(p), HasUpper(p), FALSE, "none")
  <2>1. TokenOf(p) = t
    BY <1>1, CleanToken
  <2>2. t.word = WordOf(p) /\ t.space = FALSE /\ t.byte = "none"
    BY DEF Tok
  <2> HIDE DEF t
  <2>3. WordOf(p) # ""
    BY <1>1, WordNotEmpty
  <2> QED
    BY <2>1, <2>2, <2>3 DEF NssBytes
<1>2. ASSUME TokenOf(p).word # "", NssBytes(TokenOf(p))
      PROVE  p # <<>> /\ Clean(p)
  <2> DEFINE w == WordOf(Body(p))
             h == HasUpper(Body(p))
             q == Body(p) # StripRqfBytes(p)
             b == ByteOf(p)
             t == Tok(w, h, q, b)
  <2>1. TokenOf(p) = t
    BY TokenFields
  <2>2. t.word = w /\ t.space = q /\ t.byte = b
    <3> HIDE DEF w, h, q, b
    <3> QED
      BY TokFields
  <2> HIDE DEF t, q, w, h, b
  <2>3. w # "" /\ ~ q /\ b = "none"
    <3>1. TokenOf(p).space = q
      BY <2>1, <2>2, Zenon
    <3>2. ~ TokenOf(p).space /\ TokenOf(p).byte = "none"
      BY <1>2 DEF NssBytes
    <3> QED
      BY <1>2, <2>1, <2>2, <3>1, <3>2, Zenon
  <2>4. Body(p) = p
    BY <2>3 DEF q, StripRqfBytes
  <2>5. p \in Seq(NssByte)
    BY <2>3, <2>4 DEF b, ByteOf
  <2>6. p # <<>>
    BY <2>3, <2>4 DEF w, WordOf
  <2> QED
    BY <2>5, <2>6, CleanIsSeq
<1> QED
  BY <1>1, <1>2

\* The word of a known component, and the component of a word.
LEMMA KnownWord ==
  ASSUME NEW p, NEW k \in Keys, p # <<>>, KeyText[k] = ToLower(p)
  PROVE  WordOf(p) = k
<1>1. IsKnownComponent(ToLower(p))
  BY DEF IsKnownComponent
<1>2. WordOf(p) = CHOOSE l \in Keys : KeyText[l] = ToLower(p)
  BY <1>1, Zenon DEF WordOf
<1>3. \A l \in Keys : KeyText[l] = ToLower(p) => l = k
  BY KeyTexts
<1> QED
  BY <1>2, <1>3, Zenon

\* The word of a piece is a key exactly if the piece is one in any case.
LEMMA KeyWord ==
  ASSUME NEW p, p # <<>>
  PROVE  WordOf(p) \in Keys <=> IsKnownComponent(ToLower(p))
<1>1. ASSUME IsKnownComponent(ToLower(p))
      PROVE  WordOf(p) \in Keys
  BY <1>1, KnownWord DEF IsKnownComponent
<1>2. ASSUME ~ IsKnownComponent(ToLower(p))
      PROVE  WordOf(p) \notin Keys
  BY <1>2 DEF WordOf, Keys
<1> QED
  BY <1>1, <1>2

\* A text without uppercase letters is its own lowercase text.
LEMMA LowerText1 ==
  ASSUME NEW p \in Seq(Byte), ~ HasUpper(p)
  PROVE  ToLower(p) = p
<1>1. \A j \in DOMAIN p : AsciiLower(p[j]) = p[j]
  BY DEF HasUpper, AsciiLower
<1>2. p = [j \in DOMAIN p |-> p[j]]
  BY LenProperties
<1> QED
  BY <1>1, <1>2 DEF ToLower

\* A known component has no uppercase letters.
LEMMA KnownIsLower ==
  ASSUME NEW p \in Seq(Byte), IsKnownComponent(p)
  PROVE  p # <<>> /\ ~ HasUpper(p) /\ ToLower(p) = p
<1>1. PICK k \in Keys : KeyText[k] = p
  BY DEF IsKnownComponent
<1>2. p \in Seq(LowerCase) /\ p # <<>>
  BY <1>1, KeyTexts
<1>3. \A j \in DOMAIN p : p[j] \in LowerCase
  BY <1>2, LenProperties, ElementOfSeq
<1>4. LowerCase \cap UpperCase = {}
  BY DEF LowerCase, UpperCase
<1>5. ~ HasUpper(p)
  BY <1>3, <1>4 DEF HasUpper
<1> QED
  BY <1>2, <1>5, LowerText1

\* The loop keeps the components that the token model keeps.
LEMMA KnownToken ==
  ASSUME NEW p \in Seq(Byte), RqfMarks(p) = {}, Clean(p), p # <<>>
  PROVE  /\ TokenOf(p).word = WordOf(p)
         /\ TokenOf(p).word \in Keys <=> IsKnownComponent(ToLower(p))
         /\ Known(TokenOf(p)) <=> IsKnownComponent(p)
<1> DEFINE w == WordOf(p)
<1>1. TokenOf(p) = Tok(w, HasUpper(p), FALSE, "none")
  BY CleanToken
<1>2. TokenOf(p).word = w /\ TokenOf(p).upper = HasUpper(p)
  <2> DEFINE h == HasUpper(p)
  <2>1. TokenOf(p) = Tok(w, h, FALSE, "none")
    BY <1>1
  <2> HIDE DEF w, h
  <2>2. \A q : Tok(w, h, q, "none").word = w /\ Tok(w, h, q, "none").upper = h
    BY DEF Tok
  <2>3. TokenOf(p).word = w /\ TokenOf(p).upper = h
    BY <2>1, <2>2, Zenon
  <2> QED
    BY <2>3 DEF h
<1>3. w \in Keys <=> IsKnownComponent(ToLower(p))
  BY KeyWord
<1> HIDE DEF w
<1>4. Plain(w) = Tok(w, FALSE, FALSE, "none")
  BY Zenon DEF Plain, Tok
<1>5. Plain(w).upper = FALSE
  BY DEF Plain
<1>6. ASSUME Known(TokenOf(p))
      PROVE  IsKnownComponent(p)
  <2>1. w \in Keys /\ TokenOf(p) = Plain(w)
    BY <1>2, <1>6, Zenon DEF Known, IsName
  <2>2. HasUpper(p) = FALSE
    BY <1>2, <1>5, <2>1, Zenon
  <2>3. ToLower(p) = p
    BY <2>2, LowerText1
  <2> QED
    BY <1>3, <2>1, <2>3
<1>7. ASSUME IsKnownComponent(p)
      PROVE  Known(TokenOf(p))
  <2>1. ToLower(p) = p /\ ~ HasUpper(p)
    BY <1>7, KnownIsLower
  <2>2. w \in Keys
    BY <1>3, <1>7, <2>1
  <2>3. HasUpper(p) = FALSE
    BY <2>1 DEF HasUpper
  <2>4. TokenOf(p) = Plain(w)
    BY <1>1, <1>4, <2>3, Zenon
  <2> QED
    BY <1>2, <2>2, <2>4, Zenon DEF Known, IsName
<1> QED
  BY <1>2, <1>3, <1>6, <1>7 DEF w

\* The text of a known component is that of its word.
LEMMA KnownText ==
  ASSUME NEW p \in Seq(Byte), IsKnownComponent(p)
  PROVE  WordOf(p) \in Keys /\ KeyText[WordOf(p)] = p
<1>1. ToLower(p) = p /\ p # <<>>
  BY KnownIsLower
<1>2. PICK k \in Keys : KeyText[k] = p
  BY DEF IsKnownComponent
<1>3. WordOf(p) = k
  BY <1>1, <1>2, KnownWord
<1> QED
  BY <1>2, <1>3

-----------------------------------------------------------------------------
(* The pairs that the loop has read, and the tokens *)

\* Pieces of a text without marks.
Unmarked(P) == P \in Seq(Seq(Byte)) /\ \A k \in DOMAIN P : RqfMarks(P[k]) = {}

TokensFor(P) == [k \in DOMAIN P |-> TokenOf(P[k])]

Good(p) == p # <<>> /\ Clean(p)

\* The first h pairs of P are read, and map holds their known components.
PairsRead(P, map, h) ==
  /\ \A k \in 1 .. 2 * h : Good(P[k])
  /\ \A q \in 1 .. h :
       IsKnownComponent(ToLower(P[2 * q - 1])) => IsKnownComponent(P[2 * q - 1])
  /\ \A q, r \in 1 .. h :
       IsKnownComponent(P[2 * q - 1]) /\ P[2 * q - 1] = P[2 * r - 1] => q = r
  /\ DOMAIN map =
       {P[2 * q - 1] : q \in {q \in 1 .. h : IsKnownComponent(P[2 * q - 1])}}
  /\ \A q \in 1 .. h : IsKnownComponent(P[2 * q - 1]) => map[P[2 * q - 1]] = P[2 * q]

\* The pieces of a text without marks.
LEMMA SplitUnmarked ==
  ASSUME NEW s \in Seq(Byte), RqfMarks(s) = {}
  PROVE  Unmarked(Split(s, Colon))
<1> DEFINE P == Split(s, Colon)
<1>1. /\ P \in Seq(Seq(Byte)) /\ Len(P) = PieceCount(s)
      /\ \A k \in 1 .. PieceCount(s) : P[k] = Piece(s, k)
  BY SplitPieces
<1> HIDE DEF P
<1>2. \A k \in 1 .. PieceCount(s) : RqfMarks(Piece(s, k)) = {}
  BY UnmarkedPieces
<1>3. DOMAIN P = 1 .. PieceCount(s)
  BY <1>1, LenProperties
<1>4. \A k \in DOMAIN P : RqfMarks(P[k]) = {}
  BY <1>1, <1>2, <1>3, Zenon
<1>5. Unmarked(P)
  BY <1>1, <1>4, Zenon DEF Unmarked
<1> QED
  BY <1>5 DEF P

\* The tokens of a trimmed text without marks.
LEMMA SplitTokens ==
  ASSUME NEW s \in Seq(Byte), s # <<>>, Trimmed(s), RqfMarks(s) = {}
  PROVE  TrimEnd(TokensOf(s)) = TokensFor(Split(s, Colon))
BY TrimmedNss, SplitIsTokens, Zenon DEF TokensFor

\* The pieces and their tokens, one by one.
LEMMA PieceOfParts ==
  ASSUME NEW P, Unmarked(P), NEW k \in 1 .. Len(P)
  PROVE  /\ Len(P) \in Nat /\ k \in DOMAIN P
         /\ P[k] \in Seq(Byte) /\ RqfMarks(P[k]) = {}
         /\ Len(TokensFor(P)) = Len(P) /\ DOMAIN TokensFor(P) = 1 .. Len(P)
         /\ TokensFor(P)[k] = TokenOf(P[k])
<1>1. P \in Seq(Seq(Byte)) /\ \A j \in DOMAIN P : RqfMarks(P[j]) = {}
  BY DEF Unmarked
<1>2. Len(P) \in Nat /\ DOMAIN P = 1 .. Len(P) /\ P[k] \in Seq(Byte)
  BY <1>1, LenProperties, ElementOfSeq
<1> DEFINE D == TokensFor(P)
<1>3. D = [j \in 1 .. Len(P) |-> TokenOf(P[j])]
  BY <1>2, Zenon DEF TokensFor
<1> HIDE DEF D
<1>4. DOMAIN D = 1 .. Len(P) /\ D[k] = TokenOf(P[k])
  BY <1>3
<1>5. Len(D) = Len(P)
  <2>1. D \in Seq(PieceTokens)
    <3>1. \A j \in 1 .. Len(P) : TokenOf(P[j]) \in PieceTokens
      BY TokenTyped
    <3>2. D \in [1 .. Len(P) -> PieceTokens]
      BY <1>3, <3>1
    <3> QED
      BY <1>2, <3>2, SeqDef
  <2>2. DOMAIN D = 1 .. Len(D) /\ Len(D) \in Nat
    BY <2>1, LenProperties
  <2> QED
    BY <1>2, <1>4, <2>2
<1> QED
  BY <1>1, <1>2, <1>4, <1>5 DEF D

\* A piece that the loop refuses as empty or unclean.
LEMMA PieceRefused ==
  ASSUME NEW P, Unmarked(P), NEW k \in 1 .. Len(P), ~ Good(P[k])
  PROVE  ~ NssOk(TokensFor(P))
<1>1. /\ P[k] \in Seq(Byte) /\ RqfMarks(P[k]) = {}
      /\ DOMAIN TokensFor(P) = 1 .. Len(P) /\ TokensFor(P)[k] = TokenOf(P[k])
  BY PieceOfParts
<1>2. ~ (TokenOf(P[k]).word # "" /\ NssBytes(TokenOf(P[k])))
  BY <1>1, CleanPiece DEF Good
<1> QED
  BY <1>1, <1>2 DEF NssOk

\* A piece without its value.
LEMMA OddRefused ==
  ASSUME NEW P, Unmarked(P), Len(P) % 2 # 0
  PROVE  ~ NssOk(TokensFor(P))
<1>1. Len(P) \in Nat
  BY LenProperties DEF Unmarked
<1>2. 1 \in 1 .. Len(P)
  <2>1. Len(P) # 0
    OBVIOUS
  <2> QED
    BY <1>1, <2>1
<1>3. Len(TokensFor(P)) = Len(P)
  BY <1>2, PieceOfParts
<1> QED
  BY <1>3 DEF NssOk

\* The pairs of an even number of pieces.
LEMMA PairPlaces ==
  ASSUME NEW P, Unmarked(P), NEW m \in Nat, Len(P) = 2 * m
  PROVE  /\ Pairs(TokensFor(P)) = 1 .. m
         /\ Len(TokensFor(P)) = 2 * m
         /\ \A q \in 1 .. m :
              /\ 2 * q - 1 \in 1 .. Len(P) /\ 2 * q \in 1 .. Len(P)
              /\ KeyAt(TokensFor(P), q) = TokenOf(P[2 * q - 1])
              /\ ValueAt(TokensFor(P), q) = TokenOf(P[2 * q])
<1> DEFINE D == TokensFor(P)
<1>1. Len(D) = 2 * m
  <2>1. CASE m = 0
    <3>1. P = <<>>
      BY <2>1, EmptySeq DEF Unmarked
    <3>2. D = <<>>
      BY <3>1 DEF TokensFor
    <3> QED
      BY <2>1, <3>2
  <2>2. CASE m # 0
    <3>1. 1 \in 1 .. Len(P)
      BY <2>2
    <3> QED
      BY <3>1, PieceOfParts
  <2> QED
    BY <2>1, <2>2
<1>2. \A k \in 1 .. Len(P) : D[k] = TokenOf(P[k])
  BY PieceOfParts
<1> HIDE DEF D
<1>3. (2 * m) \div 2 = m
  OBVIOUS
<1>4. Pairs(D) = 1 .. m
  BY <1>1, <1>3 DEF Pairs
<1>5. \A q \in 1 .. m : 2 * q - 1 \in 1 .. Len(P) /\ 2 * q \in 1 .. Len(P)
  OBVIOUS
<1>6. \A q \in 1 .. m : /\ KeyAt(D, q) = TokenOf(P[2 * q - 1])
                        /\ ValueAt(D, q) = TokenOf(P[2 * q])
  BY <1>2, <1>5, Zenon DEF KeyAt, ValueAt
<1> QED
  BY <1>1, <1>4, <1>5, <1>6 DEF D

\* A key in another case than the known component.
LEMMA CaseRefused ==
  ASSUME NEW P, Unmarked(P), NEW m \in Nat, Len(P) = 2 * m, NEW q \in 1 .. m,
         ~ IsKnownComponent(P[2 * q - 1]), IsKnownComponent(ToLower(P[2 * q - 1]))
  PROVE  ~ NssOk(TokensFor(P))
<1> DEFINE D == TokensFor(P)
           p == P[2 * q - 1]
<1>1. Pairs(D) = 1 .. m /\ 2 * q - 1 \in 1 .. Len(P) /\ KeyAt(D, q) = TokenOf(p)
  BY PairPlaces
<1>2. p \in Seq(Byte) /\ RqfMarks(p) = {}
  BY <1>1, PieceOfParts
<1>3. CASE ~ Good(p)
  BY <1>1, <1>3, PieceRefused
<1>4. CASE Good(p)
  <2>1. TokenOf(p).word \in Keys /\ ~ Known(TokenOf(p))
    BY <1>2, <1>4, KnownToken DEF Good
  <2> HIDE DEF D, p
  <2>2. q \in Pairs(D) /\ KeyAt(D, q).word \in Keys /\ ~ Known(KeyAt(D, q))
    BY <1>1, <2>1
  <2>3. ~ NssOk(D)
    BY <2>2, Zenon DEF NssOk
  <2> QED
    BY <2>3 DEF D
<1> QED
  BY <1>3, <1>4

\* A known component that comes twice.
LEMMA TwiceRefused ==
  ASSUME NEW P, Unmarked(P), NEW m \in Nat, Len(P) = 2 * m,
         NEW q \in 1 .. m, NEW r \in 1 .. m, q # r,
         IsKnownComponent(P[2 * q - 1]), P[2 * q - 1] = P[2 * r - 1]
  PROVE  ~ NssOk(TokensFor(P))
<1> DEFINE D == TokensFor(P)
           p == P[2 * q - 1]
<1>1. /\ Pairs(D) = 1 .. m /\ 2 * q - 1 \in 1 .. Len(P)
      /\ KeyAt(D, q) = TokenOf(p) /\ KeyAt(D, r) = TokenOf(p)
  BY PairPlaces
<1>2. p \in Seq(Byte) /\ RqfMarks(p) = {}
  BY <1>1, PieceOfParts
<1>3. CASE ~ Good(p)
  BY <1>1, <1>3, PieceRefused
<1>4. CASE Good(p)
  <2>1. Known(TokenOf(p))
    BY <1>2, <1>4, KnownToken DEF Good
  <2> HIDE DEF D, p
  <2>2. /\ q \in Pairs(D) /\ r \in Pairs(D) /\ q # r
        /\ Known(KeyAt(D, q)) /\ KeyAt(D, q) = KeyAt(D, r)
    BY <1>1, <2>1
  <2>3. ~ NssOk(D)
    BY <2>2, Zenon DEF NssOk
  <2> QED
    BY <2>3 DEF D
<1> QED
  BY <1>3, <1>4

\* The tokens D hold pair number q, whose key is p.
PairHeld(D, map, q, p) ==
  /\ KeyAt(D, q).word = WordOf(p)
  /\ Known(KeyAt(D, q)) <=> IsKnownComponent(p)
  /\ KeyAt(D, q).word \in Keys => IsKnownComponent(p)
  /\ IsKnownComponent(p) => /\ KeyText[WordOf(p)] = p
                            /\ TokenOf(map[p]) = ValueAt(D, q)

\* What one read pair is to the tokens.
LEMMA ReadPair ==
  ASSUME NEW P, Unmarked(P), NEW m \in Nat, Len(P) = 2 * m, NEW map,
         PairsRead(P, map, m), NEW q \in 1 .. m
  PROVE  PairHeld(TokensFor(P), map, q, P[2 * q - 1])
<1> DEFINE D == TokensFor(P)
           p == P[2 * q - 1]
<1>1. /\ 2 * q - 1 \in 1 .. Len(P) /\ 2 * q - 1 \in 1 .. 2 * m
      /\ KeyAt(D, q) = TokenOf(p) /\ ValueAt(D, q) = TokenOf(P[2 * q])
  BY PairPlaces
<1>2. p \in Seq(Byte) /\ RqfMarks(p) = {}
  BY <1>1, PieceOfParts
<1>3. Good(p)
  BY <1>1 DEF PairsRead
<1>4. /\ IsKnownComponent(ToLower(p)) => IsKnownComponent(p)
      /\ IsKnownComponent(p) => map[p] = P[2 * q]
  BY DEF PairsRead
<1>5. /\ TokenOf(p).word = WordOf(p)
      /\ TokenOf(p).word \in Keys <=> IsKnownComponent(ToLower(p))
      /\ Known(TokenOf(p)) <=> IsKnownComponent(p)
  BY <1>2, <1>3, KnownToken DEF Good
<1>6. IsKnownComponent(p) => WordOf(p) \in Keys /\ KeyText[WordOf(p)] = p
  BY <1>2, KnownText
<1> HIDE DEF D, p
<1>7. PairHeld(D, map, q, p)
  BY <1>1, <1>4, <1>5, <1>6 DEF PairHeld
<1> QED
  BY <1>7 DEF D, p

\* When all pairs are read, the token model accepts the text.
LEMMA PairsAccepted ==
  ASSUME NEW P, Unmarked(P), NEW m \in Nat, Len(P) = 2 * m, NEW map,
         PairsRead(P, map, m)
  PROVE  NssOk(TokensFor(P))
<1> DEFINE D == TokensFor(P)
<1>1. Pairs(D) = 1 .. m /\ Len(D) = 2 * m
  BY PairPlaces
<1>2. \A k \in DOMAIN D : D[k].word # "" /\ NssBytes(D[k])
  <2> SUFFICES ASSUME NEW k \in DOMAIN D
               PROVE  D[k].word # "" /\ NssBytes(D[k])
    OBVIOUS
  <2>1. k \in 1 .. Len(P)
    BY LenProperties DEF TokensFor, Unmarked
  <2>2. P[k] \in Seq(Byte) /\ RqfMarks(P[k]) = {} /\ D[k] = TokenOf(P[k])
    BY <2>1, PieceOfParts
  <2>3. Good(P[k])
    BY <2>1 DEF PairsRead
  <2> QED
    BY <2>2, <2>3, CleanPiece DEF Good
<1>3. Len(D) % 2 = 0
  BY <1>1
<1>4. \A q \in 1 .. m : KeyAt(D, q).word \in Keys => Known(KeyAt(D, q))
  BY ReadPair, <1>1 DEF PairHeld
<1>5. ASSUME NEW q \in 1 .. m, NEW r \in 1 .. m,
             Known(KeyAt(D, q)), KeyAt(D, q) = KeyAt(D, r)
      PROVE  q = r
  <2> DEFINE s == P[2 * q - 1]
             t == P[2 * r - 1]
  <2>1. /\ KeyAt(D, q).word = WordOf(s)
        /\ Known(KeyAt(D, q)) <=> IsKnownComponent(s)
        /\ IsKnownComponent(s) => KeyText[WordOf(s)] = s
    <3>1. PairHeld(D, map, q, s)
      BY ReadPair
    <3> HIDE DEF D, s
    <3> QED
      BY <3>1 DEF PairHeld
  <2>2. /\ KeyAt(D, r).word = WordOf(t)
        /\ Known(KeyAt(D, r)) <=> IsKnownComponent(t)
        /\ IsKnownComponent(t) => KeyText[WordOf(t)] = t
    <3>1. PairHeld(D, map, r, t)
      BY ReadPair
    <3> HIDE DEF D, t
    <3> QED
      BY <3>1 DEF PairHeld
  <2> HIDE DEF s, t, D
  <2>3. IsKnownComponent(s) /\ s = t
    BY <1>5, <2>1, <2>2, Zenon
  <2> QED
    BY <2>3 DEF PairsRead, s, t
<1> HIDE DEF D
<1>6. NssOk(D)
  BY <1>1, <1>2, <1>3, <1>4, <1>5, Zenon DEF NssOk
<1> QED
  BY <1>6 DEF D

\* Then the map holds the components that the token model finds.
LEMMA PairsComponents ==
  ASSUME NEW P, Unmarked(P), NEW m \in Nat, Len(P) = 2 * m, NEW map,
         PairsRead(P, map, m)
  PROVE  Components(TokensFor(P)) = Abstract(map)
<1> DEFINE D == TokensFor(P)
           key(q) == P[2 * q - 1]
           known == {q \in Pairs(D) : Known(KeyAt(D, q))}
           A == {KeyAt(D, q).word : q \in known}
           B == {WordOf(s) : s \in DOMAIN map}
           pick(k) == CHOOSE q \in known : KeyAt(D, q).word = k
<1>1. Pairs(D) = 1 .. m
  BY PairPlaces
<1>2. \A q \in 1 .. m :
        /\ KeyAt(D, q).word = WordOf(key(q))
        /\ Known(KeyAt(D, q)) <=> IsKnownComponent(key(q))
        /\ IsKnownComponent(key(q)) => /\ KeyText[WordOf(key(q))] = key(q)
                                       /\ TokenOf(map[key(q)]) = ValueAt(D, q)
  <2>1. \A q \in 1 .. m : PairHeld(D, map, q, key(q))
    BY ReadPair
  <2> HIDE DEF D, key
  <2> QED
    BY <2>1, Zenon DEF PairHeld
<1>3. /\ \A s \in DOMAIN map : \E q \in 1 .. m : IsKnownComponent(key(q)) /\ s = key(q)
      /\ \A q \in 1 .. m : IsKnownComponent(key(q)) => key(q) \in DOMAIN map
      /\ \A q, r \in 1 .. m : IsKnownComponent(key(q)) /\ key(q) = key(r) => q = r
  BY DEF PairsRead
<1> HIDE DEF D, key
<1>4. \A q : q \in known <=> q \in 1 .. m /\ IsKnownComponent(key(q))
  BY <1>1, <1>2
<1> HIDE DEF known
<1>5. A = B
  <2>1. \A k \in A : k \in B
    BY <1>2, <1>3, <1>4
  <2>2. \A k \in B : k \in A
    <3> SUFFICES ASSUME NEW s \in DOMAIN map
                 PROVE  WordOf(s) \in A
      OBVIOUS
    <3>1. PICK q \in 1 .. m : IsKnownComponent(key(q)) /\ s = key(q)
      BY <1>3
    <3>2. q \in known /\ KeyAt(D, q).word = WordOf(s)
      BY <1>2, <1>4, <3>1
    <3> QED
      BY <3>2
  <2> QED
    BY <2>1, <2>2
<1>6. ASSUME NEW k \in A
      PROVE  ValueAt(D, pick(k)) = TokenOf(map[KeyText[k]])
  <2>1. \E q \in known : KeyAt(D, q).word = k
    OBVIOUS
  <2>2. pick(k) \in known /\ KeyAt(D, pick(k)).word = k
    BY <2>1, Zenon
  <2> DEFINE q == pick(k)
  <2> HIDE DEF q
  <2>3. q \in 1 .. m /\ IsKnownComponent(key(q)) /\ WordOf(key(q)) = k
    BY <1>2, <1>4, <2>2 DEF q
  <2>4. KeyText[k] = key(q) /\ TokenOf(map[key(q)]) = ValueAt(D, q)
    BY <1>2, <2>3
  <2> QED
    BY <2>4 DEF q
<1>7. Components(D) = [k \in A |-> ValueAt(D, pick(k))]
  BY Zenon DEF Components, known
<1>8. Abstract(map) = [k \in B |-> TokenOf(map[KeyText[k]])]
  BY Zenon DEF Abstract
<1> HIDE DEF A, B, pick
<1>9. Components(D) = Abstract(map)
  BY <1>5, <1>6, <1>7, <1>8
<1> QED
  BY <1>9 DEF D

\* Before the loop no pair is read.
LEMMA NoPairs ==
  ASSUME NEW P
  PROVE  PairsRead(P, <<>>, 0)
<1>1. 1 .. 2 * 0 = {} /\ 1 .. 0 = {} /\ DOMAIN <<>> = {}
  OBVIOUS
<1> QED
  BY <1>1, Zenon DEF PairsRead

\* The number of the last pair, and the places of its pieces.
LEMMA NextPair ==
  ASSUME NEW h \in Nat
  PROVE  /\ \A k \in 1 .. 2 * (h + 1) : k \in 1 .. 2 * h \/ k = 2 * h + 1 \/ k = 2 * h + 2
         /\ \A q \in 1 .. h + 1 : q \in 1 .. h \/ q = h + 1
         /\ \A q \in 1 .. h : q \in 1 .. h + 1 /\ q # h + 1
         /\ h + 1 \in 1 .. h + 1
         /\ 2 * (h + 1) - 1 = 2 * h + 1 /\ 2 * (h + 1) = 2 * h + 2
OBVIOUS

\* A pair with an unknown key leaves the map as it is.
LEMMA PairSkipped ==
  ASSUME NEW P, Unmarked(P), NEW h \in Nat, 2 * h + 2 <= Len(P), NEW map,
         PairsRead(P, map, h), Good(P[2 * h + 1]), Good(P[2 * h + 2]),
         ~ IsKnownComponent(ToLower(P[2 * h + 1]))
  PROVE  PairsRead(P, map, h + 1)
<1> DEFINE p == P[2 * h + 1]
           key(q) == P[2 * q - 1]
           kept(n) == {q \in 1 .. n : IsKnownComponent(key(q))}
<1>1. ~ IsKnownComponent(p)
  <2>1. 2 * h + 1 \in 1 .. Len(P)
    BY LenProperties DEF Unmarked
  <2>2. p \in Seq(Byte)
    BY <2>1, PieceOfParts
  <2> QED
    BY <2>2, KnownIsLower
<1>2. key(h + 1) = p /\ P[2 * (h + 1)] = P[2 * h + 2]
  BY NextPair
<1>3. \A q \in 1 .. h + 1 : IsKnownComponent(key(q)) => q \in 1 .. h
  <2> HIDE DEF key, p
  <2> QED
    BY <1>1, <1>2, NextPair
<1>4. \A k \in 1 .. 2 * (h + 1) : Good(P[k])
  BY NextPair DEF PairsRead
<1>5. /\ \A q \in 1 .. h : IsKnownComponent(ToLower(key(q))) => IsKnownComponent(key(q))
      /\ \A q, r \in 1 .. h : IsKnownComponent(key(q)) /\ key(q) = key(r) => q = r
      /\ DOMAIN map = {key(q) : q \in kept(h)}
      /\ \A q \in 1 .. h : IsKnownComponent(key(q)) => map[key(q)] = P[2 * q]
  BY Zenon DEF PairsRead
<1>6. ~ IsKnownComponent(ToLower(p))
  OBVIOUS
<1> HIDE DEF p, key
<1>7. kept(h + 1) = kept(h)
  <2>1. \A q : q \in kept(h + 1) <=> q \in kept(h)
    BY <1>3, NextPair
  <2> HIDE DEF kept
  <2> QED
    BY <2>1
<1>8. \A q \in 1 .. h + 1 : IsKnownComponent(ToLower(key(q))) => IsKnownComponent(key(q))
  BY <1>2, <1>5, <1>6, NextPair
<1>9. ASSUME NEW q \in 1 .. h + 1, NEW r \in 1 .. h + 1, IsKnownComponent(key(q)), key(q) = key(r)
      PROVE  q = r
  <2>1. q \in 1 .. h /\ r \in 1 .. h
    BY <1>3, <1>9
  <2> QED
    BY <1>5, <1>9, <2>1
<1>10. \A q \in 1 .. h + 1 : IsKnownComponent(key(q)) => map[key(q)] = P[2 * q]
  BY <1>3, <1>5
<1>11. DOMAIN map = {key(q) : q \in kept(h + 1)}
  BY <1>5, <1>7
<1> QED
  BY <1>4, <1>8, <1>9, <1>10, <1>11, Zenon DEF PairsRead, key, kept

\* A new known component is added to the map.
LEMMA PairKept ==
  ASSUME NEW P, Unmarked(P), NEW h \in Nat, 2 * h + 2 <= Len(P), NEW map,
         PairsRead(P, map, h), Good(P[2 * h + 1]), Good(P[2 * h + 2]),
         NEW p, p = P[2 * h + 1], IsKnownComponent(p), p \notin DOMAIN map,
         NEW map2, map2 = [k \in DOMAIN map \cup {p} |-> IF k = p THEN P[2 * h + 2] ELSE map[k]]
  PROVE  PairsRead(P, map2, h + 1)
<1> DEFINE key(q) == P[2 * q - 1]
           kept(n) == {q \in 1 .. n : IsKnownComponent(key(q))}
<1>1. key(h + 1) = p /\ P[2 * (h + 1)] = P[2 * h + 2]
  BY NextPair
<1>2. \A k \in 1 .. 2 * (h + 1) : Good(P[k])
  BY NextPair DEF PairsRead
<1>3. /\ \A q \in 1 .. h : IsKnownComponent(ToLower(key(q))) => IsKnownComponent(key(q))
      /\ \A q, r \in 1 .. h : IsKnownComponent(key(q)) /\ key(q) = key(r) => q = r
      /\ DOMAIN map = {key(q) : q \in kept(h)}
      /\ \A q \in 1 .. h : IsKnownComponent(key(q)) => map[key(q)] = P[2 * q]
  BY Zenon DEF PairsRead
<1>4. /\ DOMAIN map2 = DOMAIN map \cup {p}
      /\ map2[p] = P[2 * h + 2]
      /\ \A k \in DOMAIN map : map2[k] = map[k]
  OBVIOUS
<1> HIDE DEF key
<1>5. \A q \in 1 .. h : IsKnownComponent(key(q)) => key(q) \in DOMAIN map /\ key(q) # p
  BY <1>3
<1>6. \A q \in 1 .. h + 1 : IsKnownComponent(ToLower(key(q))) => IsKnownComponent(key(q))
  BY <1>1, <1>3, NextPair
<1>7. ASSUME NEW q \in 1 .. h + 1, NEW r \in 1 .. h + 1, IsKnownComponent(key(q)), key(q) = key(r)
      PROVE  q = r
  <2>1. CASE q \in 1 .. h /\ r \in 1 .. h
    BY <1>3, <1>7, <2>1
  <2>2. CASE q = h + 1 /\ r \in 1 .. h
    BY <1>1, <1>5, <1>7, <2>2
  <2>3. CASE q \in 1 .. h /\ r = h + 1
    BY <1>1, <1>5, <1>7, <2>3
  <2>4. CASE q = h + 1 /\ r = h + 1
    BY <2>4
  <2> QED
    BY <2>1, <2>2, <2>3, <2>4, NextPair
<1>8. \A q \in 1 .. h + 1 : IsKnownComponent(key(q)) => map2[key(q)] = P[2 * q]
  <2> SUFFICES ASSUME NEW q \in 1 .. h + 1, IsKnownComponent(key(q))
               PROVE  map2[key(q)] = P[2 * q]
    OBVIOUS
  <2>1. CASE q \in 1 .. h
    BY <1>3, <1>4, <1>5, <2>1
  <2>2. CASE q = h + 1
    BY <1>1, <1>4, <2>2
  <2> QED
    BY <2>1, <2>2, NextPair
<1>9. DOMAIN map2 = {key(q) : q \in kept(h + 1)}
  <2>1. \A q : q \in kept(h + 1) <=> q \in kept(h) \/ q = h + 1
    BY <1>1, NextPair
  <2> HIDE DEF kept
  <2> QED
    BY <1>1, <1>3, <1>4, <2>1
<1> QED
  BY <1>2, <1>6, <1>7, <1>8, <1>9, Zenon DEF PairsRead, key, kept

-----------------------------------------------------------------------------
(* Type correctness *)

\* The next pair is the first one until the loop begins.
TypeInv == TypeOK /\ (pc \in {"enter", "map"} => i = 1)

\* What parse_urn and parse_nss pass on is a text.
LEMMA PassedOnTyped ==
  ASSUME NEW s \in Seq(Byte)
  PROVE  /\ TrimBytes(s) \in Seq(Byte)
         /\ HasPrefixFold(TrimBytes(s), PrefixMhda) =>
              TrimRight(StripRqfBytes(SubSeq(TrimBytes(s), Len(PrefixMhda) + 1, Len(TrimBytes(s)))))
                \in Seq(Byte)
<1> DEFINE t == TrimBytes(s)
           n == Len(PrefixMhda)
           r == SubSeq(t, n + 1, Len(t))
<1>1. t \in Seq(Byte)
  BY TrimBytesTrimmed
<1>2. n = 9
  BY DEF PrefixMhda
<1> HIDE DEF t, n
<1>3. r \in Seq(Byte)
  <2>1. Len(t) \in 0 .. Len(t) /\ n + 1 \in Nat \ {0}
    BY <1>1, <1>2, LenProperties
  <2> QED
    BY <1>1, <2>1, PartTyped
<1> HIDE DEF r
<1>4. TrimRight(StripRqfBytes(r)) \in Seq(Byte)
  BY <1>3, StripTyped, TrimRightTrimmed
<1> QED
  BY <1>1, <1>4 DEF t, n, r

\* Initially all variables are of their types.
LEMMA TypeInit == Init => TypeInv
<1> SUFFICES ASSUME Init
             PROVE  TypeInv
  OBVIOUS
<1>1. src \in Seq(Byte)
  BY SourcesAssumption DEF Init
<1>2. parts = <<>> /\ i = 1 /\ out = <<>> /\ nss = <<>>
  BY DEF Init
<1>3. parts \in Seq(Seq(Byte)) /\ nss \in Seq(Byte) /\ i \in 1 .. Len(parts) + 1 /\ DOMAIN out = {}
  BY <1>2
<1> QED
  BY <1>1, <1>2, <1>3 DEF Init, TypeInv, TypeOK

\* Every step keeps the types.
LEMMA TypeStep == TypeInv /\ [Next]_vars => TypeInv'
<1> SUFFICES ASSUME TypeInv, [Next]_vars
             PROVE  TypeInv'
  OBVIOUS
<1> USE DEF TypeInv, TypeOK
<1>1. CASE Enter
  <2>1. /\ UNCHANGED <<entry, src, parts, i, out>> /\ i = 1
        /\ \/ nss' = nss
           \/ nss' = TrimBytes(src)
           \/ /\ HasPrefixFold(TrimBytes(src), PrefixMhda)
              /\ nss' = TrimRight(StripRqfBytes(
                   SubSeq(TrimBytes(src), Len(PrefixMhda) + 1, Len(TrimBytes(src)))))
        /\ pc' \in {"map", "done"} /\ outcome' \in {outcome, "invalid_urn"}
    BY <1>1 DEF Enter, Throw
  <2>2. nss' \in Seq(Byte)
    BY <2>1, PassedOnTyped
  <2> QED
    BY <2>1, <2>2
<1>2. CASE Begin
  <2>1. /\ UNCHANGED <<entry, src, nss, i, out>> /\ i = 1
        /\ parts' \in {parts, Split(nss, Colon)}
        /\ pc' \in {"loop", "done"} /\ outcome' \in {outcome, "ok", "invalid_nss"}
    BY <1>2 DEF Begin, Throw, Return
  <2>2. parts' \in Seq(Seq(Byte))
    BY <2>1, SplitPieces
  <2>3. i' \in 1 .. Len(parts') + 1
    BY <2>1, <2>2, LenProperties
  <2> QED
    BY <2>1, <2>2, <2>3
<1>3. CASE RejectPair
  BY <1>3 DEF RejectPair, InLoop, Throw
<1>4. ASSUME InLoop
      PROVE  i + 2 \in 1 .. Len(parts) + 1 /\ i + 1 \in 1 .. Len(parts) /\ i \in 1 .. Len(parts)
  <2>1. Len(parts) \in Nat
    BY LenProperties
  <2> QED
    BY <1>4, <2>1 DEF InLoop
<1>5. CASE SkipPair
  BY <1>4, <1>5 DEF SkipPair, GoodPair, Continue, InLoop
<1>6. CASE KeepPair
  <2>1. /\ UNCHANGED <<entry, src, nss, parts, pc, outcome>> /\ i' = i + 2 /\ pc = "loop"
        /\ InLoop /\ Value # <<>> /\ Clean(Value) /\ IsKnownComponent(Key)
        /\ out' = [k \in DOMAIN out \cup {Key} |-> IF k = Key THEN Value ELSE out[k]]
    BY <1>6 DEF KeepPair, GoodPair, Continue, InLoop
  <2>2. Value \in Seq(NssByte)
    <3>1. Value \in Seq(Byte)
      BY <1>4, <2>1, ElementOfSeq DEF Value
    <3> QED
      BY <2>1, <3>1, CleanIsSeq
  <2>3. \A k \in DOMAIN out' : IsKnownComponent(k) /\ out'[k] \in Seq(NssByte) \ {<<>>}
    <3> HIDE DEF Key, Value
    <3> QED
      BY <2>1, <2>2
  <2> QED
    BY <1>4, <2>1, <2>3
<1>7. CASE AfterLastPair
  BY <1>7 DEF AfterLastPair, Return
<1>8. CASE UNCHANGED vars
  BY <1>8 DEF vars
<1> QED
  BY <1>1, <1>2, <1>3, <1>5, <1>6, <1>7, <1>8 DEF Next

\* The types of the variables, for every set of texts: the pairs are read inside
\* the pieces, and the map holds clean, non-empty values of known components
\* (nss_parser.cpp:43-86).
THEOREM TypeCorrect == Spec => []TypeOK
<1>1. TypeInv => TypeOK
  BY DEF TypeInv
<1> QED
  BY <1>1, TypeInit, TypeStep, PTL DEF Spec

\* The types hold, with the index.
LEMMA Typed == Spec => []TypeInv
BY TypeInit, TypeStep, PTL DEF Spec

-----------------------------------------------------------------------------
(* What an error message shows *)

\* A quoted piece is shown as ShownAsIs says.
ShowsPiece(q, P) ==
  /\ \A j \in DOMAIN q : q[j] \in 32 .. 126
  /\ \E k \in DOMAIN P : Unquote(q) = P[k]

\* The quotation of a piece.
LEMMA QuotedPiece ==
  ASSUME NEW P \in Seq(Seq(Byte)), NEW k \in 1 .. Len(P)
  PROVE  ShowsPiece(Quote(P[k]), P)
<1> DEFINE p == P[k]
           q == Quote(p)
<1>1. p \in Seq(Byte) /\ k \in DOMAIN P
  BY ElementOfSeq, LenProperties
<1>2. q \in Seq(Printable) /\ Unquote(q) = p
  BY <1>1, QuoteReadsBack
<1> HIDE DEF q
<1>3. \A j \in DOMAIN q : q[j] \in 32 .. 126
  <2>1. DOMAIN q = 1 .. Len(q) /\ \A j \in 1 .. Len(q) : q[j] \in Printable
    BY <1>2, LenProperties, ElementOfSeq
  <2> QED
    BY <2>1 DEF Printable
<1>4. ShowsPiece(q, P)
  BY <1>1, <1>2, <1>3, Zenon DEF ShowsPiece
<1> QED
  BY <1>4 DEF q

\* Nothing is shown before the call returns.
ShownInv ==
  /\ shown # <<>> => ShowsPiece(shown, parts)
  /\ pc # "done" => shown = <<>>

\* A step shows nothing, or a piece of the text.
LEMMA ShownStep == TypeInv /\ ShownInv /\ [Next]_vars => ShownInv'
<1> SUFFICES ASSUME TypeInv, ShownInv, [Next]_vars
             PROVE  ShownInv'
  OBVIOUS
<1>0. nss \in Seq(Byte) /\ parts \in Seq(Seq(Byte)) /\ i \in Nat \ {0}
  BY DEF TypeInv, TypeOK
<1>1. CASE Enter
  <2>1. shown = <<>> /\ shown' = <<>>
    BY <1>1 DEF Enter, Throw, ShownInv
  <2> QED
    BY <2>1 DEF ShownInv
<1>2. CASE Begin
  <2>1. shown = <<>>
    BY <1>2 DEF Begin, ShownInv
  <2>2. CASE shown' = <<>>
    BY <2>2 DEF ShownInv
  <2>3. CASE shown' # <<>>
    <3>1. /\ parts' = Split(nss, Colon) /\ shown' = Quote(parts'[Len(parts')]) /\ pc' = "done"
      BY <1>2, <2>1, <2>3 DEF Begin, Throw, Return
    <3>2. parts' \in Seq(Seq(Byte)) /\ Len(parts') \in 1 .. Len(parts')
      BY <1>0, <3>1, SplitPieces
    <3>3. ShowsPiece(shown', parts')
      BY <3>1, <3>2, QuotedPiece
    <3> QED
      BY <3>1, <3>3 DEF ShownInv
  <2> QED
    BY <2>2, <2>3
<1>3. CASE RejectPair
  <2>1. /\ InLoop /\ parts' = parts /\ pc' = "done"
        /\ shown' = IF Key = <<>> THEN <<>> ELSE Quote(Key)
    BY <1>3 DEF RejectPair, Throw
  <2>2. i \in 1 .. Len(parts)
    BY <1>0, <2>1, LenProperties DEF InLoop
  <2>3. ShowsPiece(Quote(Key), parts)
    BY <1>0, <2>2, QuotedPiece DEF Key
  <2>4. shown' # <<>> => ShowsPiece(shown', parts')
    <3> HIDE DEF Key
    <3> QED
      BY <2>1, <2>3
  <2> QED
    BY <2>1, <2>4 DEF ShownInv
<1>4. CASE SkipPair
  BY <1>4 DEF SkipPair, Continue, ShownInv
<1>5. CASE KeepPair
  BY <1>5 DEF KeepPair, Continue, ShownInv
<1>6. CASE AfterLastPair
  BY <1>6 DEF AfterLastPair, Return, ShownInv
<1>7. CASE UNCHANGED vars
  BY <1>7 DEF vars, ShownInv
<1> QED
  BY <1>1, <1>2, <1>3, <1>4, <1>5, <1>6, <1>7 DEF Next

\* The text quoted in an error message is printable ASCII and reads back as a
\* piece of the input, for every set of texts (detail.hpp:118-121).
THEOREM ShownReadsBack == Spec => []ShownAsIs
<1>1. Init => ShownInv
  BY DEF Init, ShownInv
<1>2. ShownInv => ShownAsIs
  BY DEF ShownInv, ShownAsIs, ShowsPiece
<1> QED
  BY <1>1, <1>2, ShownStep, Typed, PTL DEF Spec

-----------------------------------------------------------------------------
(* The loop and the token model *)

\* The tokens of the argument are accepted as those of nss are.
NssPassed ==
  /\ entry = "urn" => MhdaPrefixed
  /\ Trimmed(nss)
  /\ OkAlike(NssTokens, TrimEnd(TokensOf(nss)))

\* The loop is at a pair: those before it are read.
PartsRead ==
  /\ Unmarked(parts) /\ Len(parts) % 2 = 0
  /\ TrimEnd(TokensOf(nss)) = TokensFor(parts)
  /\ \E h \in Nat : i = 2 * h + 1 /\ i <= Len(parts) + 1 /\ PairsRead(parts, out, h)

\* Inductive: what is known at each place of the program.
ReadInv ==
  /\ pc \in {"map", "loop"} => NssPassed
  /\ pc = "loop" => PartsRead
  /\ pc \in {"enter", "map"} => out = <<>>
  /\ AgreesWithTokens

\* What the argument means does not change.
LEMMA SameArgument ==
  ASSUME UNCHANGED <<entry, src>>
  PROVE  NssTokens' = NssTokens /\ MhdaPrefixed' = MhdaPrefixed
<1>1. entry' = entry /\ src' = src
  OBVIOUS
<1>2. Leading' = Leading
  BY <1>1 DEF Leading
<1>3. /\ SrcTokens(0)' = SrcTokens(0)
      /\ SrcTokens(Len(PrefixMhda))' = SrcTokens(Len(PrefixMhda))
  BY <1>1, <1>2, Zenon DEF SrcTokens
<1>4. NssTokens' = NssTokens
  BY <1>1, <1>3, Zenon DEF NssTokens
<1>5. MhdaPrefixed' = MhdaPrefixed
  BY <1>1 DEF MhdaPrefixed
<1> QED
  BY <1>4, <1>5

\* A refused call.
LEMMA RefusalAgrees ==
  ASSUME UNCHANGED <<entry, src>>, outcome' # "ok",
         (entry = "urn" /\ ~ MhdaPrefixed) \/ ~ NssOk(NssTokens)
  PROVE  AgreesWithTokens'
<1>1. ~ ((entry' = "urn" => MhdaPrefixed') /\ NssOk(NssTokens'))
  BY SameArgument
<1> QED
  BY <1>1 DEF AgreesWithTokens

\* An accepted call.
LEMMA AcceptanceAgrees ==
  ASSUME UNCHANGED <<entry, src>>, outcome' = "ok",
         entry = "urn" => MhdaPrefixed, NssOk(NssTokens),
         Abstract(out') = Components(NssTokens)
  PROVE  AgreesWithTokens'
<1>1. (entry' = "urn" => MhdaPrefixed') /\ NssOk(NssTokens')
  BY SameArgument
<1>2. Abstract(out') = Components(NssTokens')
  BY SameArgument
<1> QED
  BY <1>1, <1>2 DEF AgreesWithTokens

\* A text that the token model refuses, or accepts, behind NssPassed.
LEMMA PassedOn ==
  ASSUME NssPassed, NEW D, D = TrimEnd(TokensOf(nss))
  PROVE  /\ ~ NssOk(D) => ~ NssOk(NssTokens)
         /\ NssOk(D) => NssTokens = D
BY DEF NssPassed, OkAlike

\* What Enter passes on.
LEMMA EnterPasses ==
  ASSUME TypeInv, Enter, pc' = "map"
  PROVE  NssPassed'
<1>1. src \in Seq(Byte) /\ UNCHANGED <<entry, src>>
  BY DEF TypeInv, TypeOK, Enter
<1> DEFINE t == TrimBytes(src)
           n == Len(PrefixMhda)
           rest == SubSeq(t, n + 1, Len(t))
<1>2. CASE entry = "nss"
  <2>1. nss' = t
    BY <1>2 DEF Enter
  <2>2. t \in Seq(Byte) /\ Trimmed(t)
    BY <1>1, TrimBytesTrimmed
  <2>3. NssTokens = TrimEnd(TokensOf(SubSeq(src, Leading + 0 + 1, Len(src))))
    BY <1>2, Zenon DEF NssTokens, SrcTokens
  <2>4. NssTokens = TrimEnd(TokensOf(t))
    <3>1. Leading = IF Solid(src) = {} THEN 0 ELSE Min(Solid(src)) - 1
      BY DEF Leading
    <3>2. TrimEnd(TokensOf(SubSeq(src, Leading + 0 + 1, Len(src)))) = TrimEnd(TokensOf(TrimBytes(src)))
      BY <1>1, <3>1, NssArgument
    <3> QED
      BY <2>3, <3>2
  <2> HIDE DEF t
  <2>5. NssTokens' = TrimEnd(TokensOf(nss'))
    BY <1>1, <2>1, <2>4, SameArgument
  <2>6. entry' # "urn"
    BY <1>1, <1>2
  <2> QED
    BY <2>1, <2>2, <2>5, <2>6 DEF NssPassed, OkAlike
<1>3. CASE entry = "urn"
  <2>1. HasPrefixFold(t, PrefixMhda) /\ nss' = TrimRight(StripRqfBytes(rest))
    BY <1>3 DEF Enter, Throw
  <2>2. n \in 0 .. Len(t)
    <3>1. Len(t) >= n
      BY <2>1 DEF HasPrefixFold
    <3>2. t \in Seq(Byte)
      BY <1>1, TrimBytesTrimmed
    <3>3. n = 9
      BY DEF PrefixMhda
    <3>4. Len(t) \in Nat
      BY <3>2, LenProperties
    <3> HIDE DEF t, n
    <3> QED
      BY <3>1, <3>3, <3>4
  <2>3. Leading = IF Solid(src) = {} THEN 0 ELSE Min(Solid(src)) - 1
    BY DEF Leading
  <2> DEFINE S == TrimEnd(StripRqf(TrimEnd(TokensOf(SubSeq(src, Leading + n + 1, Len(src))))))
  <2>4. /\ nss' \in Seq(Byte) /\ Trimmed(nss')
        /\ OkAlike(S, TrimEnd(TokensOf(nss')))
    <3> HIDE DEF n
    <3> QED
      BY <1>1, <2>1, <2>2, <2>3, UrnArgument
  <2>5. NssTokens = S
    BY <1>3, Zenon DEF NssTokens, SrcTokens
  <2>6. MhdaPrefixed
    BY <2>1 DEF MhdaPrefixed
  <2> HIDE DEF S
  <2>7. NssTokens' = S /\ MhdaPrefixed'
    BY <1>1, <2>5, <2>6, SameArgument
  <2> QED
    BY <2>4, <2>7 DEF NssPassed
<1> QED
  BY <1>2, <1>3 DEF TypeInv, TypeOK

\* The step into the loop.
LEMMA BeginAgrees ==
  ASSUME TypeInv, ReadInv, Begin
  PROVE  ReadInv'
<1> DEFINE D == TrimEnd(TokensOf(nss))
           P == Split(nss, Colon)
<1>1. /\ NssPassed /\ nss \in Seq(Byte) /\ out = <<>> /\ i = 1
      /\ UNCHANGED <<entry, src, nss, i, out>>
  BY DEF Begin, ReadInv, TypeInv, TypeOK
<1>2. entry = "urn" => MhdaPrefixed
  BY <1>1 DEF NssPassed
<1>3. CASE nss = <<>>
  <2>1. outcome' = "ok" /\ pc' = "done"
    BY <1>3 DEF Begin, Return, RqfMarks, Throw
  <2>2. NssTokens = <<>> /\ NssOk(<<>>)
    BY <1>1, <1>3, EmptyNss, PassedOn
  <2>3. Abstract(out') = Components(NssTokens)
    BY <1>1, <2>2, EmptyNss
  <2>4. AgreesWithTokens'
    BY <1>1, <1>2, <2>1, <2>2, <2>3, AcceptanceAgrees
  <2> QED
    BY <2>1, <2>4 DEF ReadInv
<1>4. CASE RqfMarks(nss) # {}
  <2>1. nss # <<>>
    BY <1>4 DEF RqfMarks
  <2>2. outcome' = "invalid_nss" /\ pc' = "done"
    BY <1>4, <2>1 DEF Begin, Return, Throw
  <2>3. ~ NssOk(NssTokens)
    BY <1>1, <1>4, MarkedNss, PassedOn
  <2>4. AgreesWithTokens'
    BY <1>1, <2>2, <2>3, RefusalAgrees
  <2> QED
    BY <2>2, <2>4 DEF ReadInv
<1>5. CASE nss # <<>> /\ RqfMarks(nss) = {}
  <2>1. /\ parts' = P
        /\ Len(P) % 2 # 0 => outcome' = "invalid_nss" /\ pc' = "done"
        /\ Len(P) % 2 = 0 => pc' = "loop"
    BY <1>5 DEF Begin, Return, Throw
  <2>2. Unmarked(P) /\ D = TokensFor(P)
    <3>1. Trimmed(nss)
      BY <1>1 DEF NssPassed
    <3> QED
      BY <1>1, <1>5, <3>1, SplitUnmarked, SplitTokens
  <2> HIDE DEF P
  <2>3. CASE Len(P) % 2 # 0
    <3>1. ~ NssOk(NssTokens)
      BY <1>1, <2>2, <2>3, OddRefused, PassedOn
    <3>2. AgreesWithTokens'
      BY <1>1, <2>1, <2>3, <3>1, RefusalAgrees
    <3> QED
      BY <2>1, <2>3, <3>2 DEF ReadInv
  <2>4. CASE Len(P) % 2 = 0
    <3>1. PairsRead(parts', out', 0)
      BY <1>1, NoPairs
    <3>2. Len(parts') \in Nat
      BY <2>1, <2>2, LenProperties DEF Unmarked
    <3>3. i' = 2 * 0 + 1 /\ i' <= Len(parts') + 1
      BY <1>1, <3>2
    <3>4. PartsRead'
      BY <1>1, <2>1, <2>2, <2>4, <3>1, <3>3 DEF PartsRead
    <3>5. NssPassed'
      <4>1. NssTokens' = NssTokens /\ MhdaPrefixed' = MhdaPrefixed
        BY <1>1, SameArgument
      <4> QED
        BY <1>1, <4>1 DEF NssPassed
    <3> QED
      BY <2>1, <2>4, <3>4, <3>5 DEF ReadInv, AgreesWithTokens
  <2> QED
    BY <2>3, <2>4
<1> QED
  BY <1>3, <1>4, <1>5

\* The pair that the loop looks at.
LEMMA PairAt ==
  ASSUME TypeInv, ReadInv, InLoop
  PROVE  \E h, m \in Nat :
           /\ NssPassed /\ Unmarked(parts) /\ Len(parts) = 2 * m
           /\ TrimEnd(TokensOf(nss)) = TokensFor(parts)
           /\ i = 2 * h + 1 /\ 2 * h + 2 <= Len(parts) /\ h + 1 \in 1 .. m
           /\ PairsRead(parts, out, h)
<1>1. NssPassed /\ PartsRead /\ i < Len(parts)
  BY DEF ReadInv, InLoop
<1>2. PICK h \in Nat : i = 2 * h + 1 /\ PairsRead(parts, out, h)
  BY <1>1 DEF PartsRead
<1> DEFINE n == Len(parts)
           m == n \div 2
<1>3. n \in Nat /\ n % 2 = 0
  BY <1>1, LenProperties DEF PartsRead, Unmarked
<1>4. i < n
  BY <1>1
<1> HIDE DEF n
<1>5. m \in Nat /\ n = 2 * m
  BY <1>3
<1>6. 2 * h + 2 <= n /\ h + 1 \in 1 .. m
  BY <1>2, <1>3, <1>4, <1>5
<1> HIDE DEF m
<1> QED
  BY <1>1, <1>2, <1>5, <1>6 DEF PartsRead, n

\* A refused pair is one for which the token model refuses the text.
LEMMA RejectAgrees ==
  ASSUME TypeInv, ReadInv, RejectPair
  PROVE  ReadInv'
<1>1. PICK h, m \in Nat :
           /\ NssPassed /\ Unmarked(parts) /\ Len(parts) = 2 * m
           /\ TrimEnd(TokensOf(nss)) = TokensFor(parts)
           /\ i = 2 * h + 1 /\ 2 * h + 2 <= Len(parts) /\ h + 1 \in 1 .. m
           /\ PairsRead(parts, out, h)
  BY PairAt DEF RejectPair
<1>2. /\ UNCHANGED <<entry, src>> /\ outcome' = "invalid_nss" /\ pc' = "done"
      /\ \/ ~ Good(Key) \/ ~ Good(Value)
         \/ ~ IsKnownComponent(Key) /\ IsKnownComponent(ToLower(Key))
         \/ Key \in DOMAIN out
  BY DEF RejectPair, Throw, Good
<1>3. /\ 2 * h + 1 \in 1 .. Len(parts) /\ 2 * h + 2 \in 1 .. Len(parts)
      /\ Key = parts[2 * h + 1] /\ Value = parts[2 * h + 2]
      /\ 2 * (h + 1) - 1 = 2 * h + 1
  BY <1>1 DEF Key, Value
<1>4. ~ NssOk(TokensFor(parts))
  <2>1. CASE ~ Good(Key) \/ ~ Good(Value)
    BY <1>1, <1>3, <2>1, PieceRefused
  <2>2. CASE ~ IsKnownComponent(Key) /\ IsKnownComponent(ToLower(Key))
    <3>1. /\ ~ IsKnownComponent(parts[2 * (h + 1) - 1])
          /\ IsKnownComponent(ToLower(parts[2 * (h + 1) - 1]))
      BY <1>3, <2>2
    <3> QED
      BY <1>1, <3>1, CaseRefused
  <2>3. CASE Key \in DOMAIN out
    <3>1. PICK q \in 1 .. h : IsKnownComponent(parts[2 * q - 1]) /\ Key = parts[2 * q - 1]
      BY <1>1, <2>3 DEF PairsRead
    <3>2. q \in 1 .. m /\ q # h + 1
      BY <1>1
    <3>3. parts[2 * q - 1] = parts[2 * (h + 1) - 1]
      BY <1>3, <3>1
    <3> QED
      BY <1>1, <3>1, <3>2, <3>3, TwiceRefused
  <2> QED
    BY <1>2, <2>1, <2>2, <2>3
<1>5. ~ NssOk(NssTokens)
  BY <1>1, <1>4, PassedOn
<1>6. AgreesWithTokens'
  BY <1>2, <1>5, RefusalAgrees
<1> QED
  BY <1>2, <1>6 DEF ReadInv

\* One pair more is read.
LEMMA PairAgrees ==
  ASSUME TypeInv, ReadInv, SkipPair \/ KeepPair
  PROVE  ReadInv'
<1>1. PICK h, m \in Nat :
           /\ NssPassed /\ Unmarked(parts) /\ Len(parts) = 2 * m
           /\ TrimEnd(TokensOf(nss)) = TokensFor(parts)
           /\ i = 2 * h + 1 /\ 2 * h + 2 <= Len(parts) /\ h + 1 \in 1 .. m
           /\ PairsRead(parts, out, h)
  BY PairAt DEF SkipPair, KeepPair, GoodPair
<1>2. /\ UNCHANGED <<entry, src, nss, parts, pc, outcome>> /\ pc = "loop" /\ i' = i + 2
      /\ Good(Key) /\ Good(Value)
  BY DEF SkipPair, KeepPair, GoodPair, InLoop, Continue, Good
<1>3. /\ Key = parts[2 * h + 1] /\ Value = parts[2 * h + 2]
      /\ i' = 2 * (h + 1) + 1 /\ i' <= Len(parts) + 1
  BY <1>1, <1>2 DEF Key, Value
<1>4. PairsRead(parts, out', h + 1)
  <2>1. CASE SkipPair
    <3>1. out' = out /\ ~ IsKnownComponent(ToLower(Key))
      BY <2>1 DEF SkipPair
    <3>2. ~ IsKnownComponent(ToLower(parts[2 * h + 1]))
      BY <1>3, <3>1
    <3>3. Good(parts[2 * h + 1]) /\ Good(parts[2 * h + 2])
      BY <1>2, <1>3
    <3>4. PairsRead(parts, out, h + 1)
      BY <1>1, <3>2, <3>3, PairSkipped
    <3> QED
      BY <3>1, <3>4
  <2>2. CASE KeepPair
    <3>1. /\ IsKnownComponent(Key) /\ Key \notin DOMAIN out
          /\ out' = [k \in DOMAIN out \cup {Key} |-> IF k = Key THEN Value ELSE out[k]]
      BY <2>2 DEF KeepPair
    <3>2. Good(parts[2 * h + 1]) /\ Good(parts[2 * h + 2])
      BY <1>2, <1>3
    <3> DEFINE p == parts[2 * h + 1]
    <3>3. /\ IsKnownComponent(p) /\ p \notin DOMAIN out
          /\ out' = [k \in DOMAIN out \cup {p} |-> IF k = p THEN parts[2 * h + 2] ELSE out[k]]
      BY <1>3, <3>1
    <3> QED
      BY <1>1, <3>2, <3>3, PairKept
  <2> QED
    BY <2>1, <2>2
<1>5. PartsRead'
  <2>1. h + 1 \in Nat /\ Len(parts) % 2 = 0
    BY <1>1
  <2> QED
    BY <1>1, <1>2, <1>3, <1>4, <2>1 DEF PartsRead
<1>6. NssPassed'
  <2>1. NssTokens' = NssTokens /\ MhdaPrefixed' = MhdaPrefixed
    BY <1>2, SameArgument
  <2> QED
    BY <1>1, <1>2, <2>1 DEF NssPassed
<1> QED
  BY <1>2, <1>5, <1>6 DEF ReadInv, AgreesWithTokens

\* After the last pair all are read.
LEMMA LastAgrees ==
  ASSUME TypeInv, ReadInv, AfterLastPair
  PROVE  ReadInv'
<1>1. /\ NssPassed /\ PartsRead /\ i > Len(parts)
      /\ UNCHANGED <<entry, src, out>> /\ outcome' = "ok" /\ pc' = "done"
  BY DEF AfterLastPair, ReadInv, Return
<1>2. PICK h \in Nat : i = 2 * h + 1 /\ i <= Len(parts) + 1 /\ PairsRead(parts, out, h)
  BY <1>1 DEF PartsRead
<1>3. Unmarked(parts) /\ TrimEnd(TokensOf(nss)) = TokensFor(parts)
  BY <1>1 DEF PartsRead
<1>4. Len(parts) = 2 * h
  <2>1. Len(parts) \in Nat
    BY <1>3, LenProperties DEF Unmarked
  <2> QED
    BY <1>1, <1>2, <2>1
<1>5. NssOk(TokensFor(parts)) /\ Components(TokensFor(parts)) = Abstract(out)
  BY <1>2, <1>3, <1>4, PairsAccepted, PairsComponents
<1>6. NssTokens = TokensFor(parts)
  BY <1>1, <1>3, <1>5, PassedOn
<1>7. entry = "urn" => MhdaPrefixed
  BY <1>1 DEF NssPassed
<1>8. AgreesWithTokens'
  BY <1>1, <1>5, <1>6, <1>7, AcceptanceAgrees
<1> QED
  BY <1>1, <1>8 DEF ReadInv

\* Every step keeps the agreement.
LEMMA ReadStep == TypeInv /\ ReadInv /\ [Next]_vars => ReadInv'
<1> SUFFICES ASSUME TypeInv, ReadInv, [Next]_vars
             PROVE  ReadInv'
  OBVIOUS
<1>1. CASE Enter
  <2>1. out' = <<>> /\ pc' \in {"map", "done"}
    BY <1>1 DEF Enter, Throw, ReadInv
  <2>2. CASE pc' = "map"
    BY <1>1, <2>1, <2>2, EnterPasses DEF ReadInv, AgreesWithTokens
  <2>3. CASE pc' = "done"
    <3>1. /\ UNCHANGED <<entry, src>> /\ outcome' = "invalid_urn"
          /\ entry = "urn" /\ ~ MhdaPrefixed
      BY <1>1, <2>3 DEF Enter, Throw, MhdaPrefixed
    <3>2. AgreesWithTokens'
      BY <3>1, RefusalAgrees
    <3> QED
      BY <2>3, <3>2 DEF ReadInv
  <2> QED
    BY <2>1, <2>2, <2>3
<1>2. CASE Begin
  BY <1>2, BeginAgrees
<1>3. CASE RejectPair
  BY <1>3, RejectAgrees
<1>4. CASE SkipPair \/ KeepPair
  BY <1>4, PairAgrees
<1>5. CASE AfterLastPair
  BY <1>5, LastAgrees
<1>6. CASE UNCHANGED vars
  <2>1. /\ NssTokens' = NssTokens /\ MhdaPrefixed' = MhdaPrefixed
        /\ UNCHANGED <<entry, src, nss, parts, i, out, pc, outcome>>
    BY <1>6, SameArgument DEF vars
  <2> QED
    BY <2>1 DEF ReadInv, NssPassed, PartsRead, AgreesWithTokens
<1> QED
  BY <1>1, <1>2, <1>3, <1>4, <1>5, <1>6 DEF Next

\* Reading the bytes and reading the tokens come to the same result, for every
\* set of texts: parse_urn and parse_nss accept exactly the texts that the token
\* model accepts, and find the same components (nss_parser.cpp:32-90).
THEOREM ReadingAgrees == Spec => []AgreesWithTokens
<1>1. Init => ReadInv
  BY DEF Init, ReadInv, AgreesWithTokens
<1>2. ReadInv => AgreesWithTokens
  BY DEF ReadInv
<1> QED
  BY <1>1, <1>2, ReadStep, Typed, PTL DEF Spec

=============================================================================
