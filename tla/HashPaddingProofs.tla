------------------------- MODULE HashPaddingProofs -------------------------
(***************************************************************************)
(* Proof that every message is padded as the standard has it.              *)
(***************************************************************************)
EXTENDS HashPadding, SequenceTheorems, TLAPS

\* A sequence of anything: what a block holds does not matter to Append.
IsSequence(s) == \E S : s \in Seq(S)

\* Appending keeps what was there.
LEMMA AppendTo ==
  ASSUME NEW s, IsSequence(s), NEW e
  PROVE  /\ IsSequence(Append(s, e))
         /\ Len(s) \in Nat
         /\ Len(Append(s, e)) = Len(s) + 1
         /\ \A i \in 1 .. Len(s) : Append(s, e)[i] = s[i]
         /\ Append(s, e)[Len(s) + 1] = e
<1>1. PICK S : s \in Seq(S)
  BY DEF IsSequence
<1> DEFINE T == S \cup {e}
<1>2. \A i \in 1 .. Len(s) : s[i] \in T
  BY <1>1, ElementOfSeq
<1>3. s \in Seq(T)
  BY <1>1, <1>2, SeqDef, LenProperties
<1>4. e \in T
  OBVIOUS
<1> HIDE DEF T
<1>5. Append(s, e) \in Seq(T)
  BY <1>3, <1>4, AppendProperties
<1>6. /\ Len(s) \in Nat
      /\ Len(Append(s, e)) = Len(s) + 1
      /\ \A i \in 1 .. Len(s) : Append(s, e)[i] = s[i]
      /\ Append(s, e)[Len(s) + 1] = e
  BY <1>3, <1>4, AppendProperties, LenProperties
<1> QED
  BY <1>5, <1>6 DEF IsSequence

\* The message fills the full blocks and Rem bytes; with the marker and the
\* length, the tail holds as many blocks as the standard has left.
LEMMA Division ==
  ASSUME n \in Nat
  PROVE  /\ FullBlocks \in Nat /\ Rem \in 0 .. 63
         /\ n = 64 * FullBlocks + Rem
         /\ PadLen \in {64, 128}
         /\ Rem + 9 <= PadLen
         /\ 64 * StandardBlocks(n) = 64 * FullBlocks + PadLen
         /\ PadLen = 64 => StandardBlocks(n) = FullBlocks + 1
         /\ PadLen = 128 => StandardBlocks(n) = FullBlocks + 2
BY SMT DEF FullBlocks, Rem, PadLen, StandardBlocks

\* blocks are the first count blocks of a message of that size, padded.
AreStandard(blocks, size, count) ==
  /\ IsSequence(blocks)
  /\ Len(blocks) = count
  /\ \A b \in 1 .. count, i \in 1 .. 64 :
       blocks[b][i] = StandardByte(size, 64 * (b - 1) + i)

\* Such blocks with the next one are such blocks.
LEMMA NextBlock ==
  ASSUME NEW blocks, NEW size, NEW count, AreStandard(blocks, size, count),
         NEW block,
         \A i \in 1 .. 64 : block[i] = StandardByte(size, 64 * count + i)
  PROVE  count \in Nat /\ AreStandard(Append(blocks, block), size, count + 1)
<1>1. /\ IsSequence(Append(blocks, block))
      /\ count \in Nat
      /\ Len(Append(blocks, block)) = count + 1
      /\ \A i \in 1 .. count : Append(blocks, block)[i] = blocks[i]
      /\ Append(blocks, block)[count + 1] = block
  <2>1. IsSequence(blocks) /\ Len(blocks) = count
    BY DEF AreStandard
  <2>2. /\ IsSequence(Append(blocks, block))
        /\ Len(blocks) \in Nat
        /\ Len(Append(blocks, block)) = Len(blocks) + 1
        /\ \A i \in 1 .. Len(blocks) : Append(blocks, block)[i] = blocks[i]
        /\ Append(blocks, block)[Len(blocks) + 1] = block
    BY <2>1, AppendTo
  <2> QED
    BY <2>1, <2>2
<1>3. count \in Nat
  BY <1>1
<1>2. ASSUME NEW b \in 1 .. count + 1, NEW i \in 1 .. 64
      PROVE  Append(blocks, block)[b][i] = StandardByte(size, 64 * (b - 1) + i)
  <2>1. CASE b = count + 1
    <3>1. b - 1 = count
      BY <1>1, <2>1, SMT
    <3> QED
      BY <1>1, <2>1, <3>1
  <2>2. CASE b # count + 1
    <3>1. b \in 1 .. count
      BY <1>3, <2>2, SMT
    <3>2. Append(blocks, block)[b] = blocks[b]
      BY <1>1, <3>1
    <3>3. blocks[b][i] = StandardByte(size, 64 * (b - 1) + i)
      BY <3>1 DEF AreStandard
    <3> QED
      BY <3>2, <3>3
  <2> QED
    BY <2>1, <2>2
<1> QED
  BY <1>1, <1>2 DEF AreStandard

\* The tail holds the rest of them.
TailIsRest ==
  \A i \in 1 .. PadLen : tail[i] = StandardByte(n, 64 * FullBlocks + i)

IInv ==
  /\ n \in Nat
  /\ pc \in {"blocks", "tail", "second", "done"}
  /\ pc = "blocks" => /\ Len(absorbed) <= FullBlocks
                      /\ AreStandard(absorbed, n, Len(absorbed))
                      /\ tail = ZeroTail
  /\ pc = "tail"   => AreStandard(absorbed, n, FullBlocks) /\ TailIsRest
  /\ pc = "second" => AreStandard(absorbed, n, FullBlocks + 1) /\ TailIsRest /\ PadLen = 128
  /\ pc = "done"   => AreStandard(absorbed, n, StandardBlocks(n))

\* The invariant holds before the first block.
LEMMA InitHolds == Init => IInv
<1> SUFFICES ASSUME Init PROVE IInv
  OBVIOUS
<1>1. n \in Nat
  BY SizesAssumption DEF Init
<1>2. IsSequence(absorbed) /\ Len(absorbed) = 0
  <2>1. <<>> \in Seq({})
    OBVIOUS
  <2> QED
    BY <2>1, EmptySeq DEF IsSequence, Init
<1> QED
  BY <1>1, <1>2, Division, SMT DEF Init, IInv, AreStandard

\* A full block of the message keeps it.
LEMMA CompressBlockKeeps ==
  ASSUME IInv, CompressBlock
  PROVE  IInv'
<1> DEFINE count == Len(absorbed)
           block == [i \in 1 .. 64 |-> MessageByte(64 * count + i)]
<1>1. /\ n \in Nat /\ AreStandard(absorbed, n, count) /\ count < FullBlocks
      /\ absorbed' = Append(absorbed, block)
      /\ n' = n /\ tail' = tail /\ pc' = pc /\ pc = "blocks" /\ tail = ZeroTail
  BY DEF IInv, CompressBlock
<1>2. FullBlocks \in Nat /\ Rem \in 0 .. 63 /\ n = 64 * FullBlocks + Rem
  BY <1>1, Division
<1>3. count \in Nat
  BY <1>1, AppendTo DEF AreStandard
<1>4. ASSUME NEW i \in 1 .. 64
      PROVE  block[i] = StandardByte(n, 64 * count + i)
  <2> HIDE DEF count
  <2>1. count + 1 <= FullBlocks
    BY <1>1, <1>2, <1>3, SMT
  <2>2. 64 * count + i <= n
    BY <1>2, <1>3, <2>1, SMT
  <2> QED
    BY <2>2 DEF StandardByte
<1> HIDE DEF block, count
<1>5. AreStandard(Append(absorbed, block), n, count + 1)
  BY <1>1, <1>4, NextBlock
<1>6. Len(absorbed') = count + 1
  BY <1>1, <1>5 DEF AreStandard
<1>7. FullBlocks' = FullBlocks
  BY <1>1 DEF FullBlocks
<1>8. count + 1 <= FullBlocks
  BY <1>1, <1>2, <1>3, SMT
<1> QED
  BY <1>1, <1>5, <1>6, <1>7, <1>8 DEF IInv

\* In the last blocks every byte is the standard's: the four cases of FillTail
\* are the four of StandardByte.
LEMMA FillTailKeeps ==
  ASSUME IInv, FillTail
  PROVE  IInv'
<1>1. /\ n \in Nat /\ AreStandard(absorbed, n, FullBlocks)
      /\ n' = n /\ absorbed' = absorbed /\ pc' = "tail" /\ tail = ZeroTail
  BY DEF IInv, FillTail
<1>0. /\ FullBlocks \in Nat /\ Rem \in 0 .. 63 /\ n = 64 * FullBlocks + Rem
      /\ PadLen \in {64, 128} /\ Rem + 9 <= PadLen
      /\ 64 * StandardBlocks(n) = 64 * FullBlocks + PadLen
  BY <1>1, Division
<1>2. ASSUME NEW i \in 1 .. PadLen
      PROVE  tail'[i] = StandardByte(n, 64 * FullBlocks + i)
  <2>1. i \in 1 .. 128 /\ i \in Nat
    BY <1>0, SMT
  <2>2. ZeroTail[i] = 0
    BY <2>1 DEF ZeroTail
  <2>3. tail'[i] = IF i \in PadLen - 7 .. PadLen
                     THEN LengthByte(8 * n, PadLen - i)
                   ELSE IF i = Rem + 1 THEN 128
                   ELSE IF i <= Rem THEN MessageByte(64 * FullBlocks + i)
                   ELSE 0
    BY <1>1, <2>1, <2>2 DEF FillTail
  <2>4. CASE i \in PadLen - 7 .. PadLen
    <3>1. /\ ~ (64 * FullBlocks + i <= n)
          /\ 64 * FullBlocks + i # n + 1
          /\ 64 * FullBlocks + i > 64 * StandardBlocks(n) - 8
          /\ 64 * StandardBlocks(n) - (64 * FullBlocks + i) = PadLen - i
      BY <1>0, <2>1, <2>4, SMT
    <3> QED
      BY <2>3, <2>4, <3>1 DEF StandardByte
  <2>5. CASE i = Rem + 1
    <3>1. /\ i \notin PadLen - 7 .. PadLen
          /\ ~ (64 * FullBlocks + i <= n)
          /\ 64 * FullBlocks + i = n + 1
      BY <1>0, <2>1, <2>5, SMT
    <3> QED
      BY <2>3, <2>5, <3>1 DEF StandardByte
  <2>6. CASE i <= Rem
    <3>1. /\ i \notin PadLen - 7 .. PadLen
          /\ i # Rem + 1
          /\ 64 * FullBlocks + i <= n
      BY <1>0, <2>1, <2>6, SMT
    <3> QED
      BY <2>3, <2>6, <3>1 DEF StandardByte
  <2>7. CASE i \notin PadLen - 7 .. PadLen /\ i # Rem + 1 /\ ~ (i <= Rem)
    <3>1. /\ ~ (64 * FullBlocks + i <= n)
          /\ 64 * FullBlocks + i # n + 1
          /\ ~ (64 * FullBlocks + i > 64 * StandardBlocks(n) - 8)
      BY <1>0, <2>1, <2>7, SMT
    <3> QED
      BY <2>3, <2>7, <3>1 DEF StandardByte
  <2> QED
    BY <2>4, <2>5, <2>6, <2>7
<1>3. TailIsRest' /\ FullBlocks' = FullBlocks
  BY <1>1, <1>2 DEF TailIsRest, PadLen, Rem, FullBlocks
<1> QED
  BY <1>1, <1>3 DEF IInv

\* So does the first block of the tail.
LEMMA CompressTailKeeps ==
  ASSUME IInv, CompressTail
  PROVE  IInv'
<1> DEFINE block == [i \in 1 .. 64 |-> tail[i]]
<1>1. /\ n \in Nat /\ AreStandard(absorbed, n, FullBlocks) /\ TailIsRest
      /\ absorbed' = Append(absorbed, block) /\ n' = n /\ tail' = tail
      /\ pc' = IF PadLen = 128 THEN "second" ELSE "done"
  BY DEF IInv, CompressTail
<1>2. /\ FullBlocks \in Nat /\ PadLen \in {64, 128}
      /\ PadLen = 64 => StandardBlocks(n) = FullBlocks + 1
  BY <1>1, Division
<1>3. ASSUME NEW i \in 1 .. 64
      PROVE  block[i] = StandardByte(n, 64 * FullBlocks + i)
  <2>1. i \in 1 .. PadLen
    BY <1>2, SMT
  <2> QED
    BY <1>1, <2>1 DEF TailIsRest
<1> HIDE DEF block
<1>4. AreStandard(absorbed', n, FullBlocks + 1)
  BY <1>1, <1>3, NextBlock
<1>5. FullBlocks' = FullBlocks /\ PadLen' = PadLen
  BY <1>1 DEF FullBlocks, PadLen, Rem
<1>6. CASE PadLen = 128
  <2>1. TailIsRest'
    BY <1>1, <1>5 DEF TailIsRest
  <2> QED
    BY <1>1, <1>4, <1>5, <1>6, <2>1 DEF IInv
<1>7. CASE PadLen = 64
  <2>1. pc' = "done"
    BY <1>1, <1>7
  <2>2. AreStandard(absorbed', n, StandardBlocks(n))
    BY <1>2, <1>4, <1>7
  <2> QED
    BY <1>1, <2>1, <2>2 DEF IInv
<1> QED
  BY <1>2, <1>6, <1>7

\* So does the second.
LEMMA CompressSecondKeeps ==
  ASSUME IInv, CompressSecond
  PROVE  IInv'
<1> DEFINE block == [i \in 1 .. 64 |-> tail[64 + i]]
<1>1. /\ n \in Nat /\ AreStandard(absorbed, n, FullBlocks + 1)
      /\ TailIsRest /\ PadLen = 128
      /\ absorbed' = Append(absorbed, block) /\ n' = n
      /\ pc' = "done"
  BY DEF IInv, CompressSecond
<1>2. FullBlocks \in Nat /\ StandardBlocks(n) = FullBlocks + 2
  BY <1>1, Division
<1>3. ASSUME NEW i \in 1 .. 64
      PROVE  block[i] = StandardByte(n, 64 * (FullBlocks + 1) + i)
  <2>1. /\ 64 + i \in 1 .. PadLen
        /\ 64 * FullBlocks + (64 + i) = 64 * (FullBlocks + 1) + i
    BY <1>1, <1>2, SMT
  <2>2. tail[64 + i] = StandardByte(n, 64 * FullBlocks + (64 + i))
    BY <1>1, <2>1 DEF TailIsRest
  <2> QED
    BY <2>1, <2>2
<1> HIDE DEF block
<1>4. AreStandard(absorbed', n, (FullBlocks + 1) + 1)
  BY <1>1, <1>3, NextBlock
<1>5. (FullBlocks + 1) + 1 = StandardBlocks(n)
  BY <1>2, SMT
<1> QED
  BY <1>1, <1>4, <1>5 DEF IInv

\* Every step keeps it.
LEMMA StepHolds == IInv /\ [Next]_vars => IInv'
<1> SUFFICES ASSUME IInv, [Next]_vars PROVE IInv'
  OBVIOUS
<1>1. CASE CompressBlock
  BY <1>1, CompressBlockKeeps
<1>2. CASE FillTail
  BY <1>2, FillTailKeeps
<1>3. CASE CompressTail
  BY <1>3, CompressTailKeeps
<1>4. CASE CompressSecond
  BY <1>4, CompressSecondKeeps
<1>5. CASE UNCHANGED vars
  <2>1. UNCHANGED <<n, absorbed, tail, pc, FullBlocks, PadLen>>
    BY <1>5 DEF vars, FullBlocks, PadLen, Rem
  <2>2. TailIsRest' <=> TailIsRest
    BY <2>1 DEF TailIsRest
  <2> QED
    BY <2>1, <2>2 DEF IInv
<1> QED
  BY <1>1, <1>2, <1>3, <1>4, <1>5 DEF Next

-----------------------------------------------------------------------------

\* Whatever the size of the message, sha1 and sha256 compress exactly the blocks
\* of its standard padding.
THEOREM PaddingIsStandard == Spec => []PaddedAsStandard
<1>1. IInv => PaddedAsStandard
  BY DEF IInv, AreStandard, PaddedAsStandard
<1> QED
  BY <1>1, InitHolds, StepHolds, PTL DEF Spec

=============================================================================
