---------------------------- MODULE HashPadding ----------------------------
(***************************************************************************)
(* How sha1 and sha256 cut a message into blocks: the full ones from the   *)
(* message itself, then one or two from a tail that ends in the padding.   *)
(* Compressing a block is left abstract, a step that absorbs it: what the  *)
(* digest depends on is the sequence of absorbed blocks.                   *)
(***************************************************************************)
EXTENDS Naturals, Sequences

CONSTANT Sizes   \* sizes of the messages hashed

ASSUME SizesAssumption == Sizes \subseteq Nat

VARIABLES
  n,          \* the size of the message
  absorbed,   \* the blocks compressed so far
  tail,       \* the buffer of two blocks
  pc          \* "blocks", "tail", "second", "done"

vars == <<n, absorbed, tail, pc>>

\* Byte i of a message, counted from 1: no two alike, and none like a byte of
\* the padding.
MessageByte(i) == 255 + i

\* uint8_t tail[128] = {0}
ZeroTail == [i \in 1 .. 128 |-> 0]

Init == n \in Sizes /\ absorbed = <<>> /\ tail = ZeroTail /\ pc = "blocks"

FullBlocks == n \div 64
Rem        == n - 64 * FullBlocks

\* The next full block, straight from the message.
CompressBlock ==
  /\ pc = "blocks"
  /\ Len(absorbed) < FullBlocks
  /\ absorbed' = Append(absorbed, [i \in 1 .. 64 |->
                                     MessageByte(64 * Len(absorbed) + i)])
  /\ UNCHANGED <<n, tail, pc>>

-----------------------------------------------------------------------------
(* The tail *)

\* Mutant: the marker is not counted.
PadLenTight == IF Rem <= 56 THEN 64 ELSE 128

\* One block if the marker and the length still fit behind the message.
PadLen == IF Rem < 56 THEN 64 ELSE 128

\* bits >> (8 * i), as a byte.
LengthByte(bits, i) ==
  LET Shift[k \in Nat] == IF k = 0 THEN bits ELSE Shift[k - 1] \div 256
  IN Shift[i] % 256

\* The rest of the message, the marker 0x80 and, last in the block it ends, the
\* length in bits, high byte first.  Where two of them meet, the later write
\* wins.
FillTail ==
  /\ pc = "blocks"
  /\ Len(absorbed) = FullBlocks
  /\ tail' = [i \in 1 .. 128 |->
                IF i \in PadLen - 7 .. PadLen THEN LengthByte(8 * n, PadLen - i)
                ELSE IF i = Rem + 1 THEN 128
                ELSE IF i <= Rem THEN MessageByte(64 * FullBlocks + i)
                ELSE tail[i]]
  /\ pc' = "tail"
  /\ UNCHANGED <<n, absorbed>>

CompressTail ==
  /\ pc = "tail"
  /\ absorbed' = Append(absorbed, [i \in 1 .. 64 |-> tail[i]])
  /\ pc' = IF PadLen = 128 THEN "second" ELSE "done"
  /\ UNCHANGED <<n, tail>>

CompressSecond ==
  /\ pc = "second"
  /\ absorbed' = Append(absorbed, [i \in 1 .. 64 |-> tail[64 + i]])
  /\ pc' = "done"
  /\ UNCHANGED <<n, tail>>

Next == CompressBlock \/ FillTail \/ CompressTail \/ CompressSecond

Spec == Init /\ [][Next]_vars

-----------------------------------------------------------------------------
(* Properties *)

\* FIPS 180-4, 5.1.1: the message, a bit 1, zeros, and the length in bits in
\* eight bytes, in as few blocks as hold them.
StandardBlocks(size) == (size + 1 + 8 + 63) \div 64

StandardByte(size, i) ==
  LET last == 64 * StandardBlocks(size)
  IN IF i <= size THEN MessageByte(i)
     ELSE IF i = size + 1 THEN 128
     ELSE IF i > last - 8 THEN LengthByte(8 * size, last - i)
     ELSE 0

\* What is absorbed is the message padded as the standard has it, whatever is
\* left for the last block: at no size does the length overwrite the marker or
\* the message, or stand in a block that is not compressed
\* (hash.cpp: tail[rem], pad_len).
PaddedAsStandard ==
  pc = "done" =>
    /\ Len(absorbed) = StandardBlocks(n)
    /\ \A b \in 1 .. Len(absorbed), i \in 1 .. 64 :
         absorbed[b][i] = StandardByte(n, 64 * (b - 1) + i)

=============================================================================
