---------------------------- MODULE CodingProofs ----------------------------
(***************************************************************************)
(* For every byte and word width, every first buffer size that holds a     *)
(* word, and all codes: the bitstream is type correct, never writes past   *)
(* its buffer, and a decoder reads back from it just what was put.         *)
(*                                                                         *)
(* The last proof goes through Read, what a decoder reads of the bytes     *)
(* written, of those still to be put and of the bits pending in the word.  *)
(* A continuation of the stream is read by itself once the stream does not *)
(* end in half a pair (Whole, DecodedConcat); flattening the bytes of a    *)
(* word gives the word back (LowBytes), shifting a code in appends it to   *)
(* the pending bits (LowShiftIn, CodeSplit), and the carries of MayStuff   *)
(* miss no all-ones byte (NoStuffing).  So each call appends to Read what  *)
(* it promises, and the loops of emit_qword and flush leave Read alone.    *)
(*                                                                         *)
(* And of the code that feeds it, for all pixels, formats, qualities and   *)
(* builds: the conversion is close to the exact one, the transform of the  *)
(* vector builds is the scalar one's, and a strip of whole MCUs is walked  *)
(* to its end.  The invariant is CodingShape; SumsNear bounds the sums a   *)
(* chroma sample is the mean of, LanesSuffice the values of one pass of    *)
(* the transform.                                                          *)
(***************************************************************************)
EXTENDS Bitstream, BlockCoding, SequenceLemmas

\* The inductive invariant: the buffer never shrinks below its first size, which
\* is why one doubling is enough.
Capacity == len >= InitLen /\ BufferNotOverrun

\* A word has at least one bit.
LEMMA WordBitsNat == WordBits \in Nat \ {0}
  <1>1. ByteBits \in Nat \ {0} /\ WordBytes \in Nat \ {0}  BY BitstreamAssumption
  <1> QED  BY <1>1, SMT DEF WordBits

\* A product bound nonlinear arithmetic has to be helped with.
LEMMA ByteWithinWord ==
  ASSUME NEW i \in 1 .. WordBytes
  PROVE  /\ ByteBits * (i - 1) + 1 \in 1 .. WordBits
         /\ ByteBits * i \in 1 .. WordBits
         /\ ByteBits * i - (ByteBits * (i - 1) + 1) + 1 = ByteBits
  <1>1. ByteBits \in Nat \ {0} /\ WordBytes \in Nat \ {0}  BY BitstreamAssumption
  <1>2. i - 1 \in Nat /\ WordBytes - i \in Nat  BY <1>1, SMT
  <1>3. ByteBits * (i - 1) \in Nat /\ ByteBits * (WordBytes - i) \in Nat  BY <1>1, <1>2, SMT
  <1>4. ByteBits * i = ByteBits * (i - 1) + ByteBits  BY <1>1, SMT
  <1>5. WordBits = ByteBits * i + ByteBits * (WordBytes - i)  BY <1>1, SMT DEF WordBits
  <1> QED  BY <1>1, <1>3, <1>4, <1>5, SMT

\* The bytes of a word are bytes.
LEMMA ByteOfWord ==
  ASSUME NEW w \in Word, NEW i \in 1 .. WordBytes
  PROVE  ByteOf(w, i) \in Byte
  <1> DEFINE m == ByteBits * (i - 1) + 1
             n == ByteBits * i
  <1>1. m \in 1 .. WordBits /\ n \in 1 .. WordBits /\ n - m + 1 = ByteBits  BY ByteWithinWord
  <1>2. ByteBits \in Nat \ {0}  BY BitstreamAssumption
  <1> HIDE DEF m, n
  <1>3. m \in Int /\ n \in Int /\ m <= n  BY <1>1, <1>2, WordBitsNat, SMT
  <1>4. \A j \in m .. n : w[j] \in Bit
    <2> TAKE j \in m .. n
    <2>1. j \in 1 .. WordBits  BY <1>1, WordBitsNat, SMT
    <2> QED  BY <2>1 DEF Word
  <1>5. SubSeq(w, m, n) \in Seq(Bit) /\ Len(SubSeq(w, m, n)) = ByteBits
    BY <1>1, <1>3, <1>4, SubSeqProperties
  <1>6. SubSeq(w, m, n) \in Byte  BY <1>2, <1>5, SeqIsFunction DEF Byte
  <1> QED  BY <1>6 DEF ByteOf, m, n

\* A word is WordBytes bytes.
LEMMA BytesOfWord ==
  ASSUME NEW w \in Word
  PROVE  BytesOf(w) \in Seq(Byte) /\ Len(BytesOf(w)) = WordBytes
  <1>1. WordBytes \in Nat  BY BitstreamAssumption
  <1>2. BytesOf(w) \in [1 .. WordBytes -> Byte]  BY ByteOfWord DEF BytesOf
  <1> QED  BY <1>1, <1>2, FunctionIsSeq

\* Shifting bits into a word gives a word.
LEMMA ShiftInWord ==
  ASSUME NEW w \in Word, NEW s \in Seq(Bit)
  PROVE  ShiftIn(w, s) \in Word
  <1>1. WordBits \in Nat  BY WordBitsNat
  <1>2. w \in Seq(Bit) /\ Len(w) = WordBits  BY <1>1, FunctionIsSeq DEF Word
  <1>3. Len(s) \in Nat  BY LenProperties
  <1>4. /\ w \o s \in Seq(Bit)
        /\ Len(w \o s) = WordBits + Len(s)
    BY <1>2, ConcatProperties
  <1>5. \A j \in Len(s) + 1 .. Len(s) + WordBits : (w \o s)[j] \in Bit
    <2> TAKE j \in Len(s) + 1 .. Len(s) + WordBits
    <2>1. j \in 1 .. Len(w \o s)  BY <1>1, <1>3, <1>4, SMT
    <2> QED  BY <2>1, <1>4, ElementOfSeq
  <1>6. Len(s) + 1 \in Int /\ Len(s) + WordBits \in Int  BY <1>1, <1>3, SMT
  <1>7. /\ ShiftIn(w, s) \in Seq(Bit)
        /\ Len(ShiftIn(w, s)) = IF Len(s) + 1 <= Len(s) + WordBits
                                  THEN Len(s) + WordBits - (Len(s) + 1) + 1 ELSE 0
    BY <1>2, <1>5, <1>6, SubSeqProperties DEF ShiftIn
  <1>8. Len(ShiftIn(w, s)) = WordBits  BY <1>3, <1>7, WordBitsNat, SMT
  <1> QED  BY <1>1, <1>7, <1>8, SeqIsFunction DEF Word

\* The constant words and bytes are words and bytes.
LEMMA ConstantBits ==
  /\ Zeros(WordBits) \in Word
  /\ Zeros(ByteBits) \in Byte
  /\ FF \in Byte
  /\ \A n \in Nat : Ones(n) \in Seq(Bit)
  <1>1. Zeros(WordBits) \in Word  BY DEF Zeros, Word, Bit
  <1>2. Zeros(ByteBits) \in Byte  BY DEF Zeros, Byte, Bit
  <1>3. FF \in Byte  BY DEF FF, Ones, Byte, Bit
  <1>4. ASSUME NEW n \in Nat  PROVE Ones(n) \in Seq(Bit)
    <2>1. Ones(n) \in [1 .. n -> Bit]  BY DEF Ones, Bit
    <2> QED  BY <2>1, FunctionIsSeq
  <1> QED  BY <1>1, <1>2, <1>3, <1>4

\* A code is a sequence of bits that fits the word.
LEMMA CodeIsSeq ==
  ASSUME NEW c \in Codes
  PROVE  c \in Seq(Bit) /\ Len(c) \in 1 .. WordBits
  BY BitstreamAssumption

\* The number of bytes flush() emits, and the bits it pads them with.
LEMMA FlushLength ==
  ASSUME NEW p \in 0 .. WordBits
  PROVE  LET n == (p + ByteBits - 1) \div ByteBits
         IN n \in 0 .. WordBytes /\ ByteBits * n - p \in Nat
  <1> DEFINE n == (p + ByteBits - 1) \div ByteBits
  <1>1. ByteBits \in Nat \ {0} /\ WordBytes \in Nat \ {0}  BY BitstreamAssumption
  <1>2. p \in Nat /\ p <= ByteBits * WordBytes  BY <1>1, SMT DEF WordBits
  <1>3. p + ByteBits - 1 \in Nat  BY <1>1, <1>2, SMT
  <1>4. n \in Nat /\ ByteBits * n <= p + ByteBits - 1 /\ p + ByteBits - 1 < ByteBits * n + ByteBits
    BY <1>1, <1>3, SMT
  <1> HIDE DEF n
  <1>5. ByteBits * n - p \in Nat  BY <1>1, <1>2, <1>4, SMT
  <1>6. n <= WordBytes
    <2>1. SUFFICES ASSUME n >= WordBytes + 1  PROVE FALSE  BY <1>1, <1>4, SMT
    <2>2. n - (WordBytes + 1) \in Nat  BY <1>1, <1>4, <2>1, SMT
    <2>3. ByteBits * (n - (WordBytes + 1)) \in Nat  BY <1>1, <2>2, SMT
    <2>4. ByteBits * n = ByteBits * WordBytes + ByteBits + ByteBits * (n - (WordBytes + 1))
      BY <1>1, <1>4, SMT
    <2> QED  BY <1>1, <1>2, <1>4, <2>3, <2>4, SMT
  <1> QED  BY <1>1, <1>4, <1>5, <1>6, SMT DEF n

\* What every action that writes relies on: s fits into the buffer Store leaves.
LEMMA StoreFits ==
  ASSUME TypeOK, Capacity, NEW s \in Seq(Byte), Len(s) <= InitLen, Store(s)
  PROVE  /\ buf' \in Seq(Byte)
         /\ Len(buf') = Len(buf) + Len(s)
         /\ len' \in Nat
         /\ Capacity'
  <1>1. InitLen \in Nat  BY BitstreamAssumption
  <1>2. buf \in Seq(Byte) /\ len \in Nat  BY DEF TypeOK
  <1>3. Len(buf) \in Nat /\ Len(s) \in Nat  BY <1>2, LenProperties
  <1>4. buf' = buf \o s  BY DEF Store
  <1>5. buf' \in Seq(Byte) /\ Len(buf') = Len(buf) + Len(s)  BY <1>2, <1>4, ConcatProperties
  <1>6. len' = IF Len(buf) + Len(s) > len THEN len + len ELSE len  BY DEF Store
  <1>7. len >= InitLen /\ Len(buf) <= len  BY DEF Capacity, BufferNotOverrun
  <1>8. len' \in Nat /\ len' >= InitLen /\ Len(buf') <= len'
    BY <1>1, <1>2, <1>3, <1>5, <1>6, <1>7, SMT
  <1> QED  BY <1>5, <1>8 DEF Capacity, BufferNotOverrun

\* flush() leaves an empty word and whole bytes to be put.
LEMMA FlushTyped ==
  ASSUME TypeOK, Flush
  PROVE  /\ bits' \in 0 .. WordBits
         /\ tmp' \in Word
         /\ todo' \in Seq(Byte)
  <1> DEFINE pending == WordBits - bits
             n == (pending + ByteBits - 1) \div ByteBits
             padded == ShiftIn(tmp, Ones(ByteBits * n - pending))
  <1>1. WordBits \in Nat \ {0}  BY WordBitsNat
  <1>2. bits \in 0 .. WordBits /\ tmp \in Word  BY DEF TypeOK
  <1>3. pending \in 0 .. WordBits  BY <1>1, <1>2, SMT
  <1>4. n \in 0 .. WordBytes /\ ByteBits * n - pending \in Nat
    <2> HIDE DEF pending
    <2> QED  BY <1>3, FlushLength
  <1>5. padded \in Word
    <2> HIDE DEF pending, n
    <2> QED  BY <1>2, <1>4, ShiftInWord, ConstantBits
  <1>6. todo' = [i \in 1 .. n |-> ByteOf(padded, WordBytes - n + i)]  BY DEF Flush
  <1>7. todo' \in Seq(Byte)
    <2> HIDE DEF pending, n, padded
    <2>1. WordBytes \in Nat  BY BitstreamAssumption
    <2>2. n \in Nat  BY <2>1, <1>4, SMT
    <2>3. \A i \in 1 .. n : WordBytes - n + i \in 1 .. WordBytes  BY <1>4, <2>1, <2>2, SMT
    <2>4. todo' \in [1 .. n -> Byte]  BY <1>5, <1>6, <2>3, ByteOfWord
    <2> QED  BY <2>2, <2>4, FunctionIsSeq
  <1>8. tmp' = Zeros(WordBits) /\ bits' = WordBits  BY DEF Flush
  <1> QED  BY <1>1, <1>7, <1>8, ConstantBits, SMT

-----------------------------------------------------------------------------
\* A new stream is type correct and within its buffer.
THEOREM InitTyped == Init => TypeOK /\ Capacity
  <1> SUFFICES ASSUME Init PROVE TypeOK /\ Capacity  OBVIOUS
  <1>1. WordBits \in Nat \ {0}  BY WordBitsNat
  <1>2. InitLen \in Nat  BY BitstreamAssumption
  <1>3. <<>> \in Seq(Byte) /\ Len(<<>>) = 0  BY EmptySeq
  <1>4. bits \in 0 .. WordBits  BY <1>1, SMT DEF Init
  <1> QED  BY <1>2, <1>3, <1>4, ConstantBits, SMT DEF Init, TypeOK, Capacity, BufferNotOverrun

\* Every step keeps the stream type correct and within its buffer.
THEOREM StepTyped == TypeOK /\ Capacity /\ [Next]_vars => (TypeOK /\ Capacity)'
  <1> SUFFICES ASSUME TypeOK, Capacity, [Next]_vars PROVE (TypeOK /\ Capacity)'  OBVIOUS
  <1>1. /\ WordBits \in Nat \ {0}
        /\ InitLen \in Nat /\ InitLen >= WordBytes /\ InitLen >= 2
        /\ WordBytes \in Nat \ {0}
    BY WordBitsNat, BitstreamAssumption
  <1>2. /\ bits \in 0 .. WordBits /\ tmp \in Word /\ buf \in Seq(Byte) /\ len \in Nat
        /\ todo \in Seq(Byte) /\ hdr \in 0 .. Len(buf)
        /\ call \in {"none", "put_bits", "put_RST", "get_len", "finalize", "copy"}
        /\ mark \in RSTs \cup {EOI}
    BY DEF TypeOK
  <1>3. Len(buf) \in Nat  BY <1>2, LenProperties
  <1>4. <<>> \in Seq(Byte) /\ Len(<<>>) = 0  BY EmptySeq
  <1>5. ASSUME NEW c \in Codes, PutBitsRoom(c)  PROVE (TypeOK /\ Capacity)'
    <2>1. c \in Seq(Bit) /\ Len(c) \in 1 .. WordBits  BY CodeIsSeq
    <2>2. tmp' \in Word  BY <1>2, <1>5, <2>1, ShiftInWord DEF PutBitsRoom
    <2>3. bits' \in 0 .. WordBits  BY <1>1, <1>2, <1>5, <2>1, SMT DEF PutBitsRoom
    <2> QED  BY <1>5, <2>2, <2>3 DEF PutBitsRoom, TypeOK, Capacity, BufferNotOverrun
  <1>6. ASSUME NEW c \in Codes, PutBitsFull(c)  PROVE (TypeOK /\ Capacity)'
    <2> DEFINE w == ShiftIn(tmp, SubSeq(c, 1, bits))
    <2>1. c \in Seq(Bit) /\ Len(c) \in 1 .. WordBits  BY CodeIsSeq
    <2>2. Len(c) > bits  BY <1>6 DEF PutBitsFull
    <2>3. w \in Word
      <3>1. 1 \in Int /\ bits \in Int  BY <1>2, SMT
      <3>2. \A j \in 1 .. bits : c[j] \in Bit
        <4> TAKE j \in 1 .. bits
        <4>1. j \in 1 .. Len(c)  BY <1>2, <2>1, <2>2, SMT
        <4> QED  BY <2>1, <4>1, ElementOfSeq
      <3>3. SubSeq(c, 1, bits) \in Seq(Bit)  BY <3>1, <3>2, SubSeqProperties
      <3> QED  BY <1>2, <3>3, ShiftInWord
    <2>4. BytesOf(w) \in Seq(Byte) /\ Len(BytesOf(w)) = WordBytes
      <3> HIDE DEF w
      <3> QED  BY <2>3, BytesOfWord
    <2>5. tmp' \in Word
      <3>1. tmp' = ShiftIn(Zeros(WordBits), c)  BY <1>6 DEF PutBitsFull
      <3> QED  BY <2>1, <3>1, ShiftInWord, ConstantBits
    <2>6. bits' \in 0 .. WordBits  BY <1>1, <1>2, <1>6, <2>1, <2>2, SMT DEF PutBitsFull
    <2>7. CASE MayStuff(w)
      <3>1. todo' = BytesOf(w) /\ call' = "put_bits" /\ buf' = buf /\ len' = len
        BY <1>6, <2>7 DEF PutBitsFull
      <3>2. mark' = mark /\ hdr' = hdr  BY <1>6 DEF PutBitsFull
      <3> HIDE DEF w
      <3> QED  BY <1>2, <2>4, <2>5, <2>6, <3>1, <3>2 DEF TypeOK, Capacity, BufferNotOverrun
    <2>8. CASE ~MayStuff(w)
      <3>1. Store(BytesOf(w)) /\ todo' = todo /\ call' = call  BY <1>6, <2>8 DEF PutBitsFull
      <3>2. mark' = mark /\ hdr' = hdr  BY <1>6 DEF PutBitsFull
      <3> HIDE DEF w
      <3>3. /\ buf' \in Seq(Byte) /\ Len(buf') = Len(buf) + WordBytes
            /\ len' \in Nat /\ Capacity'
        BY <1>1, <2>4, <3>1, StoreFits
      <3>4. hdr' \in 0 .. Len(buf')  BY <1>1, <1>2, <1>3, <3>2, <3>3, SMT
      <3> QED  BY <1>2, <2>5, <2>6, <3>1, <3>2, <3>3, <3>4 DEF TypeOK
    <2> QED  BY <2>7, <2>8
  <1>7. CASE EmitByte
    <2> DEFINE s == IF Head(todo) = FF THEN <<FF, Zeros(ByteBits)>> ELSE <<Head(todo)>>
    <2>1. todo # <<>> /\ Store(s) /\ todo' = Tail(todo)  BY <1>7 DEF EmitByte
    <2>2. Head(todo) \in Byte /\ Tail(todo) \in Seq(Byte)  BY <1>2, <2>1, HeadTailProperties
    <2>3. s \in Seq(Byte) /\ Len(s) <= 2
      <3>1. FF \in Byte /\ Zeros(ByteBits) \in Byte  BY ConstantBits
      <3>2. CASE Head(todo) = FF
        <4>1. s = <<FF, Zeros(ByteBits)>>  BY <3>2
        <4> HIDE DEF s
        <4> QED  BY <3>1, <4>1
      <3>3. CASE Head(todo) # FF
        <4>1. s = <<Head(todo)>>  BY <3>3
        <4> HIDE DEF s
        <4> QED  BY <2>2, <4>1
      <3> QED  BY <3>2, <3>3
    <2> HIDE DEF s
    <2>4. Len(s) \in Nat  BY <2>3, LenProperties
    <2>5. Len(s) <= InitLen  BY <1>1, <2>3, <2>4, SMT
    <2>6. /\ buf' \in Seq(Byte) /\ Len(buf') = Len(buf) + Len(s)
          /\ len' \in Nat /\ Capacity'
      BY <2>1, <2>3, <2>5, StoreFits
    <2>7. bits' = bits /\ tmp' = tmp /\ mark' = mark /\ hdr' = hdr  BY <1>7 DEF EmitByte
    <2>8. hdr' \in 0 .. Len(buf')  BY <1>2, <1>3, <2>4, <2>6, <2>7, SMT
    <2>9. call' \in {"none", "put_bits", "put_RST", "get_len", "finalize", "copy"}
      BY <1>2, <1>7 DEF EmitByte
    <2> QED  BY <1>2, <2>1, <2>2, <2>6, <2>7, <2>8, <2>9 DEF TypeOK
  <1>8. ASSUME Flush, mark' \in RSTs \cup {EOI},
               call' \in {"none", "put_bits", "put_RST", "get_len", "finalize", "copy"}
        PROVE  (TypeOK /\ Capacity)'
    <2>1. bits' \in 0 .. WordBits /\ tmp' \in Word /\ todo' \in Seq(Byte)  BY <1>8, FlushTyped
    <2>2. buf' = buf /\ len' = len /\ hdr' = hdr  BY <1>8 DEF Flush
    <2> QED  BY <1>2, <1>8, <2>1, <2>2 DEF TypeOK, Capacity, BufferNotOverrun
  <1>9. ASSUME NEW m \in RSTs, PutRST(m)  PROVE (TypeOK /\ Capacity)'
    <2>1. Flush /\ mark' = m /\ call' = "put_RST"  BY <1>9 DEF PutRST
    <2> QED  BY <1>8, <2>1
  <1>10. CASE GetLen
    <2>1. Flush /\ mark' = mark /\ call' = "get_len"  BY <1>10 DEF GetLen
    <2> QED  BY <1>2, <1>8, <2>1
  <1>11. CASE Finalize
    <2>1. Flush /\ mark' = EOI /\ call' = "finalize"  BY <1>11 DEF Finalize
    <2> QED  BY <1>8, <2>1
  <1>12. CASE LenReturned
    BY <1>2, <1>12 DEF LenReturned, TypeOK, Capacity, BufferNotOverrun
  <1>13. CASE PutMarker
    <2>1. Store(<<FF, mark>>)  BY <1>13 DEF PutMarker
    <2>2. FF \in Byte /\ mark \in Byte  BY <1>2, ConstantBits, BitstreamAssumption
    <2>3. <<FF, mark>> \in Seq(Byte) /\ Len(<<FF, mark>>) = 2  BY <2>2
    <2>4. /\ buf' \in Seq(Byte) /\ Len(buf') = Len(buf) + 2
          /\ len' \in Nat /\ Capacity'
      BY <1>1, <2>1, <2>3, StoreFits
    <2>5. /\ bits' = bits /\ tmp' = tmp /\ todo' = todo /\ mark' = mark /\ hdr' = hdr
          /\ call' \in {"none", "copy"}
      BY <1>13 DEF PutMarker
    <2>6. hdr' \in 0 .. Len(buf')  BY <1>2, <1>3, <2>4, <2>5, SMT
    <2> QED  BY <1>2, <2>4, <2>5, <2>6 DEF TypeOK
  <1>14. CASE Copy
    BY <1>1, <1>2, <1>4, <1>14, SMT DEF Copy, TypeOK, Capacity, BufferNotOverrun
  <1>15. ASSUME NEW v \in HeaderByte, PutHeaderByte(v)  PROVE (TypeOK /\ Capacity)'
    <2>1. Store(<<v>>) /\ Len(buf) = hdr /\ hdr' = hdr + 1  BY <1>15 DEF PutHeaderByte
    <2>2. v \in Byte  BY BitstreamAssumption
    <2>3. <<v>> \in Seq(Byte) /\ Len(<<v>>) = 1  BY <2>2
    <2>4. 1 <= InitLen  BY <1>1, SMT
    <2>5. /\ buf' \in Seq(Byte) /\ Len(buf') = Len(buf) + 1
          /\ len' \in Nat /\ Capacity'
      BY <2>1, <2>3, <2>4, StoreFits
    <2>6. bits' = bits /\ tmp' = tmp /\ todo' = todo /\ mark' = mark /\ call' = call
      BY <1>15 DEF PutHeaderByte
    <2>7. hdr' \in 0 .. Len(buf')  BY <1>2, <1>3, <2>1, <2>5, SMT
    <2> QED  BY <1>2, <2>5, <2>6, <2>7 DEF TypeOK
  <1>16. CASE Reset
    <2>1. bits' \in 0 .. WordBits /\ tmp' \in Word  BY <1>1, <1>16, ConstantBits, SMT DEF Reset
    <2> QED  BY <1>1, <1>2, <1>4, <1>16, <2>1, SMT DEF Reset, TypeOK, Capacity, BufferNotOverrun
  <1>17. CASE UNCHANGED vars
    BY <1>2, <1>17 DEF vars, TypeOK, Capacity, BufferNotOverrun
  <1> QED
    BY <1>5, <1>6, <1>7, <1>9, <1>10, <1>11, <1>12, <1>13, <1>14, <1>15, <1>16, <1>17 DEF Next

\* The bitstream's variables keep their types: in particular bits, which put_bits
\* lets go negative for a moment, is back in 0 .. 64 whenever a call returns
\* (bitstream.hpp put_bits, flush).
THEOREM StreamTyped == Spec => []TypeOK
  <1>1. Init => TypeOK /\ Capacity  BY InitTyped
  <1>2. TypeOK /\ Capacity /\ [Next]_vars => (TypeOK /\ Capacity)'  BY StepTyped
  <1> QED  BY <1>1, <1>2, PTL DEF Spec

\* No call writes past the end of the buffer, whatever is put and however often
\* the stream is reset: put_qword() checks for eight bytes and doubles once, which
\* is enough because the buffer never gets smaller than it began
\* (bitstream.hpp put_qword, put_byte, expand).
THEOREM NeverOverrun == Spec => []BufferNotOverrun
  <1>1. Init => TypeOK /\ Capacity  BY InitTyped
  <1>2. TypeOK /\ Capacity /\ [Next]_vars => (TypeOK /\ Capacity)'  BY StepTyped
  <1>3. Capacity => BufferNotOverrun  BY DEF Capacity
  <1> QED  BY <1>1, <1>2, <1>3, PTL DEF Spec

-----------------------------------------------------------------------------
(* What a decoder reads: the symbols of bits. *)

\* The symbols of the decoder's view.
Sym == [kind : {"bit", "header", "marker"}, v : Seq(Bit)]

\* The symbols of a sequence of bits: one for each.
LEMMA BitSymsOf ==
  \A s \in Seq(Bit) :
     /\ BitSyms(s) \in Seq(Sym)
     /\ Len(BitSyms(s)) = Len(s)
     /\ \A i \in 1 .. Len(s) : BitSyms(s)[i] = [kind |-> "bit", v |-> <<s[i]>>]
  <1> SUFFICES ASSUME NEW s \in Seq(Bit)
               PROVE  /\ BitSyms(s) \in Seq(Sym)
                      /\ Len(BitSyms(s)) = Len(s)
                      /\ \A i \in 1 .. Len(s) : BitSyms(s)[i] = [kind |-> "bit", v |-> <<s[i]>>]
    OBVIOUS
  <1> DEFINE n == Len(s)
  <1>1. n \in Nat /\ DOMAIN s = 1 .. n /\ s \in [1 .. n -> Bit]
    BY LenProperties
  <1> HIDE DEF n
  <1>2. BitSyms(s) = [i \in 1 .. n |-> [kind |-> "bit", v |-> <<s[i]>>]]
    BY <1>1 DEF BitSyms
  <1>3. ASSUME NEW i \in 1 .. n PROVE [kind |-> "bit", v |-> <<s[i]>>] \in Sym
    <2>1. s[i] \in Bit
      BY <1>1
    <2>2. <<s[i]>> \in Seq(Bit)
      BY <2>1
    <2> QED
      BY <2>2 DEF Sym
  <1>4. BitSyms(s) \in [1 .. n -> Sym]
    BY <1>2, <1>3
  <1>5. BitSyms(s) \in Seq(Sym) /\ Len(BitSyms(s)) = n
    BY <1>1, <1>4, FunctionIsSeq
  <1>6. \A i \in 1 .. n : BitSyms(s)[i] = [kind |-> "bit", v |-> <<s[i]>>]
    BY <1>2
  <1> QED
    BY <1>5, <1>6 DEF n

\* The symbols of one sequence of bits after another.
LEMMA BitSymsConcat ==
  \A s, t \in Seq(Bit) : BitSyms(s \o t) = BitSyms(s) \o BitSyms(t)
  <1> SUFFICES ASSUME NEW s \in Seq(Bit), NEW t \in Seq(Bit)
               PROVE  BitSyms(s \o t) = BitSyms(s) \o BitSyms(t)
    OBVIOUS
  <1> DEFINE u == s \o t
             n == Len(s)
             m == Len(t)
             x == BitSyms(s)
             y == BitSyms(t)
             z == BitSyms(u)
  <1>1. /\ u \in Seq(Bit) /\ Len(u) = n + m /\ n \in Nat /\ m \in Nat
        /\ \A i \in 1 .. n + m : u[i] = IF i <= n THEN s[i] ELSE t[i - n]
    BY ConcatProperties, LenProperties
  <1>2. /\ x \in Seq(Sym) /\ Len(x) = n
        /\ \A i \in 1 .. n : x[i] = [kind |-> "bit", v |-> <<s[i]>>]
    BY BitSymsOf
  <1>3. /\ y \in Seq(Sym) /\ Len(y) = m
        /\ \A i \in 1 .. m : y[i] = [kind |-> "bit", v |-> <<t[i]>>]
    BY BitSymsOf
  <1>4. /\ z \in Seq(Sym) /\ Len(z) = Len(u)
        /\ \A i \in 1 .. Len(u) : z[i] = [kind |-> "bit", v |-> <<u[i]>>]
    <2> HIDE DEF u
    <2> QED
      BY <1>1, BitSymsOf
  <1> HIDE DEF u, n, m, x, y, z
  <1>5. /\ x \o y \in Seq(Sym) /\ Len(x \o y) = n + m
        /\ \A i \in 1 .. n + m : (x \o y)[i] = IF i <= n THEN x[i] ELSE y[i - n]
    BY <1>2, <1>3, ConcatProperties
  <1>6. ASSUME NEW i \in 1 .. n + m PROVE z[i] = (x \o y)[i]
    <2>0. i \in 1 .. Len(u) /\ z[i] = [kind |-> "bit", v |-> <<u[i]>>]
      BY <1>1, <1>4
    <2>1. CASE i <= n
      <3>1. i \in 1 .. n
        BY <1>1, <2>1
      <3>2. u[i] = s[i] /\ (x \o y)[i] = x[i]
        BY <1>1, <1>5, <2>1
      <3> QED
        BY <1>2, <2>0, <3>1, <3>2, Zenon
    <2>2. CASE ~ (i <= n)
      <3>1. i - n \in 1 .. m
        BY <1>1, <2>2
      <3>2. u[i] = t[i - n] /\ (x \o y)[i] = y[i - n]
        BY <1>1, <1>5, <2>2
      <3> QED
        BY <1>3, <2>0, <3>1, <3>2, Zenon
    <2> QED
      BY <2>1, <2>2
  <1>7. Len(z) = n + m
    BY <1>1, <1>4
  <1>8. z = x \o y
    BY <1>4, <1>5, <1>6, <1>7, SeqEqual
  <1> QED
    BY <1>8 DEF u, x, y, z

\* No bits, no symbols.
LEMMA BitSymsEmpty == BitSyms(<<>>) = <<>>
  <1>1. <<>> \in Seq(Bit) /\ Len(<<>>) = 0
    BY EmptySeq
  <1>2. BitSyms(<<>>) \in Seq(Sym) /\ Len(BitSyms(<<>>)) = 0
    BY <1>1, BitSymsOf
  <1> QED
    BY <1>2, EmptySeq

\* The symbols of flattened pieces are the flattened symbols of the pieces.
LEMMA BitSymsFlatten ==
  \A n \in Nat : \A f \in [1 .. n -> Seq(Bit)] :
     FlattenSeq([i \in 1 .. n |-> BitSyms(f[i])]) = BitSyms(FlattenSeq(f))
  <1> SUFFICES ASSUME NEW n \in Nat, NEW f \in [1 .. n -> Seq(Bit)]
               PROVE  FlattenSeq([i \in 1 .. n |-> BitSyms(f[i])]) = BitSyms(FlattenSeq(f))
    OBVIOUS
  <1> DEFINE seqs == [i \in 1 .. n |-> BitSyms(f[i])]
  <1>0. seqs \in [1 .. n -> Seq(Sym)]
    BY BitSymsOf
  <1>1. CASE n = 0
    <2>2. seqs \in Seq(Seq(Sym)) /\ Len(seqs) = 0 /\ f \in Seq(Seq(Bit)) /\ Len(f) = 0
      <3> HIDE DEF seqs
      <3> QED
        BY <1>0, <1>1, FunctionIsSeq
    <2> HIDE DEF seqs
    <2>3. seqs = <<>> /\ f = <<>>
      BY <2>2, EmptySeq
    <2> QED
      BY <2>3, FlattenEmpty, BitSymsEmpty DEF seqs
  <1>2. CASE n # 0
    <2>1. n \in Nat \ {0} /\ n \in 1 .. n
      BY <1>2
    <2>2. PICK p : InitialParts(Bit, f, n, p) /\ FlattenSeq(f) = p[n]
      BY <2>1, FlattenHasPrefixes
    <2>3. /\ p \in [1 .. n -> Seq(Bit)]
          /\ p[1] = f[1]
          /\ \A i \in 2 .. n : p[i] = p[i-1] \o f[i]
      BY <2>2 DEF InitialParts
    <2> DEFINE g == [i \in 1 .. n |-> BitSyms(p[i])]
    <2>4. g = [i \in 1 .. n |-> g[i]]
      OBVIOUS
    <2>5. Len(seqs) = n
      <3> HIDE DEF seqs
      <3> QED
        BY <1>0, FunctionIsSeq
    <2>6. g[1] = seqs[1]
      <3>1. 1 \in 1 .. n
        BY <2>1
      <3> QED
        BY <2>3, <3>1
    <2>7. ASSUME NEW i \in 2 .. n PROVE g[i] = g[i-1] \o seqs[i]
      <3>1. i \in 1 .. n /\ i - 1 \in 1 .. n
        OBVIOUS
      <3>2. g[i] = BitSyms(p[i]) /\ g[i-1] = BitSyms(p[i-1]) /\ seqs[i] = BitSyms(f[i])
        BY <3>1
      <3>3. p[i-1] \in Seq(Bit) /\ f[i] \in Seq(Bit)
        BY <2>3, <3>1
      <3>4. BitSyms(p[i-1] \o f[i]) = BitSyms(p[i-1]) \o BitSyms(f[i])
        BY <3>3, BitSymsConcat
      <3> QED
        BY <2>3, <3>2, <3>4, Zenon
    <2> HIDE DEF g, seqs
    <2>8. FlattenSeq(seqs) = g[n]
      BY <2>1, <2>4, <2>5, <2>6, <2>7, FlattenByPrefixes, Zenon
    <2>9. g[n] = BitSyms(p[n])
      BY <2>1 DEF g
    <2> QED
      BY <2>2, <2>8, <2>9, Zenon DEF seqs
  <1> QED
    BY <1>1, <1>2

-----------------------------------------------------------------------------
(* The bytes of a word. *)

\* The last p bits of a word.
Low(w, p) == SubSeq(w, (WordBits - p) + 1, (WordBits - p) + p)

\* The last bits of a word, one by one.
LEMMA LowOf ==
  \A w \in Word : \A p \in 0 .. WordBits :
     /\ Low(w, p) \in Seq(Bit)
     /\ Len(Low(w, p)) = p
     /\ \A i \in 1 .. p : Low(w, p)[i] = w[(WordBits - p) + i]
  <1> SUFFICES ASSUME NEW w \in Word, NEW p \in 0 .. WordBits
               PROVE  /\ Low(w, p) \in Seq(Bit)
                      /\ Len(Low(w, p)) = p
                      /\ \A i \in 1 .. p : Low(w, p)[i] = w[(WordBits - p) + i]
    OBVIOUS
  <1>1. WordBits \in Nat
    BY WordBitsNat
  <1>2. w \in Seq(Bit) /\ Len(w) = WordBits
    BY <1>1, FunctionIsSeq DEF Word
  <1> DEFINE m == WordBits - p
  <1>3. m \in Nat /\ p \in Nat /\ m + p <= Len(w)
    BY <1>1, <1>2
  <1> HIDE DEF m
  <1>4. /\ SubSeq(w, m + 1, m + p) \in Seq(Bit)
        /\ Len(SubSeq(w, m + 1, m + p)) = p
        /\ \A i \in 1 .. p : SubSeq(w, m + 1, m + p)[i] = w[m + i]
    BY <1>2, <1>3, PartOfSeq
  <1> QED
    BY <1>4 DEF Low, m

\* A word is a sequence of WordBits bits.
LEMMA WordIsSeq ==
  \A w \in Word : w \in Seq(Bit) /\ Len(w) = WordBits
  BY WordBitsNat, FunctionIsSeq DEF Word

\* All of a word, and none of it.
LEMMA LowAll == \A w \in Word : Low(w, WordBits) = w /\ Low(w, 0) = <<>>
  <1> SUFFICES ASSUME NEW w \in Word PROVE Low(w, WordBits) = w /\ Low(w, 0) = <<>>
    OBVIOUS
  <1>1. WordBits \in Nat /\ WordBits \in 0 .. WordBits /\ 0 \in 0 .. WordBits /\ WordBits - WordBits = 0
    BY WordBitsNat
  <1>2. w \in Seq(Bit) /\ Len(w) = WordBits
    BY WordIsSeq
  <1>3. /\ Low(w, WordBits) \in Seq(Bit) /\ Len(Low(w, WordBits)) = WordBits
        /\ \A i \in 1 .. WordBits : Low(w, WordBits)[i] = w[0 + i]
    BY <1>1, LowOf
  <1>4. Low(w, WordBits) = w
    BY <1>1, <1>2, <1>3, SeqEqual
  <1>5. Low(w, 0) \in Seq(Bit) /\ Len(Low(w, 0)) = 0
    BY <1>1, LowOf
  <1> QED
    BY <1>4, <1>5, EmptySeq

\* The bits shifted in are the last ones, after those that were last before.
LEMMA ShiftInAt ==
  \A w \in Word : \A s \in Seq(Bit) :
     /\ ShiftIn(w, s) \in Word
     /\ \A i \in 1 .. WordBits : ShiftIn(w, s)[i] = (w \o s)[Len(s) + i]
  <1> SUFFICES ASSUME NEW w \in Word, NEW s \in Seq(Bit)
               PROVE  /\ ShiftIn(w, s) \in Word
                      /\ \A i \in 1 .. WordBits : ShiftIn(w, s)[i] = (w \o s)[Len(s) + i]
    OBVIOUS
  <1>1. ShiftIn(w, s) \in Word
    BY ShiftInWord
  <1>2. WordBits \in Nat /\ w \in Seq(Bit) /\ Len(w) = WordBits /\ Len(s) \in Nat
    BY WordBitsNat, WordIsSeq, LenProperties
  <1> DEFINE t == w \o s
             m == Len(s)
  <1>3. t \in Seq(Bit) /\ Len(t) = WordBits + m
    BY <1>2, ConcatProperties
  <1>4. ShiftIn(w, s) = SubSeq(t, m + 1, m + WordBits)
    BY <1>2 DEF ShiftIn
  <1>5. m + WordBits <= Len(t) /\ m \in Nat
    BY <1>2, <1>3
  <1> HIDE DEF t, m
  <1>6. \A i \in 1 .. WordBits : SubSeq(t, m + 1, m + WordBits)[i] = t[m + i]
    BY <1>2, <1>3, <1>5, PartOfSeq
  <1> QED
    BY <1>1, <1>4, <1>6 DEF t, m

\* After a shift the last bits are the old last bits and the bits shifted in.
LEMMA LowShiftIn ==
  \A w \in Word : \A s \in Seq(Bit) : \A p \in Nat :
     p + Len(s) <= WordBits => Low(ShiftIn(w, s), p + Len(s)) = Low(w, p) \o s
  <1> SUFFICES ASSUME NEW w \in Word, NEW s \in Seq(Bit), NEW p \in Nat, p + Len(s) <= WordBits
               PROVE  Low(ShiftIn(w, s), p + Len(s)) = Low(w, p) \o s
    OBVIOUS
  <1> DEFINE m == Len(s)
             x == Low(ShiftIn(w, s), p + m)
             y == Low(w, p)
             q == p + m
  <1>1. m \in Nat /\ WordBits \in Nat /\ p \in 0 .. WordBits /\ q \in 0 .. WordBits
        /\ q = p + m
    BY WordBitsNat, LenProperties
  <1>2. w \in Seq(Bit) /\ Len(w) = WordBits
    BY WordIsSeq
  <1>3. y \in Seq(Bit) /\ Len(y) = p /\ \A i \in 1 .. p : y[i] = w[(WordBits - p) + i]
    BY <1>1, LowOf
  <1>4. /\ ShiftIn(w, s) \in Word
        /\ \A i \in 1 .. WordBits : ShiftIn(w, s)[i] = (w \o s)[m + i]
    BY ShiftInAt
  <1>5. x \in Seq(Bit) /\ Len(x) = q /\ \A i \in 1 .. q : x[i] = ShiftIn(w, s)[(WordBits - q) + i]
    <2> DEFINE w2 == ShiftIn(w, s)
    <2>1. w2 \in Word
      BY <1>4
    <2> HIDE DEF w2, q
    <2>2. /\ Low(w2, q) \in Seq(Bit) /\ Len(Low(w2, q)) = q
          /\ \A i \in 1 .. q : Low(w2, q)[i] = w2[(WordBits - q) + i]
      BY <1>1, <2>1, LowOf
    <2> QED
      BY <2>2 DEF w2, q
  <1>6. /\ w \o s \in Seq(Bit)
        /\ \A i \in 1 .. WordBits + m : (w \o s)[i] = IF i <= WordBits THEN w[i] ELSE s[i - WordBits]
    BY <1>2, ConcatProperties
  <1> HIDE DEF x, y, q, m
  <1>7. /\ y \o s \in Seq(Bit) /\ Len(y \o s) = p + m
        /\ \A i \in 1 .. p + m : (y \o s)[i] = IF i <= p THEN y[i] ELSE s[i - p]
    BY <1>3, ConcatProperties DEF m
  <1>8. ASSUME NEW i \in 1 .. q PROVE x[i] = (y \o s)[i]
    <2>1. /\ (WordBits - q) + i \in 1 .. WordBits
          /\ m + ((WordBits - q) + i) = (WordBits - p) + i
          /\ (WordBits - p) + i \in 1 .. WordBits + m
          /\ i \in 1 .. p + m
      BY <1>1
    <2>2. x[i] = (w \o s)[(WordBits - p) + i]
      BY <1>4, <1>5, <2>1
    <2>3. CASE i <= p
      <3>1. i \in 1 .. p /\ (WordBits - p) + i <= WordBits
        BY <1>1, <2>3
      <3> QED
        BY <1>3, <1>6, <1>7, <2>1, <2>2, <2>3, <3>1, Zenon
    <2>4. CASE ~ (i <= p)
      <3>1. ~ ((WordBits - p) + i <= WordBits) /\ ((WordBits - p) + i) - WordBits = i - p
        BY <1>1, <2>4
      <3> QED
        BY <1>6, <1>7, <2>1, <2>2, <2>4, <3>1, Zenon
    <2> QED
      BY <2>3, <2>4
  <1>9. Len(x) = Len(y \o s)
    BY <1>1, <1>5, <1>7
  <1>10. \A i \in 1 .. Len(x) : x[i] = (y \o s)[i]
    BY <1>5, <1>8
  <1>11. x = y \o s
    BY <1>5, <1>7, <1>9, <1>10, SeqEqual
  <1> QED
    BY <1>11 DEF x, y, m

\* A code's first bits and the rest of it, left in the word, make the code.
LEMMA CodeSplit ==
  \A w \in Word : \A c \in Seq(Bit) : \A b \in Nat :
     b <= Len(c) /\ Len(c) <= WordBits =>
       SubSeq(c, 1, b) \o Low(ShiftIn(w, c), Len(c) - b) = c
  <1> SUFFICES ASSUME NEW w \in Word, NEW c \in Seq(Bit), NEW b \in Nat,
                      b <= Len(c), Len(c) <= WordBits
               PROVE  SubSeq(c, 1, b) \o Low(ShiftIn(w, c), Len(c) - b) = c
    OBVIOUS
  <1> DEFINE l == Len(c)
             q == l - b
             w2 == ShiftIn(w, c)
             y == Low(w2, q)
             x == SubSeq(c, 1, b)
  <1>1. l \in Nat /\ WordBits \in Nat /\ q \in 0 .. WordBits /\ b + q = l /\ q \in Nat
    BY WordBitsNat, LenProperties
  <1>2. w \in Seq(Bit) /\ Len(w) = WordBits
    BY WordIsSeq
  <1>3. w2 \in Word /\ \A i \in 1 .. WordBits : w2[i] = (w \o c)[l + i]
    BY ShiftInAt
  <1>4. \A i \in 1 .. WordBits + l : (w \o c)[i] = IF i <= WordBits THEN w[i] ELSE c[i - WordBits]
    BY <1>2, ConcatProperties
  <1>5. x \in Seq(Bit) /\ Len(x) = b /\ \A i \in 1 .. b : x[i] = c[i]
    <2>1. 0 \in Nat /\ 0 + b <= Len(c) /\ 0 + b = b /\ 0 + 1 = 1 /\ \A i \in 1 .. b : 0 + i = i
      OBVIOUS
    <2>2. /\ SubSeq(c, 0 + 1, 0 + b) \in Seq(Bit) /\ Len(SubSeq(c, 0 + 1, 0 + b)) = b
          /\ \A i \in 1 .. b : SubSeq(c, 0 + 1, 0 + b)[i] = c[0 + i]
      BY <2>1, PartOfSeq
    <2> QED
      BY <2>1, <2>2
  <1> HIDE DEF l, q, w2, x
  <1>6. y \in Seq(Bit) /\ Len(y) = q /\ \A i \in 1 .. q : y[i] = w2[(WordBits - q) + i]
    BY <1>1, <1>3, LowOf
  <1> HIDE DEF y
  <1>7. /\ x \o y \in Seq(Bit) /\ Len(x \o y) = b + q
        /\ \A i \in 1 .. b + q : (x \o y)[i] = IF i <= b THEN x[i] ELSE y[i - b]
    <2>1. /\ x \o y \in Seq(Bit) /\ Len(x \o y) = Len(x) + Len(y)
          /\ \A i \in 1 .. Len(x) + Len(y) :
               (x \o y)[i] = IF i <= Len(x) THEN x[i] ELSE y[i - Len(x)]
      BY ONLY <1>5, <1>6, ConcatProperties
    <2> QED
      BY ONLY <1>5, <1>6, <2>1
  <1>8. ASSUME NEW i \in 1 .. l PROVE (x \o y)[i] = c[i]
    <2>0. i \in 1 .. b + q
      BY <1>1
    <2>1. CASE i <= b
      <3>1. i \in 1 .. b
        BY <1>1, <2>1
      <3> QED
        BY <1>5, <1>7, <2>0, <2>1, <3>1, Zenon
    <2>2. CASE ~ (i <= b)
      <3>1. /\ i - b \in 1 .. q
            /\ (WordBits - q) + (i - b) \in 1 .. WordBits
            /\ l + ((WordBits - q) + (i - b)) = WordBits + i
            /\ WordBits + i \in 1 .. WordBits + l
            /\ ~ (WordBits + i <= WordBits)
            /\ (WordBits + i) - WordBits = i
        BY <1>1, <2>2
      <3>2. y[i - b] = (w \o c)[WordBits + i]
        BY <1>3, <1>6, <3>1
      <3>3. (w \o c)[WordBits + i] = c[i]
        BY <1>4, <3>1
      <3> QED
        BY <1>7, <2>0, <2>2, <3>2, <3>3, Zenon
    <2> QED
      BY <2>1, <2>2
  <1>9. Len(x \o y) = Len(c) /\ l = Len(x \o y)
    BY <1>1, <1>7 DEF l
  <1>10. x \o y = c
    BY <1>7, <1>8, <1>9, SeqEqual
  <1> QED
    BY <1>10 DEF x, y, w2, q, l

\* A byte of a word as the part that begins after the bytes before it.
LEMMA ByteOfPart ==
  \A w, i : i \in 1 .. WordBytes =>
    ByteOf(w, i) = SubSeq(w, ByteBits * (i - 1) + 1, ByteBits * (i - 1) + ByteBits)
  <1> SUFFICES ASSUME NEW w, NEW i \in 1 .. WordBytes
               PROVE  ByteOf(w, i) = SubSeq(w, ByteBits * (i - 1) + 1, ByteBits * (i - 1) + ByteBits)
    OBVIOUS
  <1>1. ByteBits \in Nat /\ WordBytes \in Nat
    BY BitstreamAssumption
  <1>2. ByteBits * i = ByteBits * (i - 1) + ByteBits
    BY <1>1, SMT
  <1> QED
    BY <1>2 DEF ByteOf

\* The last n bytes of a word, put one after the other, are its last bits.
LEMMA LowBytes ==
  \A w \in Word : \A n \in 0 .. WordBytes :
     FlattenSeq([i \in 1 .. n |-> ByteOf(w, (WordBytes - n) + i)]) = Low(w, ByteBits * n)
  <1> SUFFICES ASSUME NEW w \in Word, NEW n \in 0 .. WordBytes
               PROVE  FlattenSeq([i \in 1 .. n |-> ByteOf(w, (WordBytes - n) + i)])
                        = Low(w, ByteBits * n)
    OBVIOUS
  <1> DEFINE r == WordBytes - n
             seqs == [i \in 1 .. n |-> ByteOf(w, r + i)]
             base == ByteBits * r
  <1>1. ByteBits \in Nat \ {0} /\ WordBytes \in Nat \ {0} /\ WordBits \in Nat /\ n \in Nat /\ r \in Nat
    BY BitstreamAssumption, WordBitsNat
  <1>2. \A i \in 1 .. n : r + i \in 1 .. WordBytes
    BY <1>1
  <1>3. seqs \in [1 .. n -> Seq(Bit)]
    <2>1. ASSUME NEW i \in 1 .. n PROVE ByteOf(w, r + i) \in Seq(Bit)
      <3>1. ByteOf(w, r + i) \in [1 .. ByteBits -> Bit]
        BY <1>2, ByteOfWord DEF Byte
      <3> HIDE DEF r
      <3> QED
        BY <1>1, <3>1, FunctionIsSeq
    <2> QED
      BY <2>1
  <1>4. Len(seqs) = n
    <2> HIDE DEF seqs
    <2> QED
      BY <1>1, <1>3, FunctionIsSeq
  <1>5. w \in Seq(Bit) /\ Len(w) = WordBits
    BY WordIsSeq
  <1>6. CASE n = 0
    <2>1. seqs = <<>>
      <3>1. seqs \in Seq(Seq(Bit))
        <4> HIDE DEF seqs
        <4> QED
          BY <1>1, <1>3, FunctionIsSeq
      <3> HIDE DEF seqs
      <3> QED
        BY <1>4, <1>6, <3>1, EmptySeq
    <2>2. ByteBits * n = 0
      BY <1>1, <1>6
    <2> HIDE DEF seqs
    <2>3. FlattenSeq(seqs) = Low(w, ByteBits * n)
      BY <2>1, <2>2, FlattenEmpty, LowAll
    <2> QED
      BY <2>3 DEF seqs, r
  <1>7. CASE n # 0
    <2> DEFINE g == [d \in 1 .. n |-> SubSeq(w, base + 1, base + ByteBits * d)]
    <2>1. base \in Nat /\ n \in Nat \ {0} /\ n \in 1 .. n /\ 1 \in 1 .. n
      BY <1>1, <1>7
    <2>2. g = [i \in 1 .. n |-> g[i]]
      OBVIOUS
    <2>3. ASSUME NEW d \in 1 .. n
          PROVE  seqs[d] = SubSeq(w, (base + ByteBits * (d - 1)) + 1, (base + ByteBits * (d - 1)) + ByteBits)
      <3>1. r + d \in 1 .. WordBytes
        BY <1>2
      <3>2. seqs[d] = ByteOf(w, r + d)
        OBVIOUS
      <3>3. ByteBits * ((r + d) - 1) = base + ByteBits * (d - 1)
        BY <1>1
      <3> HIDE DEF r, seqs, base
      <3> QED
        BY <3>1, <3>2, <3>3, ByteOfPart
    <2>4. g[1] = seqs[1]
      <3>1. /\ base + ByteBits * (1 - 1) = base /\ base + ByteBits * 1 = base + ByteBits
        BY <1>1, <2>1
      <3>2. g[1] = SubSeq(w, base + 1, base + ByteBits * 1)
        BY <2>1
      <3> HIDE DEF g, seqs, base
      <3> QED
        BY <2>1, <2>3, <3>1, <3>2
    <2>5. ASSUME NEW d \in 2 .. n PROVE g[d] = g[d-1] \o seqs[d]
      <3> DEFINE a == ByteBits * (d - 1)
      <3>1. d \in 1 .. n /\ d - 1 \in 1 .. n
        OBVIOUS
      <3>2. a \in Nat /\ ByteBits * d = a + ByteBits
        BY <1>1
      <3>3. base + a + ByteBits <= Len(w)
        <4>1. base + a + ByteBits = ByteBits * (r + d)
          BY <1>1, <2>1
        <4>2. ByteBits * (r + d) \in 1 .. WordBits
          BY <1>2, <3>1, ByteWithinWord
        <4> HIDE DEF base, a, r
        <4> QED
          BY <1>1, <1>5, <4>1, <4>2
      <3>4. g[d] = SubSeq(w, base + 1, base + ByteBits * d) /\ g[d-1] = SubSeq(w, base + 1, base + a)
        BY <3>1
      <3>5. seqs[d] = SubSeq(w, (base + a) + 1, (base + a) + ByteBits)
        BY <2>3, <3>1
      <3> HIDE DEF a, g, seqs, base
      <3>6. SubSeq(w, base + 1, base + a) \o SubSeq(w, (base + a) + 1, (base + a) + ByteBits)
              = SubSeq(w, base + 1, base + (a + ByteBits))
        BY <1>1, <1>5, <2>1, <3>2, <3>3, PartsJoin
      <3> QED
        BY <3>2, <3>4, <3>5, <3>6
    <2> HIDE DEF g, seqs
    <2>6. FlattenSeq(seqs) = g[n]
      BY <1>4, <2>1, <2>2, <2>4, <2>5, FlattenByPrefixes, Zenon
    <2>7. g[n] = Low(w, ByteBits * n)
      <3>1. WordBits - ByteBits * n = base
        BY <1>1 DEF WordBits
      <3>2. g[n] = SubSeq(w, base + 1, base + ByteBits * n)
        BY <2>1 DEF g
      <3> HIDE DEF base
      <3> QED
        BY <3>1, <3>2 DEF Low
    <2> QED
      BY <2>6, <2>7 DEF seqs, r
  <1> QED
    BY <1>6, <1>7

\* The bytes of a word, one after the other, are the word.
LEMMA BytesFlatten == \A w \in Word : FlattenSeq(BytesOf(w)) = w
  <1> SUFFICES ASSUME NEW w \in Word PROVE FlattenSeq(BytesOf(w)) = w
    OBVIOUS
  <1>1. ByteBits \in Nat /\ WordBytes \in Nat /\ WordBytes \in 0 .. WordBytes
    BY BitstreamAssumption
  <1>2. FlattenSeq([i \in 1 .. WordBytes |-> ByteOf(w, (WordBytes - WordBytes) + i)])
          = Low(w, ByteBits * WordBytes)
    BY <1>1, LowBytes
  <1>3. [i \in 1 .. WordBytes |-> ByteOf(w, (WordBytes - WordBytes) + i)] = BytesOf(w)
    <2>1. \A i \in 1 .. WordBytes : (WordBytes - WordBytes) + i = i
      BY <1>1
    <2> QED
      BY <2>1, Zenon DEF BytesOf
  <1>4. Low(w, ByteBits * WordBytes) = w
    BY LowAll DEF WordBits
  <1> QED
    BY <1>2, <1>3, <1>4

\* The carry of MayStuff exists, and each all-ones byte carries: a word whose
\* carries are all clear has no byte that needs stuffing.
LEMMA NoStuffing ==
  \A w \in Word : ~MayStuff(w) => \A i \in 1 .. WordBytes : ByteOf(w, i) # FF
  <1> SUFFICES ASSUME NEW w \in Word, NEW i \in 1 .. WordBytes, ByteOf(w, i) = FF
               PROVE  MayStuff(w)
    OBVIOUS
  <1> DEFINE FE == [FF EXCEPT ![ByteBits] = 0]
             N == WordBytes
             Step(f) == [d \in 1 .. N + 1 |->
                           /\ d <= N
                           /\ ByteOf(w, d) = FF \/ (ByteOf(w, d) = FE /\ f[d + 1])]
             carry == CHOOSE f : f = Step(f)
             From(d) == \E j \in d .. N : ByteOf(w, j) = FF /\ \A l \in d .. j - 1 : ByteOf(w, l) = FE
             real == [d \in 1 .. N + 1 |-> From(d)]
  <1>1. N \in Nat
    BY BitstreamAssumption
  <1>2. ASSUME NEW d \in 1 .. N + 1
        PROVE  From(d) <=> /\ d <= N
                           /\ ByteOf(w, d) = FF \/ (ByteOf(w, d) = FE /\ real[d + 1])
    <2> HIDE DEF FE, N
    <2>1. CASE d = N + 1
      <3>1. ~ (d <= N) /\ \A j : ~ (j \in d .. N)
        BY <1>1, <2>1
      <3> QED
        BY <3>1
    <2>2. CASE d # N + 1
      <3>1. d <= N /\ d + 1 \in 1 .. N + 1 /\ d \in d .. N
        BY <1>1, <2>2
      <3>2. real[d + 1] = From(d + 1)
        BY <3>1
      <3>3. ASSUME From(d), ByteOf(w, d) # FF PROVE ByteOf(w, d) = FE /\ From(d + 1)
        <4>1. PICK j \in d .. N : ByteOf(w, j) = FF /\ \A l \in d .. j - 1 : ByteOf(w, l) = FE
          BY <3>3
        <4>2. j # d
          BY <3>3, <4>1
        <4>3. j \in d + 1 .. N /\ d \in d .. j - 1 /\ \A l \in d + 1 .. j - 1 : l \in d .. j - 1
          BY <1>1, <4>2
        <4> QED
          BY <4>1, <4>3
      <3>4. ASSUME ByteOf(w, d) = FF PROVE From(d)
        <4>1. \A l : ~ (l \in d .. d - 1)
          OBVIOUS
        <4> QED
          BY <3>1, <3>4, <4>1
      <3>5. ASSUME ByteOf(w, d) = FE, From(d + 1) PROVE From(d)
        <4>1. PICK j \in d + 1 .. N : ByteOf(w, j) = FF /\ \A l \in d + 1 .. j - 1 : ByteOf(w, l) = FE
          BY <3>5
        <4>2. j \in d .. N /\ \A l \in d .. j - 1 : l = d \/ l \in d + 1 .. j - 1
          BY <1>1
        <4> QED
          BY <3>5, <4>1, <4>2
      <3> HIDE DEF From, real
      <3> QED
        BY <3>1, <3>2, <3>3, <3>4, <3>5, Zenon
    <2> QED
      BY <2>1, <2>2
  <1>3. real = Step(real)
    <2> HIDE DEF FE, From
    <2> QED
      BY <1>2, Zenon DEF From
  <1>4. carry = Step(carry)
    <2> HIDE DEF real
    <2> QED
      BY <1>3
  <1>5. carry[i]
    <2> HIDE DEF carry, FE
    <2>1. i \in 1 .. N + 1 /\ i <= N
      BY <1>1
    <2> HIDE DEF N
    <2>2. carry[i] = (/\ i <= N
                      /\ ByteOf(w, i) = FF \/ (ByteOf(w, i) = FE /\ carry[i + 1]))
      BY <1>4, <2>1, Zenon
    <2> QED
      BY <2>1, <2>2, Zenon
  <1> QED
    BY <1>5, Zenon DEF MayStuff

-----------------------------------------------------------------------------
(* The symbols of a stream of bytes. *)

HeaderSyms(x) == <<[kind |-> "header", v |-> x]>>
MarkerSyms(x) == <<[kind |-> "marker", v |-> x]>>
Announces(b, i) == i < Len(b) /\ b[i+1] # Zeros(ByteBits)

\* The cases of SymbolsAt.
LEMMA SymbolsCases ==
  \A b : \A h, i \in Nat :
     /\ i <= h => SymbolsAt(b, h, i) = HeaderSyms(b[i])
     /\ SecondOfPair(b, h, i) => SymbolsAt(b, h, i) = IF b[i] = Zeros(ByteBits) THEN <<>> ELSE MarkerSyms(b[i])
     /\ i > h /\ ~SecondOfPair(b, h, i) /\ b[i] = FF =>
          SymbolsAt(b, h, i) = IF Announces(b, i) THEN <<>> ELSE BitSyms(FF)
     /\ i > h /\ ~SecondOfPair(b, h, i) /\ b[i] # FF => SymbolsAt(b, h, i) = BitSyms(b[i])
  <1> SUFFICES ASSUME NEW b, NEW h \in Nat, NEW i \in Nat
               PROVE  /\ i <= h => SymbolsAt(b, h, i) = HeaderSyms(b[i])
                      /\ SecondOfPair(b, h, i) =>
                           SymbolsAt(b, h, i) = IF b[i] = Zeros(ByteBits) THEN <<>> ELSE MarkerSyms(b[i])
                      /\ i > h /\ ~SecondOfPair(b, h, i) /\ b[i] = FF =>
                           SymbolsAt(b, h, i) = IF Announces(b, i) THEN <<>> ELSE BitSyms(FF)
                      /\ i > h /\ ~SecondOfPair(b, h, i) /\ b[i] # FF =>
                           SymbolsAt(b, h, i) = BitSyms(b[i])
    OBVIOUS
  <1> DEFINE second == SecondOfPair(b, h, i)
             z == Zeros(ByteBits)
             x == b[i]
             hs == HeaderSyms(x)
             ms == IF x = z THEN <<>> ELSE MarkerSyms(x)
             fs == IF Announces(b, i) THEN <<>> ELSE BitSyms(FF)
             bs == BitSyms(x)
  <1>1. SymbolsAt(b, h, i) = CASE i <= h -> hs
                               [] second -> ms
                               [] i > h /\ x = FF /\ ~second -> fs
                               [] OTHER -> bs
    BY Zenon DEF SymbolsAt, HeaderSyms, MarkerSyms, Announces
  <1>2. /\ second => i > h
        /\ i <= h => ~ (i > h)
        /\ i > h => ~ (i <= h)
    BY DEF SecondOfPair
  <1> HIDE DEF second, hs, ms, fs, bs, x, z
  <1>3. /\ i <= h => SymbolsAt(b, h, i) = hs
        /\ second => SymbolsAt(b, h, i) = ms
        /\ i > h /\ ~second /\ x = FF => SymbolsAt(b, h, i) = fs
        /\ i > h /\ ~second /\ x # FF => SymbolsAt(b, h, i) = bs
    BY <1>1, <1>2
  <1> QED
    BY <1>3, Zenon DEF second, hs, ms, fs, bs, x, z

\* A byte is a sequence of ByteBits bits.
LEMMA ByteIsBits == \A x \in Byte : x \in Seq(Bit) /\ Len(x) = ByteBits
  <1>1. ByteBits \in Nat
    BY BitstreamAssumption
  <1> QED
    BY <1>1, FunctionIsSeq DEF Byte

\* The symbols a byte can stand for.
LEMMA SymbolTyped ==
  \A x \in Byte : HeaderSyms(x) \in Seq(Sym) /\ MarkerSyms(x) \in Seq(Sym) /\ BitSyms(x) \in Seq(Sym)
  <1> SUFFICES ASSUME NEW x \in Byte
               PROVE  HeaderSyms(x) \in Seq(Sym) /\ MarkerSyms(x) \in Seq(Sym) /\ BitSyms(x) \in Seq(Sym)
    OBVIOUS
  <1>1. x \in Seq(Bit)
    BY ByteIsBits
  <1>2. [kind |-> "header", v |-> x] \in Sym /\ [kind |-> "marker", v |-> x] \in Sym
    BY <1>1 DEF Sym
  <1>3. BitSyms(x) \in Seq(Sym)
    BY <1>1, BitSymsOf
  <1> HIDE DEF Sym
  <1> QED
    BY <1>2, <1>3 DEF HeaderSyms, MarkerSyms

\* Every byte of a stream stands for symbols.
LEMMA SymbolsTyped ==
  \A b \in Seq(Byte) : \A h \in Nat : \A i \in 1 .. Len(b) : SymbolsAt(b, h, i) \in Seq(Sym)
  <1> SUFFICES ASSUME NEW b \in Seq(Byte), NEW h \in Nat, NEW i \in 1 .. Len(b)
               PROVE  SymbolsAt(b, h, i) \in Seq(Sym)
    OBVIOUS
  <1> DEFINE x == b[i]
  <1>1. x \in Byte /\ FF \in Byte /\ i \in Nat /\ <<>> \in Seq(Sym)
    BY ElementOfSeq, ConstantBits, EmptySeq
  <1>2. /\ HeaderSyms(x) \in Seq(Sym) /\ MarkerSyms(x) \in Seq(Sym) /\ BitSyms(x) \in Seq(Sym)
        /\ BitSyms(FF) \in Seq(Sym)
    BY <1>1, SymbolTyped
  <1>3. i <= h \/ SecondOfPair(b, h, i) \/ (i > h /\ ~SecondOfPair(b, h, i))
    BY <1>1
  <1>4. /\ i <= h => SymbolsAt(b, h, i) = HeaderSyms(x)
        /\ SecondOfPair(b, h, i) => SymbolsAt(b, h, i) = IF x = Zeros(ByteBits) THEN <<>> ELSE MarkerSyms(x)
        /\ i > h /\ ~SecondOfPair(b, h, i) /\ x = FF =>
             SymbolsAt(b, h, i) = IF Announces(b, i) THEN <<>> ELSE BitSyms(FF)
        /\ i > h /\ ~SecondOfPair(b, h, i) /\ x # FF => SymbolsAt(b, h, i) = BitSyms(x)
    BY <1>1, SymbolsCases, Zenon
  <1> HIDE DEF x
  <1> QED
    BY <1>1, <1>2, <1>3, <1>4, Zenon

\* Byte i of one stream and byte j of another are alike: in the header or not, second
\* of a pair or not, and announcing one or not.
Alike(b, h, i, c, d, j) ==
  /\ i <= h <=> j <= d
  /\ SecondOfPair(b, h, i) <=> SecondOfPair(c, d, j)
  /\ b[i] = c[j]
  /\ i > h /\ b[i] = FF => (Announces(b, i) <=> Announces(c, j))

\* What a byte means depends on the bytes next to it only.
LEMMA SymbolsSame ==
  \A b, c : \A h, d, i, j \in Nat :
     Alike(b, h, i, c, d, j) => SymbolsAt(b, h, i) = SymbolsAt(c, d, j)
  <1> TAKE b, c
  <1> TAKE h, d, i, j \in Nat
  <1> HAVE Alike(b, h, i, c, d, j)
  <1> USE DEF Alike
  <1>1. (i > h \/ i <= h) /\ (i > h <=> j > d)
    OBVIOUS
  <1>2. CASE i <= h
    <2>1. SymbolsAt(b, h, i) = HeaderSyms(b[i])
      BY <1>2, SymbolsCases, Zenon
    <2>2. SymbolsAt(c, d, j) = HeaderSyms(c[j])
      BY <1>2, SymbolsCases, Zenon
    <2> QED
      BY <2>1, <2>2, Zenon
  <1>3. CASE SecondOfPair(b, h, i)
    <2> DEFINE read(x) == IF x = Zeros(ByteBits) THEN <<>> ELSE MarkerSyms(x)
    <2>1. SymbolsAt(b, h, i) = read(b[i])
      BY <1>3, SymbolsCases, Zenon
    <2>2. SymbolsAt(c, d, j) = read(c[j])
      BY <1>3, SymbolsCases, Zenon
    <2> HIDE DEF read
    <2> QED
      BY <2>1, <2>2, Zenon
  <1>4. CASE i > h /\ ~SecondOfPair(b, h, i) /\ b[i] = FF
    <2>1. j > d /\ ~SecondOfPair(c, d, j) /\ c[j] = FF /\ (Announces(b, i) <=> Announces(c, j))
      BY <1>1, <1>4, Zenon
    <2>2. SymbolsAt(c, d, j) = IF Announces(c, j) THEN <<>> ELSE BitSyms(FF)
      BY <2>1, SymbolsCases, Zenon
    <2>3. SymbolsAt(b, h, i) = IF Announces(b, i) THEN <<>> ELSE BitSyms(FF)
      BY <1>4, SymbolsCases, Zenon
    <2>4. CASE Announces(b, i)
      BY <2>1, <2>2, <2>3, <2>4, Zenon
    <2>5. CASE ~Announces(b, i)
      BY <2>1, <2>2, <2>3, <2>5, Zenon
    <2> QED
      BY <2>4, <2>5
  <1>5. CASE i > h /\ ~SecondOfPair(b, h, i) /\ b[i] # FF
    <2>1. j > d /\ ~SecondOfPair(c, d, j) /\ c[j] # FF
      BY <1>1, <1>5, Zenon
    <2>2. SymbolsAt(c, d, j) = BitSyms(c[j])
      BY <2>1, SymbolsCases, Zenon
    <2>3. SymbolsAt(b, h, i) = BitSyms(b[i])
      BY <1>5, SymbolsCases, Zenon
    <2> QED
      BY <2>1, <2>2, <2>3, Zenon
  <1> QED
    BY <1>1, <1>2, <1>3, <1>4, <1>5

\* The stream can be continued: its last byte does not start a pair.
Whole(b, h) == h = Len(b) \/ b[Len(b)] # FF

\* A decoder reads the continuation of a stream by itself.
LEMMA DecodedConcat ==
  \A b, s \in Seq(Byte) : \A h \in 0 .. Len(b) :
     Whole(b, h) => /\ Decoded(b \o s, h) = Decoded(b, h) \o Decoded(s, 0)
                    /\ Decoded(b, h) \in Seq(Sym) /\ Decoded(s, 0) \in Seq(Sym)
  <1> SUFFICES ASSUME NEW b \in Seq(Byte), NEW s \in Seq(Byte), NEW h \in 0 .. Len(b), Whole(b, h)
               PROVE  /\ Decoded(b \o s, h) = Decoded(b, h) \o Decoded(s, 0)
                      /\ Decoded(b, h) \in Seq(Sym) /\ Decoded(s, 0) \in Seq(Sym)
    OBVIOUS
  <1> DEFINE n == Len(b)
             m == Len(s)
             u == b \o s
             B == [i \in 1 .. n |-> SymbolsAt(b, h, i)]
             C == [i \in 1 .. m |-> SymbolsAt(s, 0, i)]
             U == [i \in 1 .. n + m |-> SymbolsAt(u, h, i)]
  <1>1. n \in Nat /\ m \in Nat /\ h \in Nat /\ h <= n
    BY LenProperties
  <1>2. /\ u \in Seq(Byte) /\ Len(u) = n + m
        /\ \A i \in 1 .. n + m : u[i] = IF i <= n THEN b[i] ELSE s[i - n]
    BY ConcatProperties
  <1>3. /\ DOMAIN b = 1 .. n /\ DOMAIN s = 1 .. m /\ DOMAIN u = 1 .. n + m
        /\ Len(b) = n /\ Len(s) = m
    BY <1>2, LenProperties
  <1>4. B \in Seq(Seq(Sym)) /\ Len(B) = n
    <2>1. B \in [1 .. n -> Seq(Sym)]
      BY <1>1, SymbolsTyped
    <2> HIDE DEF B, n
    <2> QED
      BY <1>1, <2>1, FunctionIsSeq
  <1>5. C \in Seq(Seq(Sym)) /\ Len(C) = m
    <2>1. C \in [1 .. m -> Seq(Sym)]
      BY SymbolsTyped
    <2> HIDE DEF C, m
    <2> QED
      BY <1>1, <2>1, FunctionIsSeq
  <1>6. U \in Seq(Seq(Sym)) /\ Len(U) = n + m
    <2> DEFINE l == n + m
    <2>1. l \in Nat /\ u \in Seq(Byte) /\ Len(u) = l
      BY <1>1, <1>2
    <2>2. U \in [1 .. l -> Seq(Sym)]
      <3> HIDE DEF u, n, m
      <3> QED
        BY <1>1, <2>1, SymbolsTyped
    <2> HIDE DEF U, l
    <2>3. U \in Seq(Seq(Sym)) /\ Len(U) = l
      BY <2>1, <2>2, FunctionIsSeq
    <2> QED
      BY <2>3 DEF l
  <1>a. n # h => n \in 1 .. n /\ b[n] # FF
    BY <1>1 DEF Whole
  <1> HIDE DEF n, m, u
  <1>7. ASSUME NEW i \in 1 .. n PROVE U[i] = SymbolsAt(b, h, i)
    <2>1. i \in 1 .. n + m /\ i \in Nat /\ i <= n
      BY <1>1
    <2>2. u[i] = b[i]
      BY <1>2, <2>1
    <2>3. SecondOfPair(u, h, i) <=> SecondOfPair(b, h, i)
      <3>1. i > h + 1 => i - 1 \in 1 .. n + m /\ i - 1 <= n
        BY <1>1
      <3>2. i > h + 1 => u[i-1] = b[i-1]
        BY <1>2, <3>1, Zenon
      <3> QED
        BY <3>2, Zenon DEF SecondOfPair
    <2>4. i > h /\ u[i] = FF => (Announces(u, i) <=> Announces(b, i))
      <3> SUFFICES ASSUME i > h, b[i] = FF PROVE Announces(u, i) <=> Announces(b, i)
        BY <2>2
      <3>1. i # n
        BY <1>1, <1>a
      <3>2. i < n /\ i < n + m /\ i + 1 \in 1 .. n + m /\ i + 1 <= n
        BY <1>1, <3>1
      <3>3. u[i+1] = b[i+1] /\ Len(u) = n + m /\ Len(b) = n
        BY <1>2, <3>2, Zenon DEF n
      <3> QED
        BY <3>2, <3>3, Zenon DEF Announces
    <2>5. SymbolsAt(u, h, i) = SymbolsAt(b, h, i)
      <3>1. i \in Nat /\ h \in Nat /\ (i <= h <=> i <= h)
        BY <1>1, <2>1
      <3>2. Alike(u, h, i, b, h, i)
        BY <2>2, <2>3, <2>4, <3>1, Zenon DEF Alike
      <3> QED
        BY ONLY <3>1, <3>2, SymbolsSame, SMT
    <2> QED
      BY <2>1, <2>5
  <1>8. ASSUME NEW i \in n + 1 .. n + m PROVE U[i] = SymbolsAt(s, 0, i - n)
    <2> DEFINE j == i - n
    <2>1. /\ i \in 1 .. n + m /\ i \in Nat /\ ~ (i <= n) /\ j \in 1 .. m /\ j \in Nat /\ 0 \in Nat
          /\ ~ (i <= h) /\ ~ (j <= 0)
      BY <1>1
    <2>2. u[i] = s[j]
      BY <1>2, <2>1
    <2>3. SecondOfPair(u, h, i) <=> SecondOfPair(s, 0, j)
      <3>1. CASE j = 1
        <4>1. i - 1 = n /\ ~ (j > 0 + 1)
          BY <1>1, <3>1
        <4>2. i > h + 1 => u[i-1] # FF
          <5> SUFFICES ASSUME i > h + 1 PROVE u[n] # FF
            BY <4>1
          <5>1. n # h
            BY <1>1, <4>1
          <5>2. n \in 1 .. n + m /\ n <= n
            BY <1>1, <1>a, <5>1
          <5> QED
            BY <1>2, <1>a, <5>1, <5>2, Zenon
        <4> QED
          BY <4>1, <4>2, Zenon DEF SecondOfPair
      <3>2. CASE j # 1
        <4>1. /\ i > h + 1 /\ j > 0 + 1 /\ i - 1 \in 1 .. n + m /\ ~ (i - 1 <= n)
              /\ (i - 1) - n = j - 1
          BY <1>1, <2>1, <3>2
        <4>2. u[i-1] = s[j-1]
          BY <1>2, <4>1, Zenon
        <4> QED
          BY <4>1, <4>2, Zenon DEF SecondOfPair
      <3> QED
        BY <3>1, <3>2
    <2>4. Announces(u, i) <=> Announces(s, j)
      <3>1. CASE i = n + m
        <4>1. ~ (i < n + m) /\ ~ (j < m) /\ Len(u) = n + m /\ Len(s) = m
          BY <1>1, <1>2, <1>3, <3>1
        <4> QED
          BY <4>1, Zenon DEF Announces
      <3>2. CASE i # n + m
        <4>1. /\ i < n + m /\ j < m /\ i + 1 \in 1 .. n + m /\ ~ (i + 1 <= n)
              /\ (i + 1) - n = j + 1
          BY <1>1, <3>2
        <4>2. u[i+1] = s[j+1] /\ Len(u) = n + m /\ Len(s) = m
          BY <1>2, <1>3, <4>1, Zenon
        <4> QED
          BY <4>1, <4>2, Zenon DEF Announces
      <3> QED
        BY <3>1, <3>2
    <2>5. SymbolsAt(u, h, i) = SymbolsAt(s, 0, j)
      <3>1. i \in Nat /\ j \in Nat /\ h \in Nat /\ 0 \in Nat /\ (i <= h <=> j <= 0)
        BY <1>1, <2>1
      <3> HIDE DEF j
      <3>2. i > h /\ u[i] = FF => (Announces(u, i) <=> Announces(s, j))
        BY <2>4, Zenon
      <3>3. Alike(u, h, i, s, 0, j)
        BY <2>2, <2>3, <3>1, <3>2, Zenon DEF Alike
      <3> QED
        BY ONLY <3>1, <3>3, SymbolsSame, SMT
    <2> QED
      BY <2>1, <2>5
  <1> HIDE DEF U
  <1>9. U = B \o C
    <2> DEFINE BC == B \o C
    <2>1. /\ BC \in Seq(Seq(Sym)) /\ Len(BC) = n + m
          /\ \A i \in 1 .. n + m : BC[i] = IF i <= n THEN B[i] ELSE C[i - n]
      <3> HIDE DEF B, C
      <3> QED
        BY <1>4, <1>5, ConcatProperties
    <2>2. ASSUME NEW i \in 1 .. n + m PROVE U[i] = BC[i]
      <3> HIDE DEF BC
      <3>1. CASE i <= n
        <4>1. i \in 1 .. n
          BY <3>1
        <4> QED
          BY <1>7, <2>1, <3>1, <4>1
      <3>2. CASE ~ (i <= n)
        <4>1. i \in n + 1 .. n + m /\ i - n \in 1 .. m
          BY <1>1, <3>2
        <4>2. C[i - n] = SymbolsAt(s, 0, i - n)
          BY <4>1
        <4> QED
          BY <1>8, <2>1, <3>2, <4>1, <4>2, Zenon
      <3> QED
        BY <3>1, <3>2
    <2> HIDE DEF BC, B, C
    <2>3. Len(U) = Len(BC) /\ \A i \in 1 .. Len(U) : U[i] = BC[i]
      BY <1>6, <2>1, <2>2
    <2>4. U = BC
      BY <1>6, <2>1, <2>3, SeqEqual
    <2> QED
      BY <2>4 DEF BC
  <1>10. Decoded(b, h) = FlattenSeq(B) /\ Decoded(s, 0) = FlattenSeq(C) /\ Decoded(u, h) = FlattenSeq(U)
    BY <1>3 DEF Decoded, U
  <1> HIDE DEF B, C
  <1>11. FlattenSeq(B \o C) = FlattenSeq(B) \o FlattenSeq(C)
    BY <1>4, <1>5, FlattenConcat
  <1>12. FlattenSeq(B) \in Seq(Sym) /\ FlattenSeq(C) \in Seq(Sym)
    BY <1>4, <1>5, FlattenTyped
  <1> QED
    BY <1>9, <1>10, <1>11, <1>12, Zenon DEF u

\* Bytes none of which is all ones are bits of code.
LEMMA DecodedPlain ==
  \A s \in Seq(Byte) : (\A i \in 1 .. Len(s) : s[i] # FF) => Decoded(s, 0) = BitSyms(FlattenSeq(s))
  <1> SUFFICES ASSUME NEW s \in Seq(Byte), \A i \in 1 .. Len(s) : s[i] # FF
               PROVE  Decoded(s, 0) = BitSyms(FlattenSeq(s))
    OBVIOUS
  <1> DEFINE n == Len(s)
  <1>1. n \in Nat /\ DOMAIN s = 1 .. n /\ s \in [1 .. n -> Byte]
    BY LenProperties
  <1>2. s \in [1 .. n -> Seq(Bit)]
    <2>1. \A x \in Byte : x \in Seq(Bit)
      BY ByteIsBits
    <2> QED
      BY <1>1, <2>1
  <1>3. ASSUME NEW i \in 1 .. n PROVE SymbolsAt(s, 0, i) = BitSyms(s[i])
    <2>1. i \in Nat /\ 0 \in Nat /\ i > 0 /\ (i > 0 + 1 => i - 1 \in 1 .. n)
      BY <1>1
    <2>2. ~SecondOfPair(s, 0, i)
      BY <2>1, Zenon DEF SecondOfPair
    <2> QED
      BY <2>1, <2>2, SymbolsCases, Zenon
  <1>4. Decoded(s, 0) = FlattenSeq([i \in 1 .. n |-> BitSyms(s[i])])
    BY <1>1, <1>3, Zenon DEF Decoded
  <1> HIDE DEF n
  <1> QED
    BY <1>1, <1>2, <1>4, BitSymsFlatten, Zenon

\* An all-ones byte and the byte after it.
LEMMA DecodedPair ==
  \A y \in Byte \ {FF} :
     Decoded(<<FF, y>>, 0) = IF y = Zeros(ByteBits) THEN BitSyms(FF) ELSE MarkerSyms(y)
  <1> SUFFICES ASSUME NEW y \in Byte, y # FF
               PROVE  Decoded(<<FF, y>>, 0) = IF y = Zeros(ByteBits) THEN BitSyms(FF) ELSE MarkerSyms(y)
    OBVIOUS
  <1> DEFINE p == <<FF, y>>
             a == SymbolsAt(p, 0, 1)
             b == SymbolsAt(p, 0, 2)
             z == Zeros(ByteBits)
  <1>1. FF \in Byte
    BY ConstantBits
  <1>2. p \in Seq(Byte) /\ Len(p) = 2 /\ DOMAIN p = 1 .. 2 /\ p[1] = FF /\ p[2] = y
    BY <1>1
  <1>3. 0 \in Nat /\ 1 \in Nat /\ 2 \in Nat /\ 1 > 0 /\ ~ (1 > 0 + 1) /\ 2 > 0 + 1 /\ 1 < 2
        /\ 2 - 1 = 1 /\ 1 + 1 = 2 /\ 1 \in 1 .. 2 /\ 2 \in 1 .. 2
    OBVIOUS
  <1> HIDE DEF p, z
  <1>4. a \in Seq(Sym) /\ b \in Seq(Sym)
    BY <1>2, <1>3, SymbolsTyped
  <1>5. ~SecondOfPair(p, 0, 1) /\ SecondOfPair(p, 0, 2)
    BY <1>2, <1>3, Zenon DEF SecondOfPair
  <1>6. Announces(p, 1) <=> y # z
    BY <1>2, <1>3, Zenon DEF Announces, z
  <1>7. a = IF Announces(p, 1) THEN <<>> ELSE BitSyms(FF)
    BY <1>2, <1>3, <1>5, SymbolsCases, Zenon
  <1>8. b = IF y = z THEN <<>> ELSE MarkerSyms(y)
    BY <1>2, <1>3, <1>5, SymbolsCases, Zenon DEF z
  <1> DEFINE f == [i \in 1 .. 2 |-> SymbolsAt(p, 0, i)]
  <1>9. Decoded(p, 0) = FlattenSeq(f)
    BY <1>2, Zenon DEF Decoded
  <1>10. f = <<a, b>>
    <2>1. f[1] = a /\ f[2] = b
      BY <1>3
    <2>2. f \in [1 .. 2 -> Seq(Sym)]
      <3>1. \A i \in 1 .. 2 : SymbolsAt(p, 0, i) \in Seq(Sym)
        BY <1>2, <1>3, SymbolsTyped
      <3> QED
        BY <3>1
    <2>3. f \in Seq(Seq(Sym)) /\ Len(f) = 2
      <3> HIDE DEF f
      <3> QED
        BY <1>3, <2>2, FunctionIsSeq
    <2> HIDE DEF f, a, b
    <2>4. <<a, b>> \in Seq(Seq(Sym)) /\ Len(<<a, b>>) = 2 /\ <<a, b>>[1] = a /\ <<a, b>>[2] = b
      BY <1>4
    <2>5. \A i \in 1 .. 2 : f[i] = <<a, b>>[i]
      <3>1. \A i \in 1 .. 2 : i = 1 \/ i = 2
        OBVIOUS
      <3> QED
        BY <2>1, <2>4, <3>1, Zenon
    <2> QED
      BY <2>3, <2>4, <2>5, SeqEqual
  <1> HIDE DEF f, a, b
  <1>11. FlattenSeq(<<a, b>>) = a \o b
    <2>1. <<a>> \in Seq(Seq(Sym)) /\ <<b>> \in Seq(Seq(Sym))
      BY <1>4
    <2>2. FlattenSeq(<<a>> \o <<b>>) = FlattenSeq(<<a>>) \o FlattenSeq(<<b>>)
      BY <2>1, FlattenConcat
    <2>3. <<a>> \o <<b>> = <<a, b>>
      BY PairIsConcat
    <2>4. FlattenSeq(<<a>>) = a /\ FlattenSeq(<<b>>) = b
      BY <1>4, FlattenOne
    <2> QED
      BY <2>2, <2>3, <2>4, Zenon
  <1>12. a \o <<>> = a /\ <<>> \o b = b
    BY <1>4, ConcatEmptySeq
  <1>13. Decoded(p, 0) = a \o b
    BY <1>9, <1>10, <1>11, Zenon
  <1>14. CASE y = z
    <2>1. a = BitSyms(FF) /\ b = <<>>
      BY <1>6, <1>7, <1>8, <1>14, Zenon
    <2> QED
      BY <1>12, <1>13, <1>14, <2>1, Zenon DEF p, z
  <1>15. CASE y # z
    <2>1. a = <<>> /\ b = MarkerSyms(y)
      BY <1>6, <1>7, <1>8, <1>15, Zenon
    <2> QED
      BY <1>12, <1>13, <1>15, <2>1, Zenon DEF p, z
  <1> QED
    BY <1>14, <1>15

\* A stream that holds a header only.
LEMMA DecodedHeader ==
  \A b \in Seq(Byte) :
     Decoded(b, Len(b)) = [i \in 1 .. Len(b) |-> [kind |-> "header", v |-> b[i]]]
  <1> SUFFICES ASSUME NEW b \in Seq(Byte)
               PROVE  Decoded(b, Len(b)) = [i \in 1 .. Len(b) |-> [kind |-> "header", v |-> b[i]]]
    OBVIOUS
  <1> DEFINE n == Len(b)
             f == [i \in 1 .. n |-> [kind |-> "header", v |-> b[i]]]
  <1>1. n \in Nat /\ DOMAIN b = 1 .. n /\ b \in [1 .. n -> Byte] /\ Len(b) = n
    BY LenProperties
  <1>2. f \in [1 .. n -> Sym]
    <2>1. \A i \in 1 .. n : b[i] \in Seq(Bit)
      BY <1>1, ByteIsBits
    <2> QED
      BY <2>1 DEF Sym
  <1> HIDE DEF n
  <1>3. ASSUME NEW i \in 1 .. n PROVE SymbolsAt(b, n, i) = <<f[i]>>
    <2>1. i \in Nat /\ i <= n
      BY <1>1
    <2>2. SymbolsAt(b, n, i) = HeaderSyms(b[i])
      BY <1>1, <2>1, SymbolsCases, Zenon
    <2>3. f[i] = [kind |-> "header", v |-> b[i]]
      BY Zenon
    <2> HIDE DEF f
    <2> QED
      BY <2>2, <2>3, Zenon DEF HeaderSyms
  <1> HIDE DEF f
  <1>4. Decoded(b, n) = FlattenSeq([i \in 1 .. n |-> <<f[i]>>])
    BY <1>1, <1>3, Zenon DEF Decoded
  <1>5. FlattenSeq([i \in 1 .. n |-> <<f[i]>>]) = f
    BY <1>1, <1>2, FlattenSingletons, Zenon
  <1> QED
    BY <1>4, <1>5, Zenon DEF f, n

\* One more header byte.
LEMMA DecodedHeaderByte ==
  \A b \in Seq(Byte) : \A x \in Byte :
     Decoded(b \o <<x>>, Len(b) + 1) = Append(Decoded(b, Len(b)), [kind |-> "header", v |-> x])
  <1> SUFFICES ASSUME NEW b \in Seq(Byte), NEW x \in Byte
               PROVE  Decoded(b \o <<x>>, Len(b) + 1)
                        = Append(Decoded(b, Len(b)), [kind |-> "header", v |-> x])
    OBVIOUS
  <1> DEFINE n == Len(b)
             u == b \o <<x>>
             f == [i \in 1 .. n |-> [kind |-> "header", v |-> b[i]]]
             g == [i \in 1 .. n + 1 |-> [kind |-> "header", v |-> u[i]]]
  <1>1. n \in Nat /\ n + 1 \in 1 .. n + 1 /\ \A i \in 1 .. n : i \in 1 .. n + 1 /\ i <= n
    BY LenProperties
  <1>2. /\ u \in Seq(Byte) /\ Len(u) = n + 1
        /\ \A i \in 1 .. n : u[i] = b[i]
        /\ u[n+1] = x
    <2> DEFINE e == <<x>>
    <2>1. e \in Seq(Byte) /\ Len(e) = 1 /\ e[1] = x
      OBVIOUS
    <2> HIDE DEF e
    <2>2. /\ b \o e \in Seq(Byte) /\ Len(b \o e) = n + 1
          /\ \A i \in 1 .. n + 1 : (b \o e)[i] = IF i <= n THEN b[i] ELSE e[i - n]
      BY <2>1, ConcatProperties
    <2>3. (n + 1) - n = 1 /\ ~ (n + 1 <= n)
      BY <1>1
    <2> HIDE DEF n
    <2>4. /\ \A i \in 1 .. n : (b \o e)[i] = b[i]
          /\ (b \o e)[n+1] = x
      BY <1>1, <2>1, <2>2, <2>3
    <2> QED
      BY <2>2, <2>4 DEF e
  <1> HIDE DEF u
  <1>3. Decoded(b, n) = f /\ Decoded(u, n + 1) = g
    <2>1. Decoded(b, n) = f
      BY DecodedHeader
    <2>2. Decoded(u, Len(u)) = [i \in 1 .. Len(u) |-> [kind |-> "header", v |-> u[i]]]
      BY <1>2, DecodedHeader
    <2> QED
      BY <1>2, <2>1, <2>2, Zenon
  <1>4. f = [i \in 1 .. n |-> g[i]]
    <2>1. ASSUME NEW i \in 1 .. n PROVE g[i] = [kind |-> "header", v |-> b[i]]
      <3>1. i \in 1 .. n + 1 /\ u[i] = b[i]
        BY <1>1, <1>2
      <3> QED
        BY <3>1, Zenon
    <2> QED
      BY <2>1, Zenon
  <1>5. g[n+1] = [kind |-> "header", v |-> x]
    BY <1>1, <1>2, Zenon
  <1>6. g \in [1 .. n + 1 -> Sym]
    <2>1. ASSUME NEW i \in 1 .. n + 1 PROVE u[i] \in Seq(Bit)
      <3>1. i \in 1 .. Len(u)
        BY <1>2
      <3>2. u[i] \in Byte
        BY <1>2, <3>1, ElementOfSeq
      <3> QED
        BY <3>2, ByteIsBits
    <2> HIDE DEF n
    <2> QED
      BY <2>1 DEF Sym
  <1> HIDE DEF f, g, n
  <1>7. Append(f, g[n+1]) = g
    BY <1>1, <1>4, <1>6, PrefixAndLast
  <1> QED
    BY <1>3, <1>5, <1>7, Zenon DEF u, n

-----------------------------------------------------------------------------
(* Counting the code bits read. *)

\* The code bits of a stream of symbols.
BitsIn(s) == Cardinality({i \in DOMAIN s : s[i].kind = "bit"})

\* A stream of symbols holds a natural number of code bits.
LEMMA BitsInNat ==
  \A s \in Seq(Sym) : /\ BitsIn(s) \in Nat
                      /\ IsFiniteSet({i \in DOMAIN s : s[i].kind = "bit"})
                      /\ {i \in DOMAIN s : s[i].kind = "bit"} \in SUBSET (1 .. Len(s))
  <1> SUFFICES ASSUME NEW s \in Seq(Sym)
               PROVE  /\ BitsIn(s) \in Nat
                      /\ IsFiniteSet({i \in DOMAIN s : s[i].kind = "bit"})
                      /\ {i \in DOMAIN s : s[i].kind = "bit"} \in SUBSET (1 .. Len(s))
    OBVIOUS
  <1> DEFINE A == {i \in DOMAIN s : s[i].kind = "bit"}
             n == Len(s)
  <1>1. n \in Nat /\ DOMAIN s = 1 .. n
    BY LenProperties
  <1>2. A \in SUBSET (1 .. n)
    BY <1>1
  <1> HIDE DEF A, n
  <1>3. IsFiniteSet(1 .. n)
    BY <1>1, FS_Interval
  <1>4. IsFiniteSet(A) /\ Cardinality(A) \in Nat
    BY <1>2, <1>3, FS_Subset, FS_CardinalityType
  <1> QED
    BY <1>2, <1>4 DEF A, n, BitsIn

\* The code bits of a concatenation are those of its halves.
LEMMA BitsInConcat ==
  \A x, y \in Seq(Sym) : BitsIn(x \o y) = BitsIn(x) + BitsIn(y)
  <1> SUFFICES ASSUME NEW x \in Seq(Sym), NEW y \in Seq(Sym)
               PROVE  BitsIn(x \o y) = BitsIn(x) + BitsIn(y)
    OBVIOUS
  <1> DEFINE n == Len(x)
             m == Len(y)
             z == x \o y
             A == {i \in DOMAIN x : x[i].kind = "bit"}
             B == {i \in DOMAIN y : y[i].kind = "bit"}
             C == {n + i : i \in B}
             Z == {i \in DOMAIN z : z[i].kind = "bit"}
  <1>1. n \in Nat /\ m \in Nat /\ DOMAIN x = 1 .. n /\ DOMAIN y = 1 .. m
    BY LenProperties
  <1>2. /\ z \in Seq(Sym) /\ Len(z) = n + m /\ DOMAIN z = 1 .. n + m
        /\ \A i \in 1 .. n + m : z[i] = IF i <= n THEN x[i] ELSE y[i - n]
    <2>1. /\ z \in Seq(Sym) /\ Len(z) = n + m
          /\ \A i \in 1 .. n + m : z[i] = IF i <= n THEN x[i] ELSE y[i - n]
      BY ConcatProperties
    <2> HIDE DEF z, n, m
    <2> QED
      BY <2>1, LenProperties
  <1>3. /\ IsFiniteSet(A) /\ IsFiniteSet(B) /\ A \in SUBSET (1 .. n) /\ B \in SUBSET (1 .. m)
        /\ Cardinality(A) = BitsIn(x) /\ Cardinality(B) = BitsIn(y) /\ Cardinality(Z) = BitsIn(z)
        /\ Cardinality(A) \in Nat /\ Cardinality(B) \in Nat
    BY BitsInNat DEF BitsIn
  <1> HIDE DEF n, m, z
  <1>4. Z = A \cup C
    <2>1. ASSUME NEW i \in Z PROVE i \in A \cup C
      <3>1. i \in 1 .. n + m /\ z[i].kind = "bit"
        BY <1>2
      <3>2. CASE i <= n
        <4>1. i \in 1 .. n /\ z[i] = x[i]
          BY <1>1, <1>2, <3>1, <3>2
        <4> QED
          BY <1>1, <3>1, <4>1, Zenon
      <3>3. CASE ~ (i <= n)
        <4>1. i - n \in 1 .. m /\ z[i] = y[i - n] /\ n + (i - n) = i
          BY <1>1, <1>2, <3>1, <3>3
        <4>2. i - n \in B
          BY <1>1, <3>1, <4>1, Zenon
        <4> QED
          BY <4>1, <4>2, Zenon
      <3> QED
        BY <3>2, <3>3
    <2>2. ASSUME NEW i \in A PROVE i \in Z
      <3>1. i \in 1 .. n /\ x[i].kind = "bit"
        BY <1>1
      <3>2. i \in 1 .. n + m /\ i <= n
        BY <1>1, <3>1
      <3>3. z[i] = x[i]
        BY <1>2, <3>2
      <3> QED
        BY <1>2, <3>1, <3>2, <3>3, Zenon
    <2>3. ASSUME NEW i \in C PROVE i \in Z
      <3>1. PICK j \in B : i = n + j
        OBVIOUS
      <3>2. j \in 1 .. m /\ y[j].kind = "bit"
        BY <1>1
      <3>3. i \in 1 .. n + m /\ ~ (i <= n) /\ i - n = j
        BY <1>1, <3>1, <3>2
      <3>4. z[i] = y[j]
        BY <1>2, <3>3
      <3> QED
        BY <1>2, <3>2, <3>3, <3>4, Zenon
    <2> HIDE DEF A, C, Z
    <2> QED
      BY <2>1, <2>2, <2>3
  <1> HIDE DEF A, B, Z
  <1>5. IsFiniteSet(C) /\ Cardinality(C) = Cardinality(B)
    <2> DEFINE f == [i \in B |-> n + i]
    <2>1. f \in [B -> C] /\ \A c \in C : \E i \in B : f[i] = c
      OBVIOUS
    <2>2. \A i, j \in B : f[i] = f[j] => i = j
      BY <1>1, <1>3
    <2> HIDE DEF f, C
    <2>3. ExistsBijection(B, C)
      BY <2>1, <2>2, Fun_IsBij, Zenon DEF ExistsBijection
    <2> QED
      BY <1>3, <2>3, FS_Bijection
  <1>6. A \cap C = {}
    BY <1>1, <1>3
  <1> HIDE DEF C
  <1>7. Cardinality(A \cup C) = Cardinality(A) + Cardinality(C) - Cardinality(A \cap C)
    BY <1>3, <1>5, FS_Union
  <1>8. Cardinality(A \cap C) = 0
    BY <1>6, FS_EmptySet
  <1>9. Cardinality(Z) = Cardinality(A) + Cardinality(B)
    BY <1>3, <1>4, <1>5, <1>7, <1>8
  <1> QED
    BY <1>3, <1>9 DEF z

\* Each symbol of a code bit counts.
LEMMA BitsInBits == \A s \in Seq(Bit) : BitsIn(BitSyms(s)) = Len(s)
  <1> SUFFICES ASSUME NEW s \in Seq(Bit) PROVE BitsIn(BitSyms(s)) = Len(s)
    OBVIOUS
  <1> DEFINE n == Len(s)
             x == BitSyms(s)
  <1>1. n \in Nat
    BY LenProperties
  <1>2. x \in Seq(Sym) /\ Len(x) = n /\ \A i \in 1 .. n : x[i] = [kind |-> "bit", v |-> <<s[i]>>]
    BY BitSymsOf
  <1> HIDE DEF n, x
  <1>3. DOMAIN x = 1 .. n
    BY <1>2, LenProperties
  <1>4. \A i \in 1 .. n : x[i].kind = "bit"
    BY <1>2
  <1>5. {i \in DOMAIN x : x[i].kind = "bit"} = 1 .. n
    BY <1>3, <1>4, Zenon
  <1>6. Cardinality(1 .. n) = n
    <2>1. 1 \in Int /\ n \in Int
      BY <1>1
    <2>2. Cardinality(1 .. n) = IF 1 > n THEN 0 ELSE n - 1 + 1
      BY <2>1, FS_Interval
    <2> QED
      BY <1>1, <2>2
  <1> QED
    BY <1>5, <1>6, Zenon DEF BitsIn, n, x

\* A header or marker symbol does not count.
LEMMA BitsInOne ==
  \A x \in Sym : x.kind # "bit" => <<x>> \in Seq(Sym) /\ BitsIn(<<x>>) = 0
  <1> SUFFICES ASSUME NEW x \in Sym, x.kind # "bit" PROVE <<x>> \in Seq(Sym) /\ BitsIn(<<x>>) = 0
    OBVIOUS
  <1> DEFINE s == <<x>>
  <1>1. s \in Seq(Sym) /\ DOMAIN s = 1 .. 1 /\ s[1] = x
    <2> HIDE DEF Sym
    <2> QED
      OBVIOUS
  <1> HIDE DEF s
  <1>2. \A i \in 1 .. 1 : i = 1
    OBVIOUS
  <1>3. {i \in DOMAIN s : s[i].kind = "bit"} = {}
    BY <1>1, <1>2, Zenon
  <1>4. BitsIn(s) = 0
    BY <1>3, FS_EmptySet DEF BitsIn
  <1> QED
    BY <1>1, <1>4 DEF s

\* Nothing read, no code bits.
LEMMA BitsInEmpty == BitsIn(<<>>) = 0
  <1>1. <<>> \in Seq(Bit) /\ Len(<<>>) = 0
    BY EmptySeq
  <1> QED
    BY <1>1, BitsInBits, BitSymsEmpty

-----------------------------------------------------------------------------
(* What is read of a stream that is being written. *)

\* What a decoder reads of a stream in which bits d + 1 .. WordBits of the word w
\* and the bytes of t are not written yet.
ReadOf(b, h, t, w, d) ==
  Decoded(b, h) \o BitSyms(FlattenSeq(t)) \o BitSyms(SubSeq(w, d + 1, WordBits))

\* Bytes put one after the other are bits.
LEMMA BytesToBits == \A t \in Seq(Byte) : t \in Seq(Seq(Bit)) /\ FlattenSeq(t) \in Seq(Bit)
  <1> SUFFICES ASSUME NEW t \in Seq(Byte) PROVE t \in Seq(Seq(Bit)) /\ FlattenSeq(t) \in Seq(Bit)
    OBVIOUS
  <1> DEFINE n == Len(t)
  <1>1. n \in Nat /\ t \in [1 .. n -> Byte]
    BY LenProperties
  <1>2. t \in [1 .. n -> Seq(Bit)]
    <2>1. \A x \in Byte : x \in Seq(Bit)
      BY ByteIsBits
    <2> QED
      BY <1>1, <2>1
  <1> HIDE DEF n
  <1>3. t \in Seq(Seq(Bit))
    BY <1>1, <1>2, FunctionIsSeq
  <1> QED
    BY <1>3, FlattenTyped

\* What is read: the bytes written, then the bits not written yet.
LEMMA ReadParts ==
  \A b, t \in Seq(Byte) : \A h \in 0 .. Len(b) : \A w \in Word : \A d \in 0 .. WordBits :
     Whole(b, h) =>
       /\ Decoded(b, h) \in Seq(Sym)
       /\ FlattenSeq(t) \in Seq(Bit)
       /\ WordBits - d \in 0 .. WordBits
       /\ Low(w, WordBits - d) \in Seq(Bit)
       /\ Len(Low(w, WordBits - d)) = WordBits - d
       /\ ReadOf(b, h, t, w, d) = Decoded(b, h) \o BitSyms(FlattenSeq(t) \o Low(w, WordBits - d))
       /\ ReadOf(b, h, t, w, d) \in Seq(Sym)
  <1> SUFFICES ASSUME NEW b \in Seq(Byte), NEW t \in Seq(Byte), NEW h \in 0 .. Len(b),
                      NEW w \in Word, NEW d \in 0 .. WordBits, Whole(b, h)
               PROVE  /\ Decoded(b, h) \in Seq(Sym)
                      /\ FlattenSeq(t) \in Seq(Bit)
                      /\ WordBits - d \in 0 .. WordBits
                      /\ Low(w, WordBits - d) \in Seq(Bit)
                      /\ Len(Low(w, WordBits - d)) = WordBits - d
                      /\ ReadOf(b, h, t, w, d)
                           = Decoded(b, h) \o BitSyms(FlattenSeq(t) \o Low(w, WordBits - d))
                      /\ ReadOf(b, h, t, w, d) \in Seq(Sym)
    OBVIOUS
  <1> DEFINE D == Decoded(b, h)
             F == FlattenSeq(t)
             q == WordBits - d
             P == Low(w, q)
  <1>1. D \in Seq(Sym)
    BY DecodedConcat
  <1>2. F \in Seq(Bit)
    BY BytesToBits
  <1>3. q \in 0 .. WordBits /\ WordBits - q = d /\ d + q = WordBits
    BY WordBitsNat
  <1> HIDE DEF q
  <1>4. P \in Seq(Bit) /\ Len(P) = q
    BY <1>3, LowOf
  <1>5. P = SubSeq(w, d + 1, WordBits)
    BY <1>3 DEF Low
  <1>6. ReadOf(b, h, t, w, d) = (D \o BitSyms(F)) \o BitSyms(P)
    BY <1>5, Zenon DEF ReadOf
  <1> HIDE DEF D, F, P
  <1>7. BitSyms(F) \in Seq(Sym) /\ BitSyms(P) \in Seq(Sym)
    BY <1>2, <1>4, BitSymsOf
  <1>8. (D \o BitSyms(F)) \o BitSyms(P) = D \o (BitSyms(F) \o BitSyms(P))
    BY <1>1, <1>7, ConcatAssociative
  <1>9. BitSyms(F) \o BitSyms(P) = BitSyms(F \o P)
    BY <1>2, <1>4, BitSymsConcat
  <1>10. D \o (BitSyms(F) \o BitSyms(P)) \in Seq(Sym)
    BY <1>1, <1>7, ConcatProperties
  <1> HIDE DEF Sym
  <1>11. ReadOf(b, h, t, w, d) = D \o BitSyms(F \o P) /\ ReadOf(b, h, t, w, d) \in Seq(Sym)
    BY <1>6, <1>8, <1>9, <1>10
  <1> QED
    BY <1>1, <1>2, <1>3, <1>4, <1>11 DEF D, F, P, q

\* It does not matter which of three pieces of bits are joined first.
LEMMA BitsAssociate == \A x, y, z \in Seq(Bit) : (x \o y) \o z = x \o (y \o z)
  BY ConcatAssociative

\* Bits moved from the unwritten part into the stream.
LEMMA MoveBits ==
  \A D \in Seq(Sym) : \A x, y \in Seq(Bit) :
     (D \o BitSyms(x)) \o BitSyms(y) = D \o BitSyms(x \o y)
  <1> SUFFICES ASSUME NEW D \in Seq(Sym), NEW x \in Seq(Bit), NEW y \in Seq(Bit)
               PROVE  (D \o BitSyms(x)) \o BitSyms(y) = D \o BitSyms(x \o y)
    OBVIOUS
  <1>1. BitSyms(x) \in Seq(Sym) /\ BitSyms(y) \in Seq(Sym)
    BY BitSymsOf
  <1>2. (D \o BitSyms(x)) \o BitSyms(y) = D \o (BitSyms(x) \o BitSyms(y))
    BY <1>1, ConcatAssociative
  <1> QED
    BY <1>2, BitSymsConcat, Zenon

\* Nothing appended changes nothing.
LEMMA NoBits == /\ <<>> \in Seq(Bit) /\ <<>> \in Seq(Byte) /\ FlattenSeq(<<>>) = <<>>
                /\ \A s \in Seq(Bit) : s \o <<>> = s /\ <<>> \o s = s
                /\ \A D \in Seq(Sym) : D \o BitSyms(<<>>) = D
  BY EmptySeq, FlattenEmpty, BitSymsEmpty, ConcatEmptySeq

\* The remainder of a division is determined.
LEMMA Remainder ==
  \A B \in Nat \ {0} : \A q \in Nat : \A r \in 0 .. B - 1 : (B * q + r) % B = r
  <1> SUFFICES ASSUME NEW B \in Nat \ {0}, NEW q \in Nat, NEW r \in 0 .. B - 1
               PROVE  (B * q + r) % B = r
    OBVIOUS
  <1> DEFINE a == B * q + r
             d == a \div B
             m == a % B
  <1>1. a \in Nat /\ d \in Int /\ m \in 0 .. B - 1 /\ a = B * d + m
    OBVIOUS
  <1>2. B * (q - d) = m - r
    BY <1>1
  <1> HIDE DEF d, m
  <1>3. q - d >= 1 => B * (q - d) >= B
    BY <1>1
  <1>4. q - d <= -1 => B * (q - d) <= - B
    BY <1>1
  <1>5. q - d = 0
    BY <1>1, <1>2, <1>3, <1>4
  <1>6. B * (q - d) = 0
    BY <1>1, <1>5
  <1> QED
    BY <1>1, <1>2, <1>6 DEF m

\* What ends a stream.
EndedBy(r) == r # <<>> /\ r[Len(r)] = [kind |-> "marker", v |-> EOI]

\* The end of a concatenation is the end of its second half.
LEMMA EndOfConcat ==
  \A r, t \in Seq(Sym) : t # <<>> => (EndedBy(r \o t) <=> EndedBy(t))
  <1> SUFFICES ASSUME NEW r \in Seq(Sym), NEW t \in Seq(Sym), t # <<>>
               PROVE  EndedBy(r \o t) <=> EndedBy(t)
    OBVIOUS
  <1>1. Len(t) \in Nat \ {0} /\ Len(r) \in Nat
    BY EmptySeq, LenProperties
  <1> DEFINE n == Len(r)
             m == Len(t)
             u == r \o t
  <1>2. /\ u \in Seq(Sym) /\ Len(u) = n + m
        /\ \A i \in 1 .. n + m : u[i] = IF i <= n THEN r[i] ELSE t[i - n]
    BY ConcatProperties
  <1>3. n + m \in 1 .. n + m /\ ~ (n + m <= n) /\ (n + m) - n = m /\ n + m # 0
    BY <1>1
  <1> HIDE DEF n, m, u
  <1>4. u[n + m] = t[m]
    BY <1>2, <1>3
  <1>5. u # <<>>
    BY <1>2, <1>3, EmptySeq
  <1>6. Len(t) = m
    BY DEF m
  <1> QED
    BY <1>2, <1>4, <1>5, <1>6, Zenon DEF EndedBy, u

\* Code bits do not end in the end marker.
LEMMA BitsDontEnd == \A s \in Seq(Bit) : ~EndedBy(BitSyms(s))
  <1> SUFFICES ASSUME NEW s \in Seq(Bit), EndedBy(BitSyms(s)) PROVE FALSE
    OBVIOUS
  <1> DEFINE x == BitSyms(s)
             n == Len(s)
  <1>1. x \in Seq(Sym) /\ Len(x) = n /\ \A i \in 1 .. n : x[i] = [kind |-> "bit", v |-> <<s[i]>>]
    BY BitSymsOf
  <1>2. x # <<>> /\ x[Len(x)] = [kind |-> "marker", v |-> EOI]
    BY DEF EndedBy
  <1> HIDE DEF x, n
  <1>3. n \in 1 .. n
    BY <1>1, <1>2, EmptySeq
  <1>4. [kind |-> "bit", v |-> <<s[n]>>] = [kind |-> "marker", v |-> EOI]
    BY <1>1, <1>2, <1>3
  <1>5. "bit" = "marker"
    BY <1>4
  <1> QED
    BY <1>5

\* Bits put do not end a stream that is not ended.
LEMMA StillOpen ==
  \A r \in Seq(Sym) : \A s \in Seq(Bit) : ~EndedBy(r) => ~EndedBy(r \o BitSyms(s))
  <1> SUFFICES ASSUME NEW r \in Seq(Sym), NEW s \in Seq(Bit), ~EndedBy(r)
               PROVE  ~EndedBy(r \o BitSyms(s))
    OBVIOUS
  <1>1. BitSyms(s) \in Seq(Sym)
    BY BitSymsOf
  <1>2. CASE BitSyms(s) = <<>>
    BY <1>2, ConcatEmptySeq, Zenon
  <1>3. CASE BitSyms(s) # <<>>
    BY <1>1, <1>3, EndOfConcat, BitsDontEnd, Zenon
  <1> QED
    BY <1>2, <1>3

\* Neither does a symbol that is not the end marker.
LEMMA OneMore ==
  \A r \in Seq(Sym) : \A x \in Sym :
     /\ Append(r, x) = r \o <<x>>
     /\ x # [kind |-> "marker", v |-> EOI] => ~EndedBy(Append(r, x))
     /\ x.kind # "bit" => BitsIn(Append(r, x)) = BitsIn(r)
  <1> SUFFICES ASSUME NEW r \in Seq(Sym), NEW x \in Sym
               PROVE  /\ Append(r, x) = r \o <<x>>
                      /\ x # [kind |-> "marker", v |-> EOI] => ~EndedBy(Append(r, x))
                      /\ x.kind # "bit" => BitsIn(Append(r, x)) = BitsIn(r)
    OBVIOUS
  <1>1. Append(r, x) = r \o <<x>>
    BY AppendIsConcat
  <1>2. /\ Append(r, x) \in Seq(Sym) /\ Len(Append(r, x)) = Len(r) + 1
        /\ Append(r, x)[Len(r) + 1] = x
    BY AppendProperties
  <1>3. x # [kind |-> "marker", v |-> EOI] => ~EndedBy(Append(r, x))
    BY <1>2, Zenon DEF EndedBy
  <1>4. ASSUME x.kind # "bit" PROVE BitsIn(Append(r, x)) = BitsIn(r)
    <2>1. <<x>> \in Seq(Sym) /\ BitsIn(<<x>>) = 0
      BY <1>4, BitsInOne
    <2>2. BitsIn(r \o <<x>>) = BitsIn(r) + BitsIn(<<x>>)
      BY <2>1, BitsInConcat
    <2>3. BitsIn(r) \in Nat
      BY BitsInNat
    <2> QED
      BY <1>1, <2>1, <2>2, <2>3
  <1> QED
    BY <1>1, <1>3, <1>4

\* A continuation that does not end in half a pair leaves a stream that does not.
LEMMA WholeConcat ==
  \A b, s \in Seq(Byte) : \A h \in 0 .. Len(b) :
     Len(s) # 0 /\ s[Len(s)] # FF => Whole(b \o s, h) /\ h \in 0 .. Len(b \o s) /\ b \o s \in Seq(Byte)
  <1> SUFFICES ASSUME NEW b \in Seq(Byte), NEW s \in Seq(Byte), NEW h \in 0 .. Len(b),
                      Len(s) # 0, s[Len(s)] # FF
               PROVE  Whole(b \o s, h) /\ h \in 0 .. Len(b \o s) /\ b \o s \in Seq(Byte)
    OBVIOUS
  <1> DEFINE n == Len(b)
             m == Len(s)
             u == b \o s
  <1>1. n \in Nat /\ m \in Nat /\ m # 0
    BY LenProperties
  <1>2. /\ u \in Seq(Byte) /\ Len(u) = n + m
        /\ \A i \in 1 .. n + m : u[i] = IF i <= n THEN b[i] ELSE s[i - n]
    BY ConcatProperties
  <1>3. n + m \in 1 .. n + m /\ ~ (n + m <= n) /\ (n + m) - n = m /\ h \in 0 .. n + m
    BY <1>1
  <1>4. s[m] # FF
    OBVIOUS
  <1> HIDE DEF n, m, u
  <1>5. u[n + m] = s[m]
    BY <1>2, <1>3
  <1> QED
    BY <1>2, <1>3, <1>4, <1>5, Zenon DEF Whole, u

\* What is appended is read after what was there.
LEMMA Stored ==
  \A b, s \in Seq(Byte) : \A h \in 0 .. Len(b) :
     Whole(b, h) /\ Len(s) # 0 /\ s[Len(s)] # FF =>
       /\ Whole(b \o s, h) /\ h \in 0 .. Len(b \o s) /\ b \o s \in Seq(Byte)
       /\ Decoded(b \o s, h) = Decoded(b, h) \o Decoded(s, 0)
  BY WholeConcat, DecodedConcat, Zenon

\* A turn of the emitting loop writes the bits of its byte.
LEMMA StoredByte ==
  \A b \in Seq(Byte) : \A h \in 0 .. Len(b) : \A x \in Byte : \A s :
     /\ Whole(b, h)
     /\ x = FF => s = <<FF, Zeros(ByteBits)>>
     /\ x # FF => s = <<x>>
     => /\ Whole(b \o s, h) /\ h \in 0 .. Len(b \o s) /\ b \o s \in Seq(Byte)
        /\ Decoded(b \o s, h) = Decoded(b, h) \o BitSyms(x)
  <1> SUFFICES ASSUME NEW b \in Seq(Byte), NEW h \in 0 .. Len(b), NEW x \in Byte, NEW s, Whole(b, h),
                      x = FF => s = <<FF, Zeros(ByteBits)>>,
                      x # FF => s = <<x>>
               PROVE  /\ Whole(b \o s, h) /\ h \in 0 .. Len(b \o s) /\ b \o s \in Seq(Byte)
                      /\ Decoded(b \o s, h) = Decoded(b, h) \o BitSyms(x)
    OBVIOUS
  <1>1. FF \in Byte /\ Zeros(ByteBits) \in Byte /\ ByteBits \in Nat \ {0}
    BY ConstantBits, BitstreamAssumption
  <1>2. FF # Zeros(ByteBits)
    <2>1. 1 \in 1 .. ByteBits
      BY <1>1
    <2>2. FF[1] = 1 /\ Zeros(ByteBits)[1] = 0
      BY <2>1 DEF FF, Ones, Zeros
    <2> QED
      BY <2>2
  <1>3. s \in Seq(Byte) /\ Len(s) # 0 /\ s[Len(s)] # FF /\ Decoded(s, 0) = BitSyms(x)
    <2>3. CASE x = FF
      <3> DEFINE z == Zeros(ByteBits)
      <3>1. s = <<FF, z>>
        BY <2>3
      <3>2. Decoded(s, 0) = BitSyms(x)
        BY <1>1, <1>2, <2>3, <3>1, DecodedPair, Zenon
      <3>3. s \in Seq(Byte) /\ Len(s) # 0 /\ s[Len(s)] # FF
        <4>1. z \in Byte /\ z # FF
          BY <1>1, <1>2
        <4> HIDE DEF z
        <4> QED
          BY <1>1, <3>1, <4>1
      <3> QED
        BY <3>2, <3>3
    <2>4. CASE x # FF
      <3>1. s = <<x>>
        BY <2>4
      <3>2. s \in Seq(Byte) /\ Len(s) = 1 /\ s[1] = x /\ \A i \in 1 .. 1 : i = 1
        BY <3>1
      <3>3. Decoded(s, 0) = BitSyms(FlattenSeq(s))
        BY <2>4, <3>2, DecodedPlain
      <3>4. FlattenSeq(s) = x
        <4>1. x \in Seq(Bit)
          BY ByteIsBits
        <4> QED
          BY <3>1, <4>1, FlattenOne
      <3>5. Len(s) # 0 /\ s[Len(s)] # FF
        BY <2>4, <3>2
      <3> QED
        BY <3>2, <3>3, <3>4, <3>5, Zenon
    <2> QED
      BY <2>3, <2>4
  <1>4. /\ Whole(b \o s, h) /\ h \in 0 .. Len(b \o s) /\ b \o s \in Seq(Byte)
        /\ Decoded(b \o s, h) = Decoded(b, h) \o Decoded(s, 0)
    <2>1. s \in Seq(Byte) /\ Len(s) # 0 /\ s[Len(s)] # FF /\ Whole(b, h)
      BY <1>3
    <2> QED
      BY ONLY <2>1, Stored, Zenon
  <1> QED
    BY <1>3, <1>4, Zenon

\* A marker put after whole bytes is read as that marker.
LEMMA StoredMarker ==
  \A b \in Seq(Byte) : \A h \in 0 .. Len(b) : \A m \in RSTs \cup {EOI} :
     Whole(b, h) =>
       /\ Whole(b \o <<FF, m>>, h) /\ h \in 0 .. Len(b \o <<FF, m>>) /\ b \o <<FF, m>> \in Seq(Byte)
       /\ Decoded(b \o <<FF, m>>, h) = Decoded(b, h) \o <<[kind |-> "marker", v |-> m]>>
  <1> SUFFICES ASSUME NEW b \in Seq(Byte), NEW h \in 0 .. Len(b), NEW m \in RSTs \cup {EOI}, Whole(b, h)
               PROVE  /\ Whole(b \o <<FF, m>>, h) /\ h \in 0 .. Len(b \o <<FF, m>>)
                      /\ b \o <<FF, m>> \in Seq(Byte)
                      /\ Decoded(b \o <<FF, m>>, h) = Decoded(b, h) \o <<[kind |-> "marker", v |-> m]>>
    OBVIOUS
  <1> DEFINE s == <<FF, m>>
  <1>1. FF \in Byte /\ m \in Byte /\ m # FF /\ m # Zeros(ByteBits)
    BY ConstantBits, BitstreamAssumption
  <1>2. s \in Seq(Byte) /\ Len(s) # 0 /\ s[Len(s)] # FF
    BY <1>1
  <1>3. Decoded(s, 0) = MarkerSyms(m)
    BY <1>1, DecodedPair, Zenon
  <1> HIDE DEF s
  <1>4. /\ Whole(b \o s, h) /\ h \in 0 .. Len(b \o s) /\ b \o s \in Seq(Byte)
        /\ Decoded(b \o s, h) = Decoded(b, h) \o MarkerSyms(m)
    BY <1>2, <1>3, WholeConcat, DecodedConcat, Zenon
  <1> QED
    BY <1>4, Zenon DEF s, MarkerSyms

\* A word without all-ones bytes is read back bit for bit.
LEMMA StoredWord ==
  \A b \in Seq(Byte) : \A h \in 0 .. Len(b) : \A w \in Word :
     Whole(b, h) /\ ~MayStuff(w) =>
       /\ Whole(b \o BytesOf(w), h) /\ h \in 0 .. Len(b \o BytesOf(w)) /\ b \o BytesOf(w) \in Seq(Byte)
       /\ Decoded(b \o BytesOf(w), h) = Decoded(b, h) \o BitSyms(w)
  <1> SUFFICES ASSUME NEW b \in Seq(Byte), NEW h \in 0 .. Len(b), NEW w \in Word,
                      Whole(b, h), ~MayStuff(w)
               PROVE  /\ Whole(b \o BytesOf(w), h) /\ h \in 0 .. Len(b \o BytesOf(w))
                      /\ b \o BytesOf(w) \in Seq(Byte)
                      /\ Decoded(b \o BytesOf(w), h) = Decoded(b, h) \o BitSyms(w)
    OBVIOUS
  <1> DEFINE s == BytesOf(w)
  <1>1. s \in Seq(Byte) /\ Len(s) = WordBytes /\ WordBytes \in Nat \ {0} /\ WordBytes \in 1 .. WordBytes
    BY BytesOfWord, BitstreamAssumption
  <1>2. \A i \in 1 .. WordBytes : s[i] = ByteOf(w, i)
    BY DEF BytesOf
  <1>3. \A i \in 1 .. WordBytes : s[i] # FF
    BY <1>2, NoStuffing, Zenon
  <1>4. FlattenSeq(s) = w
    BY BytesFlatten
  <1> HIDE DEF s
  <1>5. Decoded(s, 0) = BitSyms(w)
    BY <1>1, <1>3, <1>4, DecodedPlain, Zenon
  <1>6. Len(s) # 0 /\ s[Len(s)] # FF
    BY <1>1, <1>3
  <1> QED
    BY <1>1, <1>5, <1>6, WholeConcat, DecodedConcat, Zenon DEF s

-----------------------------------------------------------------------------
\* What a decoder reads of the stream as it stands: the sink of the refinement.
Read == ReadOf(buf, hdr, todo, tmp, bits)

\* The inductive invariant of the refinement: nothing is left to be put between
\* calls, a flush has emptied the word, nothing follows the end marker, and the bits
\* read fill whole bytes but for those pending in the word.
Phase ==
  /\ call \in {"none", "copy"} => todo = <<>>
  /\ call \in {"put_RST", "get_len", "finalize", "copy"} => bits = WordBits
  /\ call = "put_RST" => mark \in RSTs
NotEnded == call # "copy" => ~EndedBy(Read)
Counted == \E d \in Nat : BitsIn(Read) = ByteBits * d + (WordBits - bits)
StreamInv ==
  /\ TypeOK
  /\ Whole(buf, hdr)
  /\ Phase
  /\ NotEnded
  /\ Counted

\* The parts of Read in a state of the invariant.
LEMMA ReadNow ==
  ASSUME TypeOK, Whole(buf, hdr)
  PROVE  /\ Decoded(buf, hdr) \in Seq(Sym)
         /\ FlattenSeq(todo) \in Seq(Bit)
         /\ WordBits - bits \in 0 .. WordBits
         /\ Low(tmp, WordBits - bits) \in Seq(Bit)
         /\ Len(Low(tmp, WordBits - bits)) = WordBits - bits
         /\ Read = Decoded(buf, hdr) \o BitSyms(FlattenSeq(todo) \o Low(tmp, WordBits - bits))
         /\ Read \in Seq(Sym)
  <1>1. buf \in Seq(Byte) /\ todo \in Seq(Byte) /\ hdr \in 0 .. Len(buf) /\ tmp \in Word /\ bits \in 0 .. WordBits
    BY DEF TypeOK
  <1> QED
    BY <1>1, ReadParts, Zenon DEF Read

\* The same in the next state.
LEMMA ReadNext ==
  ASSUME TypeOK', Whole(buf', hdr')
  PROVE  /\ Decoded(buf', hdr') \in Seq(Sym)
         /\ FlattenSeq(todo') \in Seq(Bit)
         /\ Low(tmp', WordBits - bits') \in Seq(Bit)
         /\ Read' = Decoded(buf', hdr') \o BitSyms(FlattenSeq(todo') \o Low(tmp', WordBits - bits'))
         /\ Read' \in Seq(Sym)
  <1>1. /\ buf' \in Seq(Byte) /\ todo' \in Seq(Byte) /\ hdr' \in 0 .. Len(buf') /\ tmp' \in Word
        /\ bits' \in 0 .. WordBits
    BY DEF TypeOK
  <1>2. Read' = ReadOf(buf', hdr', todo', tmp', bits')
    BY Zenon DEF Read
  <1> QED
    BY <1>1, <1>2, ReadParts, Zenon

\* A code that fits the word.
LEMMA RoomReads ==
  ASSUME StreamInv, TypeOK', NEW c \in Codes, PutBitsRoom(c)
  PROVE  Read' = Read \o BitSyms(c) /\ Whole(buf', hdr')
  <1> DEFINE D == Decoded(buf, hdr)
             p == WordBits - bits
             P == Low(tmp, p)
  <1>1. /\ call = "none" /\ Len(c) <= bits /\ bits' = bits - Len(c) /\ tmp' = ShiftIn(tmp, c)
        /\ buf' = buf /\ hdr' = hdr /\ todo' = todo
    BY DEF PutBitsRoom
  <1>2. Whole(buf, hdr) /\ Whole(buf', hdr') /\ todo = <<>> /\ TypeOK
    BY <1>1 DEF StreamInv, Phase
  <1>3. bits \in 0 .. WordBits /\ tmp \in Word /\ WordBits \in Nat
    BY <1>2, WordBitsNat DEF TypeOK
  <1>4. c \in Seq(Bit) /\ Len(c) \in Nat
    BY CodeIsSeq, LenProperties
  <1>5. D \in Seq(Sym) /\ P \in Seq(Bit) /\ Read = D \o BitSyms(FlattenSeq(todo) \o P)
    BY <1>2, ReadNow
  <1>6. Read' = D \o BitSyms(FlattenSeq(todo) \o Low(tmp', WordBits - bits'))
    BY <1>1, <1>2, ReadNext
  <1>7. p \in Nat /\ p + Len(c) <= WordBits /\ WordBits - bits' = p + Len(c)
    BY <1>1, <1>3, <1>4
  <1> HIDE DEF p
  <1>8. Low(tmp', WordBits - bits') = P \o c
    BY <1>1, <1>3, <1>4, <1>7, LowShiftIn, Zenon
  <1>9. FlattenSeq(todo) = <<>>
    BY <1>2, NoBits
  <1> HIDE DEF D, P
  <1>10. P \o c \in Seq(Bit)
    BY <1>4, <1>5, ConcatProperties
  <1>11. Read = D \o BitSyms(P) /\ Read' = D \o BitSyms(P \o c)
    BY <1>5, <1>6, <1>8, <1>9, <1>10, NoBits, Zenon
  <1>12. (D \o BitSyms(P)) \o BitSyms(c) = D \o BitSyms(P \o c)
    BY <1>4, <1>5, MoveBits
  <1> QED
    BY <1>2, <1>11, <1>12, Zenon

\* A code that fills the word.
LEMMA FullReads ==
  ASSUME StreamInv, TypeOK', NEW c \in Codes, PutBitsFull(c)
  PROVE  Read' = Read \o BitSyms(c) /\ Whole(buf', hdr')
  <1> DEFINE D == Decoded(buf, hdr)
             p == WordBits - bits
             P == Low(tmp, p)
             l == Len(c)
             c1 == SubSeq(c, 1, bits)
             c2 == Low(ShiftIn(Zeros(WordBits), c), l - bits)
             w == ShiftIn(tmp, c1)
  <1>1. /\ call = "none" /\ Len(c) > bits /\ bits' = bits - Len(c) + WordBits
        /\ tmp' = ShiftIn(Zeros(WordBits), c) /\ hdr' = hdr
    BY DEF PutBitsFull
  <1>2. Whole(buf, hdr) /\ todo = <<>> /\ TypeOK
    BY <1>1 DEF StreamInv, Phase
  <1>3. /\ bits \in 0 .. WordBits /\ tmp \in Word /\ WordBits \in Nat /\ buf \in Seq(Byte)
        /\ hdr \in 0 .. Len(buf)
    BY <1>2, WordBitsNat DEF TypeOK
  <1>4. c \in Seq(Bit) /\ l \in 1 .. WordBits
    BY CodeIsSeq
  <1>5. D \in Seq(Sym) /\ P \in Seq(Bit) /\ Read = D \o BitSyms(FlattenSeq(todo) \o P)
    BY <1>2, ReadNow
  <1>6. WordBits - bits' = l - bits /\ bits <= l /\ l <= WordBits /\ bits \in Nat /\ l \in Nat
    BY <1>1, <1>3, <1>4
  <1>7. Low(tmp', WordBits - bits') = c2
    BY <1>1, <1>6
  <1>8. c1 \in Seq(Bit) /\ Len(c1) = bits
    <2>1. /\ 0 \in Nat /\ 0 + bits <= Len(c) /\ 0 + bits = bits /\ 0 + 1 = 1
      BY <1>6
    <2>2. SubSeq(c, 0 + 1, 0 + bits) \in Seq(Bit) /\ Len(SubSeq(c, 0 + 1, 0 + bits)) = bits
      BY <1>4, <1>6, <2>1, PartOfSeq
    <2> QED
      BY <2>1, <2>2
  <1>9. w \in Word /\ P \o c1 = w
    <2>1. p \in Nat /\ p + Len(c1) <= WordBits /\ p + Len(c1) = WordBits
      BY <1>3, <1>8
    <2> HIDE DEF c1, p
    <2>2. w \in Word
      BY <1>3, <1>8, ShiftInWord
    <2>3. Low(w, p + Len(c1)) = P \o c1
      BY <1>3, <1>8, <2>1, LowShiftIn, Zenon
    <2>4. Low(w, WordBits) = w
      BY <2>2, LowAll
    <2> QED
      BY <2>1, <2>2, <2>3, <2>4
  <1>10. c1 \o c2 = c
    BY <1>4, <1>6, CodeSplit, ConstantBits, Zenon
  <1>11. c2 \in Seq(Bit)
    <2>1. ShiftIn(Zeros(WordBits), c) \in Word
      BY <1>4, ShiftInWord, ConstantBits
    <2>2. l - bits \in 0 .. WordBits
      BY <1>3, <1>6
    <2> QED
      BY <2>1, <2>2, LowOf, Zenon
  <1>12. FlattenSeq(todo) = <<>>
    BY <1>2, NoBits
  <1>a. IF MayStuff(w) THEN todo' = BytesOf(w) /\ buf' = buf
                       ELSE buf' = buf \o BytesOf(w) /\ todo' = todo
    BY Zenon DEF PutBitsFull, Store
  <1> HIDE DEF D, P, c1, c2, w, p, l
  <1>13. w \in Seq(Bit)
    BY <1>9, WordIsSeq
  <1>14. Read = D \o BitSyms(P)
    BY <1>5, <1>12, NoBits, Zenon
  <1>15. (P \o c1) \o c2 = P \o c
    <2>1. (P \o c1) \o c2 = P \o (c1 \o c2)
      BY <1>5, <1>8, <1>11, BitsAssociate, Zenon
    <2> QED
      BY <1>10, <2>1
  <1>16. Read \o BitSyms(c) = D \o BitSyms(w \o c2)
    <2>1. (D \o BitSyms(P)) \o BitSyms(c) = D \o BitSyms(P \o c)
      BY <1>4, <1>5, MoveBits
    <2> QED
      BY <1>9, <1>14, <1>15, <2>1
  <1>17. CASE MayStuff(w)
    <2>1. todo' = BytesOf(w) /\ buf' = buf
      BY <1>a, <1>17, Zenon
    <2>2. Whole(buf', hdr')
      BY <1>1, <1>2, <2>1
    <2>3. Read' = Decoded(buf', hdr') \o BitSyms(FlattenSeq(todo') \o Low(tmp', WordBits - bits'))
      BY <2>2, ReadNext
    <2>4. FlattenSeq(todo') = w
      BY <1>9, <2>1, BytesFlatten
    <2>5. Decoded(buf', hdr') = D
      BY <1>1, <2>1 DEF D
    <2> QED
      BY <1>7, <1>16, <2>2, <2>3, <2>4, <2>5, Zenon
  <1>18. CASE ~MayStuff(w)
    <2>1. buf' = buf \o BytesOf(w) /\ todo' = <<>>
      BY <1>2, <1>a, <1>18, Zenon
    <2>2. Whole(buf', hdr') /\ Decoded(buf', hdr') = D \o BitSyms(w)
      BY <1>1, <1>2, <1>3, <1>9, <1>18, <2>1, StoredWord, Zenon DEF D
    <2>3. Read' = Decoded(buf', hdr') \o BitSyms(FlattenSeq(todo') \o Low(tmp', WordBits - bits'))
      BY <2>2, ReadNext
    <2>4. FlattenSeq(todo') \o c2 = c2
      BY <1>11, <2>1, NoBits, Zenon
    <2>5. Read' = (D \o BitSyms(w)) \o BitSyms(c2)
      BY <1>7, <2>2, <2>3, <2>4, Zenon
    <2>6. (D \o BitSyms(w)) \o BitSyms(c2) = D \o BitSyms(w \o c2)
      BY <1>5, <1>11, <1>13, MoveBits
    <2> QED
      BY <1>16, <2>2, <2>5, <2>6, Zenon
  <1> QED
    BY <1>17, <1>18

\* A turn of the emitting loop changes nothing a decoder sees.
LEMMA EmitReads ==
  ASSUME StreamInv, TypeOK', EmitByte
  PROVE  Read' = Read /\ Whole(buf', hdr')
  <1> DEFINE D == Decoded(buf, hdr)
             P == Low(tmp, WordBits - bits)
             x == Head(todo)
             t == Tail(todo)
             s == IF x = FF THEN <<FF, Zeros(ByteBits)>> ELSE <<x>>
             F == FlattenSeq(t)
  <1>1. /\ todo # <<>> /\ buf' = buf \o s /\ todo' = t
        /\ bits' = bits /\ tmp' = tmp /\ hdr' = hdr
    BY DEF EmitByte, Store
  <1>2. Whole(buf, hdr) /\ TypeOK
    BY DEF StreamInv
  <1>3. buf \in Seq(Byte) /\ hdr \in 0 .. Len(buf) /\ todo \in Seq(Byte)
    BY <1>2 DEF TypeOK
  <1>4. x \in Byte /\ t \in Seq(Byte)
    BY <1>1, <1>3, HeadTailProperties
  <1>5. D \in Seq(Sym) /\ P \in Seq(Bit) /\ Read = D \o BitSyms(FlattenSeq(todo) \o P)
    BY <1>2, ReadNow
  <1>6. x \in Seq(Bit) /\ F \in Seq(Bit) /\ FlattenSeq(todo) = x \o F
    <2>1. x \in Seq(Bit) /\ t \in Seq(Seq(Bit)) /\ F \in Seq(Bit)
      BY <1>4, ByteIsBits, BytesToBits
    <2>2. todo = <<x>> \o t
      <3>1. /\ Len(t) = Len(todo) - 1 /\ \A i \in 1 .. Len(t) : t[i] = todo[i+1]
            /\ Len(todo) \in Nat \ {0}
        BY <1>1, <1>3, HeadTailProperties, EmptySeq
      <3> DEFINE e == <<x>>
                 n == Len(todo)
      <3>2. e \in Seq(Byte) /\ Len(e) = 1 /\ e[1] = x /\ x = todo[1]
        BY <1>4
      <3> HIDE DEF e, t, x
      <3>3. /\ e \o t \in Seq(Byte) /\ Len(e \o t) = 1 + Len(t)
            /\ \A i \in 1 .. 1 + Len(t) : (e \o t)[i] = IF i <= 1 THEN e[i] ELSE t[i - 1]
        <4>1. t \in Seq(Byte) /\ e \in Seq(Byte) /\ Len(t) \in Nat
          BY <1>4, <3>2, LenProperties
        <4>2. /\ e \o t \in Seq(Byte) /\ Len(e \o t) = Len(e) + Len(t)
              /\ \A i \in 1 .. Len(e) + Len(t) : (e \o t)[i] = IF i <= Len(e) THEN e[i] ELSE t[i - Len(e)]
          BY <4>1, ConcatProperties
        <4> QED
          BY <3>2, <4>1, <4>2
      <3>4. ASSUME NEW i \in 1 .. n PROVE todo[i] = (e \o t)[i]
        <4>1. CASE i = 1
          BY <3>1, <3>2, <3>3, <4>1
        <4>2. CASE i # 1
          <5>1. i - 1 \in 1 .. Len(t) /\ i \in 1 .. 1 + Len(t) /\ ~ (i <= 1) /\ (i - 1) + 1 = i
            BY <3>1, <4>2
          <5> QED
            BY <3>1, <3>3, <5>1, Zenon
        <4> QED
          BY <4>1, <4>2
      <3>5. Len(todo) = Len(e \o t)
        BY <3>1, <3>3
      <3>6. todo = e \o t
        BY <1>3, <3>3, <3>4, <3>5, SeqEqual
      <3> QED
        BY <3>6 DEF e
    <2> HIDE DEF x, t, F
    <2>3. <<x>> \in Seq(Seq(Bit))
      BY <2>1
    <2>4. FlattenSeq(<<x>> \o t) = FlattenSeq(<<x>>) \o FlattenSeq(t)
      BY <2>1, <2>3, FlattenConcat
    <2>5. FlattenSeq(<<x>>) = x
      BY <2>1, FlattenOne
    <2> QED
      BY <2>1, <2>2, <2>4, <2>5, Zenon DEF F
  <1>7. (x = FF => s = <<FF, Zeros(ByteBits)>>) /\ (x # FF => s = <<x>>)
    OBVIOUS
  <1> HIDE DEF s, x, t
  <1>8. Whole(buf', hdr') /\ Decoded(buf', hdr') = D \o BitSyms(x)
    <2>1. /\ Whole(buf \o s, hdr)
          /\ Decoded(buf \o s, hdr) = Decoded(buf, hdr) \o BitSyms(x)
      BY <1>2, <1>3, <1>4, <1>7, StoredByte
    <2> QED
      BY <1>1, <2>1
  <1>9. Read' = (D \o BitSyms(x)) \o BitSyms(F \o P)
    <2>1. Read' = Decoded(buf', hdr') \o BitSyms(FlattenSeq(todo') \o Low(tmp', WordBits - bits'))
      BY <1>8, ReadNext
    <2> QED
      BY <1>1, <1>8, <2>1
  <1> HIDE DEF D, P, F
  <1>10. F \o P \in Seq(Bit)
    BY <1>5, <1>6, ConcatProperties
  <1>11. (D \o BitSyms(x)) \o BitSyms(F \o P) = D \o BitSyms(x \o (F \o P))
    BY <1>5, <1>6, <1>10, MoveBits
  <1>12. x \o (F \o P) = (x \o F) \o P
    BY <1>5, <1>6, BitsAssociate, Zenon
  <1> QED
    BY <1>5, <1>6, <1>8, <1>9, <1>11, <1>12, Zenon

\* The padding of a flush.
Padding(p) == ByteBits * ((p + ByteBits - 1) \div ByteBits) - p

\* A flush pads by less than a byte, to whole bytes.
LEMMA PaddingIs ==
  \A p \in 0 .. WordBits :
     /\ Padding(p) \in 0 .. ByteBits - 1
     /\ \E n \in Nat : p + Padding(p) = ByteBits * n
  <1> SUFFICES ASSUME NEW p \in 0 .. WordBits
               PROVE  /\ Padding(p) \in 0 .. ByteBits - 1
                      /\ \E n \in Nat : p + Padding(p) = ByteBits * n
    OBVIOUS
  <1> DEFINE n == (p + ByteBits - 1) \div ByteBits
  <1>1. ByteBits \in Nat \ {0} /\ p \in Nat
    BY BitstreamAssumption, WordBitsNat
  <1>2. n \in Nat /\ ByteBits * n <= p + ByteBits - 1 /\ p + ByteBits - 1 < ByteBits * n + ByteBits
    BY <1>1, SMT
  <1>3. Padding(p) = ByteBits * n - p
    BY DEF Padding
  <1> HIDE DEF n
  <1>4. ByteBits * n \in Nat
    BY <1>1, <1>2
  <1>5. Padding(p) \in 0 .. ByteBits - 1 /\ p + Padding(p) = ByteBits * n
    BY <1>1, <1>2, <1>3, <1>4
  <1> QED
    BY <1>2, <1>5

\* A flush pads with ones.
LEMMA FlushReads ==
  ASSUME StreamInv, TypeOK', call = "none", Flush
  PROVE  /\ Read' = Read \o BitSyms(Ones(Padding(WordBits - bits)))
         /\ Whole(buf', hdr')
         /\ Ones(Padding(WordBits - bits)) \in Seq(Bit)
         /\ Len(Ones(Padding(WordBits - bits))) = Padding(WordBits - bits)
  <1> DEFINE D == Decoded(buf, hdr)
             p == WordBits - bits
             P == Low(tmp, p)
             n == (p + ByteBits - 1) \div ByteBits
             d == Padding(p)
             o == Ones(d)
             padded == ShiftIn(tmp, o)
  <1>1. /\ todo' = [i \in 1 .. n |-> ByteOf(padded, WordBytes - n + i)]
        /\ bits' = WordBits /\ tmp' = Zeros(WordBits) /\ buf' = buf /\ hdr' = hdr
    BY DEF Flush, Padding
  <1>2. Whole(buf, hdr) /\ Whole(buf', hdr') /\ todo = <<>> /\ TypeOK
    BY <1>1 DEF StreamInv, Phase
  <1>3. bits \in 0 .. WordBits /\ tmp \in Word /\ WordBits \in Nat
    BY <1>2, WordBitsNat DEF TypeOK
  <1>4. p \in 0 .. WordBits /\ p \in Nat
    BY <1>3
  <1>5. n \in 0 .. WordBytes /\ d \in Nat /\ p + d = ByteBits * n
    <2> HIDE DEF p
    <2>1. n \in 0 .. WordBytes /\ ByteBits * n - p \in Nat
      BY <1>4, FlushLength
    <2>2. d = ByteBits * n - p
      BY DEF Padding
    <2>3. ByteBits \in Nat /\ WordBytes \in Nat
      BY BitstreamAssumption
    <2> HIDE DEF n, d
    <2> QED
      BY <1>4, <2>1, <2>2, <2>3
  <1> HIDE DEF p, n, d
  <1>6. o \in Seq(Bit) /\ Len(o) = d
    <2>1. o \in [1 .. d -> Bit]
      BY DEF Ones, Bit
    <2> HIDE DEF o
    <2> QED
      BY <1>5, <2>1, FunctionIsSeq
  <1>7. p + d <= WordBits
    <2>1. ByteBits * (WordBytes - n) \in Nat
      BY <1>5, BitstreamAssumption
    <2>2. WordBits = ByteBits * n + ByteBits * (WordBytes - n)
      BY <1>5, BitstreamAssumption DEF WordBits
    <2>3. ByteBits * n \in Nat
      BY <1>5, BitstreamAssumption
    <2> HIDE DEF o, padded
    <2> QED
      BY <1>3, <1>4, <1>5, <2>1, <2>2, <2>3
  <1> HIDE DEF o
  <1>8. padded \in Word /\ Low(padded, p + d) = P \o o
    BY <1>3, <1>4, <1>6, <1>7, LowShiftIn, ShiftInWord
  <1> HIDE DEF padded, P
  <1>9. FlattenSeq(todo') = P \o o
    <2>1. FlattenSeq([i \in 1 .. n |-> ByteOf(padded, (WordBytes - n) + i)]) = Low(padded, ByteBits * n)
      BY <1>5, <1>8, LowBytes
    <2> QED
      BY <1>1, <1>5, <1>8, <2>1, Zenon
  <1>10. D \in Seq(Sym) /\ P \in Seq(Bit) /\ Read = D \o BitSyms(FlattenSeq(todo) \o P)
    BY <1>2, ReadNow DEF P, p
  <1>11. Read' = D \o BitSyms(FlattenSeq(todo') \o Low(tmp', WordBits - bits'))
    BY <1>1, <1>2, ReadNext
  <1>12. Low(tmp', WordBits - bits') = <<>>
    <2>1. WordBits - bits' = 0
      BY <1>1, <1>3
    <2> QED
      BY <1>1, <2>1, LowAll, ConstantBits
  <1>13. FlattenSeq(todo) = <<>>
    BY <1>2, NoBits
  <1> HIDE DEF D
  <1>14. P \o o \in Seq(Bit)
    BY <1>6, <1>10, ConcatProperties
  <1>15. Read = D \o BitSyms(P) /\ Read' = D \o BitSyms(P \o o)
    BY <1>9, <1>10, <1>11, <1>12, <1>13, <1>14, NoBits, Zenon
  <1>16. (D \o BitSyms(P)) \o BitSyms(o) = D \o BitSyms(P \o o)
    BY <1>6, <1>10, MoveBits
  <1> QED
    BY <1>2, <1>6, <1>15, <1>16, Zenon DEF o, d, p

\* With everything written, what is read is in the buffer.
LEMMA ReadWritten ==
  \A b \in Seq(Byte) : \A h \in 0 .. Len(b) : \A w \in Word :
     Whole(b, h) => /\ Decoded(b, h) \in Seq(Sym)
                    /\ ReadOf(b, h, <<>>, w, WordBits) = Decoded(b, h)
  <1> SUFFICES ASSUME NEW b \in Seq(Byte), NEW h \in 0 .. Len(b), NEW w \in Word, Whole(b, h)
               PROVE  /\ Decoded(b, h) \in Seq(Sym)
                      /\ ReadOf(b, h, <<>>, w, WordBits) = Decoded(b, h)
    OBVIOUS
  <1>1. WordBits \in 0 .. WordBits /\ WordBits - WordBits = 0
    BY WordBitsNat
  <1>2. <<>> \in Seq(Byte)
    BY NoBits
  <1>3. /\ Decoded(b, h) \in Seq(Sym)
        /\ ReadOf(b, h, <<>>, w, WordBits)
             = Decoded(b, h) \o BitSyms(FlattenSeq(<<>>) \o Low(w, WordBits - WordBits))
    <2> DEFINE d == WordBits
    <2>1. d \in 0 .. WordBits
      BY <1>1
    <2> HIDE DEF d
    <2>2. /\ Decoded(b, h) \in Seq(Sym)
          /\ ReadOf(b, h, <<>>, w, d) = Decoded(b, h) \o BitSyms(FlattenSeq(<<>>) \o Low(w, WordBits - d))
      BY <1>2, <2>1, ReadParts, Zenon
    <2> QED
      BY <2>2 DEF d
  <1>4. Low(w, WordBits - WordBits) = <<>>
    BY <1>1, LowAll
  <1> QED
    BY <1>3, <1>4, NoBits, Zenon

\* A marker put after a flush is read as that marker.
LEMMA MarkerReads ==
  ASSUME StreamInv, TypeOK', PutMarker
  PROVE  /\ Read' = Append(Read, [kind |-> "marker", v |-> mark])
         /\ Whole(buf', hdr')
         /\ [kind |-> "marker", v |-> mark] \in Sym
  <1> DEFINE x == [kind |-> "marker", v |-> mark]
  <1>1. /\ call \in {"put_RST", "finalize"} /\ todo = <<>> /\ buf' = buf \o <<FF, mark>>
        /\ bits' = bits /\ tmp' = tmp /\ todo' = todo /\ hdr' = hdr
    BY DEF PutMarker, Store
  <1>2. Whole(buf, hdr) /\ TypeOK /\ bits = WordBits
    BY <1>1 DEF StreamInv, Phase
  <1>3. /\ buf \in Seq(Byte) /\ hdr \in 0 .. Len(buf) /\ mark \in RSTs \cup {EOI} /\ tmp \in Word
    BY <1>2 DEF TypeOK
  <1>4. /\ Whole(buf', hdr') /\ hdr' \in 0 .. Len(buf') /\ buf' \in Seq(Byte)
        /\ Decoded(buf', hdr') = Decoded(buf, hdr) \o <<x>>
    BY <1>1, <1>2, <1>3, StoredMarker, Zenon
  <1>5. x \in Sym
    <2>1. mark \in Byte
      BY <1>3, BitstreamAssumption
    <2>2. mark \in Seq(Bit)
      BY <2>1, ByteIsBits
    <2> QED
      BY <2>2 DEF Sym
  <1> HIDE DEF x
  <1>6. Read = Decoded(buf, hdr) /\ Decoded(buf, hdr) \in Seq(Sym)
    BY <1>1, <1>2, <1>3, ReadWritten, Zenon DEF Read
  <1>7. Read' = Decoded(buf', hdr')
    BY <1>1, <1>2, <1>3, <1>4, ReadWritten, Zenon DEF Read
  <1>8. Append(Read, x) = Read \o <<x>>
    BY <1>5, <1>6, AppendIsConcat
  <1> QED
    BY <1>4, <1>5, <1>6, <1>7, <1>8, Zenon DEF x

\* A header byte is put after header bytes only, and read as such.
LEMMA HeaderReads ==
  ASSUME StreamInv, TypeOK', NEW v \in HeaderByte, PutHeaderByte(v)
  PROVE  /\ Read' = Append(Read, [kind |-> "header", v |-> v])
         /\ Whole(buf', hdr')
         /\ [kind |-> "header", v |-> v] \in Sym
         /\ \A i \in DOMAIN Read : Read[i].kind = "header"
  <1> DEFINE x == [kind |-> "header", v |-> v]
  <1>1. /\ call = "none" /\ Len(buf) = hdr /\ bits = WordBits /\ buf' = buf \o <<v>>
        /\ hdr' = hdr + 1 /\ bits' = bits /\ tmp' = tmp /\ todo' = todo
    BY DEF PutHeaderByte, Store
  <1>2. Whole(buf, hdr) /\ TypeOK /\ todo = <<>>
    BY <1>1 DEF StreamInv, Phase
  <1>3. buf \in Seq(Byte) /\ hdr \in 0 .. Len(buf) /\ tmp \in Word /\ v \in Byte /\ todo' = <<>>
    BY <1>1, <1>2, BitstreamAssumption DEF TypeOK
  <1>4. buf' \in Seq(Byte) /\ hdr' \in 0 .. Len(buf') /\ tmp' \in Word
    BY DEF TypeOK
  <1>5. Whole(buf', hdr')
    <2> DEFINE e == <<v>>
               n == Len(buf)
    <2>1. e \in Seq(Byte) /\ Len(e) = 1
      BY <1>3
    <2> HIDE DEF e
    <2>a. buf \in Seq(Byte)
      BY <1>3
    <2>2. Len(buf \o e) = n + 1
      <3>1. Len(buf \o e) = n + Len(e)
        BY <2>a, <2>1, ConcatProperties
      <3>2. n \in Nat
        BY <2>a, LenProperties
      <3> QED
        BY <2>1, <3>1, <3>2
    <2>3. Len(buf') = hdr'
      BY <1>1, <2>2 DEF e
    <2> QED
      BY <2>3 DEF Whole
  <1>6. x \in Sym
    <2>1. v \in Seq(Bit)
      BY <1>3, ByteIsBits
    <2> QED
      BY <2>1 DEF Sym
  <1> HIDE DEF x
  <1>7. Read = Decoded(buf, hdr)
    BY <1>1, <1>2, <1>3, ReadWritten, Zenon DEF Read
  <1>8. Read' = Decoded(buf', hdr')
    BY <1>1, <1>3, <1>4, <1>5, ReadWritten, Zenon DEF Read
  <1>9. Decoded(buf', hdr') = Append(Decoded(buf, hdr), x)
    BY <1>1, <1>3, DecodedHeaderByte, Zenon DEF x
  <1>10. \A i \in DOMAIN Read : Read[i].kind = "header"
    <2> DEFINE f == [i \in 1 .. Len(buf) |-> [kind |-> "header", v |-> buf[i]]]
    <2>1. Read = f
      BY <1>1, <1>3, <1>7, DecodedHeader, Zenon
    <2>2. \A i \in DOMAIN f : f[i].kind = "header"
      OBVIOUS
    <2> QED
      BY <2>1, <2>2, Zenon
  <1> QED
    BY <1>5, <1>6, <1>7, <1>8, <1>9, <1>10, Zenon DEF x

\* An empty buffer is read as nothing.
LEMMA EmptyReads ==
  \A w \in Word : ReadOf(<<>>, 0, <<>>, w, WordBits) = <<>> /\ Whole(<<>>, 0)
  <1> SUFFICES ASSUME NEW w \in Word
               PROVE  ReadOf(<<>>, 0, <<>>, w, WordBits) = <<>> /\ Whole(<<>>, 0)
    OBVIOUS
  <1>1. <<>> \in Seq(Byte) /\ Len(<<>>) = 0 /\ 0 \in 0 .. Len(<<>>) /\ Whole(<<>>, 0)
    BY EmptySeq DEF Whole
  <1>2. Decoded(<<>>, 0) = BitSyms(FlattenSeq(<<>>))
    <2>1. \A i : ~ (i \in 1 .. Len(<<>>))
      BY <1>1
    <2> QED
      BY <1>1, <2>1, DecodedPlain, Zenon
  <1> QED
    BY <1>1, <1>2, ReadWritten, NoBits, BitSymsEmpty, Zenon

-----------------------------------------------------------------------------
(* The steps of the sink. *)

\* The abstract sink is what is read.
LEMMA SinkIs ==
  /\ Sink!Ended <=> EndedBy(Read)
  /\ Sink!BitCount = BitsIn(Read)
  /\ Sink!Aligned <=> BitsIn(Read) % ByteBits = 0
  <1>1. Sink!Ended <=> EndedBy(Read)
    BY Zenon DEF Sink!Ended, Sink!MarkerSym, EndedBy, Read, ReadOf, Pending
  <1>2. Sink!BitCount = BitsIn(Read)
    BY Zenon DEF Sink!BitCount, Sink!Cardinality, Cardinality, BitsIn, Read, ReadOf, Pending
  <1>3. Sink!Aligned <=> BitsIn(Read) % ByteBits = 0
    BY <1>2, Zenon DEF Sink!Aligned
  <1> QED
    BY <1>1, <1>2, <1>3

\* Bits appended to an open sink are a Put of it.
LEMMA SinkPuts ==
  ASSUME ~EndedBy(Read), NEW c \in Codes, Read' = Read \o BitSyms(c)
  PROVE  Sink!Next
  <1>1. Read' = Read \o [i \in DOMAIN c |-> Sink!BitSym(c[i])]
    BY Zenon DEF BitSyms, Sink!BitSym
  <1>2. Sink!Put(c)
    BY <1>1, SinkIs, Zenon DEF Sink!Put, Read, ReadOf, Pending
  <1> QED
    BY <1>2, Zenon DEF Sink!Next

\* A marker appended to an open, aligned sink is a Marker of it.
LEMMA SinkMarks ==
  ASSUME ~EndedBy(Read), BitsIn(Read) % ByteBits = 0, NEW m \in RSTs \cup {EOI},
         Read' = Append(Read, [kind |-> "marker", v |-> m])
  PROVE  Sink!Next
  <1>1. Sink!Marker(m)
    BY SinkIs, Zenon DEF Sink!Marker, Sink!MarkerSym, Read, ReadOf, Pending
  <1> QED
    BY <1>1, Zenon DEF Sink!Next

\* A header byte appended to header bytes is a Header of the sink.
LEMMA SinkHeads ==
  ASSUME NEW x \in HeaderByte, \A i \in DOMAIN Read : Read[i].kind = "header",
         Read' = Append(Read, [kind |-> "header", v |-> x])
  PROVE  Sink!Next
  <1>1. Sink!Header(x)
    BY Zenon DEF Sink!Header, Sink!HeaderSym, Read, ReadOf, Pending
  <1> QED
    BY <1>1, Zenon DEF Sink!Next

\* An emptied stream is a Reset of the sink.
LEMMA SinkClears ==
  ASSUME Read' = <<>> PROVE Sink!Next
  BY Zenon DEF Sink!Next, Sink!Reset, Read, ReadOf, Pending

\* The ones that fill the last byte are an Align of the sink.
LEMMA SinkAligns ==
  ASSUME NEW d \in 1 .. ByteBits - 1, NEW n \in Nat, BitsIn(Read) + d = ByteBits * n,
         BitsIn(Read) \in Nat, Read' = Read \o BitSyms(Ones(d))
  PROVE  Sink!Next
  <1>1. ByteBits \in Nat \ {0} /\ d \in Nat
    BY BitstreamAssumption
  <1>2. BitsIn(Read) % ByteBits = ByteBits - d
    <2>1. n # 0
      BY <1>1
    <2>2. n - 1 \in Nat /\ ByteBits - d \in 0 .. ByteBits - 1
      BY <1>1, <2>1
    <2>3. ByteBits * (n - 1) + (ByteBits - d) = BitsIn(Read)
      <3>1. ByteBits * n = ByteBits * (n - 1) + ByteBits
        BY <1>1
      <3>2. ByteBits * (n - 1) \in Int
        BY <1>1, <2>2
      <3> QED
        BY <1>1, <3>1, <3>2
    <2>4. (ByteBits * (n - 1) + (ByteBits - d)) % ByteBits = ByteBits - d
      BY <1>1, <2>2, Remainder
    <2> QED
      BY <2>3, <2>4
  <1>3. ~ Sink!Aligned
    <2>1. BitsIn(Read) % ByteBits # 0
      BY <1>1, <1>2
    <2> QED
      BY <2>1, SinkIs, Zenon
  <1>4. ByteBits - (Sink!BitCount % ByteBits) = d
    <2>1. Sink!BitCount % ByteBits = ByteBits - d
      BY <1>2, SinkIs, Zenon
    <2> QED
      BY <1>1, <2>1
  <1>5. BitSyms(Ones(d)) = [i \in 1 .. d |-> Sink!BitSym(1)]
    <2> DEFINE o == Ones(d)
    <2>1. o \in [1 .. d -> Bit] /\ \A i \in 1 .. d : o[i] = 1
      BY DEF Ones, Bit
    <2> HIDE DEF o
    <2>2. DOMAIN o = 1 .. d
      BY <2>1
    <2> QED
      BY <2>1, <2>2, Zenon DEF BitSyms, Sink!BitSym, o
  <1>6. Read' = Read \o [i \in 1 .. ByteBits - (Sink!BitCount % ByteBits) |-> Sink!BitSym(1)]
    BY <1>4, <1>5, Zenon
  <1>7. Sink!Align
    BY <1>3, <1>6, Zenon DEF Sink!Align, Read, ReadOf, Pending
  <1> QED
    BY <1>7, Zenon DEF Sink!Next

-----------------------------------------------------------------------------
\* How many bits a decoder reads after some are put.
LEMMA CountBits ==
  \A r \in Seq(Sym) : \A s \in Seq(Bit) :
     BitsIn(r \o BitSyms(s)) = BitsIn(r) + Len(s) /\ BitsIn(r) \in Nat
  <1> SUFFICES ASSUME NEW r \in Seq(Sym), NEW s \in Seq(Bit)
               PROVE  BitsIn(r \o BitSyms(s)) = BitsIn(r) + Len(s) /\ BitsIn(r) \in Nat
    OBVIOUS
  <1>1. BitSyms(s) \in Seq(Sym)
    BY BitSymsOf
  <1>2. BitsIn(r \o BitSyms(s)) = BitsIn(r) + BitsIn(BitSyms(s))
    BY <1>1, BitsInConcat
  <1>3. BitsIn(BitSyms(s)) = Len(s)
    BY BitsInBits
  <1> QED
    BY <1>2, <1>3, BitsInNat, Zenon

\* The invariant holds of a new stream.
LEMMA StreamInvInit == Init => StreamInv
  <1> SUFFICES ASSUME Init PROVE StreamInv
    OBVIOUS
  <1>1. TypeOK
    BY InitTyped
  <1>2. /\ buf = <<>> /\ hdr = 0 /\ todo = <<>> /\ bits = WordBits /\ call = "none" /\ tmp \in Word
    BY <1>1 DEF Init, TypeOK
  <1>3. Read = <<>> /\ Whole(buf, hdr)
    BY <1>2, EmptyReads, Zenon DEF Read
  <1>4. Phase
    BY <1>2 DEF Phase
  <1>5. NotEnded
    BY <1>3, Zenon DEF NotEnded, EndedBy
  <1>6. Counted
    <2>1. BitsIn(Read) = 0
      BY <1>3, BitsInEmpty
    <2>2. 0 \in Nat /\ ByteBits * 0 + (WordBits - bits) = 0
      BY <1>2, WordBitsNat, BitstreamAssumption
    <2> QED
      BY <2>1, <2>2 DEF Counted
  <1> QED
    BY <1>1, <1>3, <1>4, <1>5, <1>6 DEF StreamInv

\* A code put appends its bits, and the sink puts them.
LEMMA PutKeeps ==
  ASSUME StreamInv, TypeOK', NEW c \in Codes, PutBitsRoom(c) \/ PutBitsFull(c)
  PROVE  StreamInv' /\ Sink!Next
  <1>1. Read' = Read \o BitSyms(c) /\ Whole(buf', hdr')
    BY RoomReads, FullReads
  <1>2. c \in Seq(Bit) /\ Len(c) \in Nat
    BY CodeIsSeq, LenProperties
  <1>3. /\ call = "none" /\ TypeOK /\ Whole(buf, hdr) /\ ~EndedBy(Read)
    BY DEF PutBitsRoom, PutBitsFull, StreamInv, NotEnded
  <1>4. Read \in Seq(Sym)
    BY <1>3, ReadNow
  <1>5. Sink!Next
    BY <1>1, <1>3, SinkPuts
  <1>6. Phase'
    BY <1>3 DEF PutBitsRoom, PutBitsFull, StreamInv, Phase
  <1>7. NotEnded'
    <2>1. ~EndedBy(Read')
      BY <1>1, <1>2, <1>3, <1>4, StillOpen, Zenon
    <2> QED
      BY <2>1, Zenon DEF NotEnded, EndedBy
  <1>8. Counted'
    <2>1. BitsIn(Read') = BitsIn(Read) + Len(c) /\ BitsIn(Read) \in Nat
      BY <1>1, <1>2, <1>4, CountBits, Zenon
    <2>2. PICK d \in Nat : BitsIn(Read) = ByteBits * d + (WordBits - bits)
      BY DEF StreamInv, Counted
    <2>3. bits \in Nat /\ WordBits \in Nat /\ ByteBits \in Nat /\ WordBytes \in Nat
      BY <1>3, WordBitsNat, BitstreamAssumption DEF TypeOK
    <2>4. BitsIn(Read)' = BitsIn(Read')
      BY Zenon DEF BitsIn
    <2>5. ByteBits * d \in Nat /\ ByteBits * (d + WordBytes) = ByteBits * d + WordBits
      BY <2>2, <2>3 DEF WordBits
    <2>6. CASE bits' = bits - Len(c)
      <3>1. BitsIn(Read') = ByteBits * d + (WordBits - bits')
        BY <1>2, <2>1, <2>2, <2>3, <2>5, <2>6
      <3> QED
        BY <2>2, <2>4, <3>1 DEF Counted
    <2>7. CASE bits' = bits - Len(c) + WordBits
      <3>1. BitsIn(Read') = ByteBits * (d + WordBytes) + (WordBits - bits')
        BY <1>2, <2>1, <2>2, <2>3, <2>5, <2>7
      <3>2. d + WordBytes \in Nat
        BY <2>2, <2>3
      <3> QED
        BY <2>4, <3>1, <3>2 DEF Counted
    <2> QED
      BY <2>6, <2>7 DEF PutBitsRoom, PutBitsFull
  <1> QED
    BY <1>1, <1>5, <1>6, <1>7, <1>8 DEF StreamInv

\* A flush pads to whole bytes, or finds nothing to pad: the sink aligns or stutters.
LEMMA FlushKeeps ==
  ASSUME StreamInv, TypeOK', call = "none", Flush,
         call' \in {"put_RST", "get_len", "finalize"},
         call' = "put_RST" => mark' \in RSTs
  PROVE  StreamInv' /\ (Sink!Next \/ Read' = Read)
  <1> DEFINE p == WordBits - bits
             d == Padding(p)
  <1>1. TypeOK /\ Whole(buf, hdr) /\ ~EndedBy(Read)
    BY DEF StreamInv, NotEnded
  <1>2. /\ Read' = Read \o BitSyms(Ones(d)) /\ Whole(buf', hdr')
        /\ Ones(d) \in Seq(Bit) /\ Len(Ones(d)) = d
    BY FlushReads
  <1>3. Read \in Seq(Sym)
    BY <1>1, ReadNow
  <1>4. WordBits \in Nat /\ ByteBits \in Nat \ {0} /\ p \in 0 .. WordBits /\ p \in Nat
    BY <1>1, WordBitsNat, BitstreamAssumption DEF TypeOK
  <1>5. bits' = WordBits
    BY DEF Flush
  <1> HIDE DEF p
  <1>6. PICK n \in Nat : p + d = ByteBits * n /\ d \in 0 .. ByteBits - 1
    BY <1>4, PaddingIs
  <1>7. PICK q \in Nat : BitsIn(Read) = ByteBits * q + p
    BY DEF StreamInv, Counted, p
  <1> HIDE DEF d
  <1>8. BitsIn(Read') = BitsIn(Read) + d /\ BitsIn(Read) \in Nat
    BY <1>2, <1>3, CountBits, Zenon
  <1>9. BitsIn(Read) + d = ByteBits * (q + n) /\ q + n \in Nat
    <2>1. ByteBits * (q + n) = ByteBits * q + ByteBits * n
      BY <1>4
    <2>2. ByteBits * q \in Nat
      BY <1>4
    <2> QED
      BY <1>4, <1>6, <1>7, <2>1, <2>2
  <1>10. Phase'
    BY <1>5 DEF Phase
  <1>11. NotEnded'
    <2>1. ~EndedBy(Read')
      BY <1>1, <1>2, <1>3, StillOpen, Zenon
    <2> QED
      BY <2>1, Zenon DEF NotEnded, EndedBy
  <1>12. Counted'
    <2>1. BitsIn(Read)' = BitsIn(Read')
      BY Zenon DEF BitsIn
    <2>2. BitsIn(Read') = ByteBits * (q + n) + (WordBits - bits')
      <3>1. ByteBits * (q + n) \in Nat
        BY <1>4, <1>9
      <3> QED
        BY <1>4, <1>5, <1>8, <1>9, <3>1
    <2> QED
      BY <1>9, <2>1, <2>2 DEF Counted
  <1>13. Sink!Next \/ Read' = Read
    <2>1. CASE d = 0
      <3>1. Ones(0) = <<>>
        <4>1. Ones(d) \in Seq(Bit) /\ Len(Ones(d)) = 0
          BY <1>2, <2>1
        <4> QED
          BY <2>1, <4>1, EmptySeq
      <3>2. Read' = Read
        BY <1>2, <1>3, <2>1, <3>1, NoBits
      <3> QED
        BY <3>2
    <2>2. CASE d # 0
      <3>1. d \in 1 .. ByteBits - 1
        BY <1>4, <1>6, <2>2
      <3>2. Sink!Next
        BY <1>2, <1>8, <1>9, <3>1, SinkAligns
      <3> QED
        BY <3>2
    <2> QED
      BY <2>1, <2>2
  <1> QED
    BY <1>2, <1>10, <1>11, <1>12, <1>13 DEF StreamInv

\* A step that leaves what is read, and the number of pending bits, alone.
LEMMA SameKeeps ==
  ASSUME StreamInv, TypeOK', Read' = Read, Whole(buf', hdr'), bits' = bits, Phase',
         call # "copy"
  PROVE  StreamInv'
  <1>1. Counted'
    BY Zenon DEF StreamInv, Counted, BitsIn
  <1>2. NotEnded'
    BY Zenon DEF StreamInv, NotEnded, EndedBy
  <1> QED
    BY <1>1, <1>2 DEF StreamInv

\* A step that empties the stream.
LEMMA ClearKeeps ==
  ASSUME TypeOK', buf' = <<>>, hdr' = 0, todo' = <<>>, bits' = WordBits, call' = "none"
  PROVE  StreamInv' /\ Read' = <<>>
  <1>1. Read' = <<>> /\ Whole(buf', hdr')
    <2>1. tmp' \in Word
      BY DEF TypeOK
    <2> QED
      BY <2>1, EmptyReads, Zenon DEF Read
  <1>2. Phase'
    BY DEF Phase
  <1>3. NotEnded'
    BY <1>1, Zenon DEF NotEnded, EndedBy
  <1>4. Counted'
    <2>1. BitsIn(Read)' = 0
      BY <1>1, BitsInEmpty, Zenon DEF BitsIn
    <2>2. 0 \in Nat /\ ByteBits * 0 + (WordBits - bits') = 0
      BY WordBitsNat, BitstreamAssumption
    <2> QED
      BY <2>1, <2>2 DEF Counted
  <1> QED
    BY <1>1, <1>2, <1>3, <1>4 DEF StreamInv

\* A step that appends a symbol other than a bit.
LEMMA SymbolKeeps ==
  ASSUME StreamInv, TypeOK', NEW x \in Sym, x.kind # "bit", Read' = Append(Read, x),
         Whole(buf', hdr'), bits' = bits, Phase',
         call' # "copy" => x # [kind |-> "marker", v |-> EOI]
  PROVE  StreamInv'
  <1>1. Read \in Seq(Sym)
    BY ReadNow DEF StreamInv
  <1>2. Counted'
    <2>1. BitsIn(Read') = BitsIn(Read)
      BY <1>1, OneMore, Zenon
    <2> QED
      BY <2>1, Zenon DEF StreamInv, Counted, BitsIn
  <1>3. NotEnded'
    <2>1. call' # "copy" => ~EndedBy(Read')
      BY <1>1, OneMore, Zenon
    <2> QED
      BY <2>1, Zenon DEF NotEnded, EndedBy
  <1> QED
    BY <1>2, <1>3 DEF StreamInv

\* Every step keeps the invariant, and is a step of the sink or leaves it alone.
THEOREM StepReads ==
  StreamInv /\ TypeOK' /\ [Next]_vars => StreamInv' /\ (Sink!Next \/ Read' = Read)
  <1> SUFFICES ASSUME StreamInv, TypeOK', [Next]_vars
               PROVE  StreamInv' /\ (Sink!Next \/ Read' = Read)
    OBVIOUS
  <1>1. TypeOK /\ Whole(buf, hdr) /\ Phase /\ NotEnded /\ Counted
    BY DEF StreamInv
  <1>2. ASSUME NEW c \in Codes, PutBitsRoom(c) \/ PutBitsFull(c)
        PROVE  StreamInv' /\ Sink!Next
    BY <1>2, PutKeeps
  <1>3. ASSUME NEW m \in RSTs, PutRST(m)
        PROVE  StreamInv' /\ (Sink!Next \/ Read' = Read)
    <2>1. call = "none" /\ Flush /\ call' = "put_RST" /\ mark' = m
      BY <1>3 DEF PutRST
    <2> QED
      BY <2>1, FlushKeeps
  <1>4. CASE GetLen
    <2>1. call = "none" /\ Flush /\ call' = "get_len"
      BY <1>4 DEF GetLen
    <2> QED
      BY <2>1, FlushKeeps
  <1>5. CASE Finalize
    <2>1. call = "none" /\ Flush /\ call' = "finalize"
      BY <1>5 DEF Finalize
    <2> QED
      BY <2>1, FlushKeeps
  <1>6. CASE EmitByte
    <2>1. Read' = Read /\ Whole(buf', hdr')
      BY <1>6, EmitReads
    <2>2. todo # <<>> /\ todo' = Tail(todo) /\ bits' = bits /\ mark' = mark
          /\ call' = (IF call = "put_bits" /\ Tail(todo) = <<>> THEN "none" ELSE call)
      BY <1>6 DEF EmitByte
    <2>3. call # "none" /\ call # "copy"
      BY <1>1, <2>2 DEF Phase
    <2>4. Phase'
      <3>1. CASE call = "put_bits" /\ Tail(todo) = <<>>
        BY <2>2, <3>1 DEF Phase
      <3>2. CASE ~ (call = "put_bits" /\ Tail(todo) = <<>>)
        BY <1>1, <2>2, <2>3, <3>2 DEF Phase
      <3> QED
        BY <3>1, <3>2
    <2> QED
      BY <2>1, <2>2, <2>3, <2>4, SameKeeps
  <1>7. CASE PutMarker
    <2> DEFINE x == [kind |-> "marker", v |-> mark]
    <2>1. Read' = Append(Read, x) /\ Whole(buf', hdr') /\ x \in Sym
      BY <1>7, MarkerReads
    <2>2. /\ call \in {"put_RST", "finalize"} /\ todo = <<>> /\ todo' = todo /\ bits' = bits /\ mark' = mark
          /\ call' = (IF call = "finalize" THEN "copy" ELSE "none")
      BY <1>7 DEF PutMarker
    <2>3. bits = WordBits /\ mark \in RSTs \cup {EOI} /\ (call' # "copy" => mark # EOI)
      BY <1>1, <2>2, BitstreamAssumption DEF Phase, TypeOK
    <2>4. Phase'
      BY <2>2, <2>3 DEF Phase
    <2>5. x.kind # "bit" /\ (mark # EOI => x # [kind |-> "marker", v |-> EOI])
      <3>1. x.kind = "marker" /\ x.v = mark /\ [kind |-> "marker", v |-> EOI].v = EOI
        OBVIOUS
      <3>2. "marker" # "bit"
        OBVIOUS
      <3> HIDE DEF x
      <3> QED
        BY <3>1, <3>2, Zenon
    <2>6. BitsIn(Read) % ByteBits = 0
      <3>1. PICK d \in Nat : BitsIn(Read) = ByteBits * d + (WordBits - bits)
        BY <1>1 DEF Counted
      <3>2. ByteBits \in Nat \ {0} /\ 0 \in 0 .. ByteBits - 1 /\ WordBits \in Nat
        BY BitstreamAssumption, WordBitsNat
      <3>3. BitsIn(Read) = ByteBits * d + 0
        BY <2>3, <3>1, <3>2
      <3> QED
        BY <3>2, <3>3, Remainder
    <2>7. ~EndedBy(Read)
      BY <1>1, <2>2 DEF NotEnded
    <2>8. Sink!Next
      BY <2>1, <2>3, <2>6, <2>7, SinkMarks
    <2> HIDE DEF x
    <2>9. StreamInv'
      BY <2>1, <2>2, <2>3, <2>4, <2>5, SymbolKeeps
    <2> QED
      BY <2>8, <2>9
  <1>8. ASSUME NEW v \in HeaderByte, PutHeaderByte(v)
        PROVE  StreamInv' /\ Sink!Next
    <2> DEFINE x == [kind |-> "header", v |-> v]
    <2>1. /\ Read' = Append(Read, x) /\ Whole(buf', hdr') /\ x \in Sym
          /\ \A i \in DOMAIN Read : Read[i].kind = "header"
      BY <1>8, HeaderReads
    <2>2. Sink!Next
      BY <2>1, SinkHeads
    <2>3. call = "none" /\ call' = call /\ bits' = bits /\ todo' = todo
      BY <1>8 DEF PutHeaderByte
    <2>4. Phase'
      BY <1>1, <2>3 DEF Phase
    <2>5. x.kind # "bit" /\ x # [kind |-> "marker", v |-> EOI]
      <3>1. x.kind = "header" /\ [kind |-> "marker", v |-> EOI].kind = "marker"
        OBVIOUS
      <3>2. "header" # "bit" /\ "header" # "marker"
        OBVIOUS
      <3> HIDE DEF x
      <3> QED
        BY <3>1, <3>2, Zenon
    <2> HIDE DEF x
    <2>6. StreamInv'
      BY <2>1, <2>3, <2>4, <2>5, SymbolKeeps
    <2> QED
      BY <2>2, <2>6
  <1>9. CASE LenReturned
    <2>1. /\ call = "get_len" /\ todo = <<>> /\ call' = "none"
          /\ bits' = bits /\ tmp' = tmp /\ buf' = buf /\ todo' = todo /\ hdr' = hdr
      BY <1>9 DEF LenReturned
    <2>2. Read' = Read /\ Whole(buf', hdr')
      BY <1>1, <2>1, Zenon DEF Read
    <2>3. Phase'
      BY <2>1 DEF Phase
    <2> QED
      BY <2>1, <2>2, <2>3, SameKeeps
  <1>10. CASE Copy
    <2>1. /\ call = "copy" /\ buf' = <<>> /\ hdr' = 0 /\ call' = "none" /\ bits' = bits /\ todo' = todo
      BY <1>10 DEF Copy
    <2>2. bits' = WordBits /\ todo' = <<>>
      BY <1>1, <2>1 DEF Phase
    <2> QED
      BY <2>1, <2>2, ClearKeeps, SinkClears
  <1>11. CASE Reset
    <2>1. /\ call = "none" /\ buf' = <<>> /\ hdr' = 0 /\ call' = call /\ bits' = WordBits /\ todo' = todo
      BY <1>11 DEF Reset
    <2>2. todo' = <<>>
      BY <1>1, <2>1 DEF Phase
    <2> QED
      BY <2>1, <2>2, ClearKeeps, SinkClears
  <1>12. CASE UNCHANGED vars
    <2>1. /\ bits' = bits /\ tmp' = tmp /\ buf' = buf /\ todo' = todo /\ hdr' = hdr /\ call' = call /\ mark' = mark
      BY <1>12 DEF vars
    <2>2. Read' = Read
      BY <2>1, Zenon DEF Read
    <2>3. StreamInv'
      BY <1>1, <2>1, <2>2, Zenon DEF StreamInv, Phase, NotEnded, Counted, BitsIn, EndedBy
    <2> QED
      BY <2>2, <2>3
  <1> QED
    BY <1>2, <1>3, <1>4, <1>5, <1>6, <1>7, <1>8, <1>9, <1>10, <1>11, <1>12, Zenon DEF Next

\* Whatever codes, markers and header bytes are put, a decoder reads back just those
\* bits in that order, padded with ones to whole bytes only where the stream was
\* flushed, and markers nowhere but where they were put: the word that put_bits
\* fills, the unstuffed word of put_qword, the stuffing of emit_qword and the padding
\* of flush never lose, add or reorder a bit (bitstream.hpp put_bits, emit_qword,
\* flush, put_RST, finalize).
THEOREM StreamIsRead == Spec => ImplementsSink
  <1>1. Init => TypeOK /\ Capacity
    BY InitTyped
  <1>2. TypeOK /\ Capacity /\ [Next]_vars => (TypeOK /\ Capacity)'
    BY StepTyped
  <1>3. Init => StreamInv
    BY StreamInvInit
  <1>4. StreamInv /\ TypeOK' /\ [Next]_vars => StreamInv' /\ [Sink!Next]_Read
    BY StepReads
  <1>5. Init => Sink!Init
    <2> SUFFICES ASSUME Init PROVE Read = <<>>
      BY Zenon DEF Sink!Init, Read, ReadOf, Pending
    <2>1. tmp \in Word
      BY InitTyped DEF TypeOK
    <2>2. buf = <<>> /\ hdr = 0 /\ todo = <<>> /\ bits = WordBits
      BY DEF Init
    <2> QED
      BY <2>1, <2>2, EmptyReads, Zenon DEF Read
  <1>6. Spec => Sink!Init /\ [][Sink!Next]_Read
    BY <1>1, <1>2, <1>3, <1>4, <1>5, PTL DEF Spec
  <1>7. ImplementsSink <=> Sink!Init /\ [][Sink!Next]_Read
    BY Zenon DEF ImplementsSink, Sink!Spec, Read, ReadOf, Pending
  <1> QED
    BY <1>6, <1>7

-----------------------------------------------------------------------------
(* Sums of samples. *)

\* No further than e from each other.
Near(x, y, e) == x - y <= e /\ y - x <= e

\* The sum's recursion ends in the last of the partial sums.
LEMMA SumIs ==
  ASSUME NEW N \in Nat, NEW v \in [0 .. N - 1 -> Int]
  PROVE  \E f \in [0 .. N -> Int] :
           f[0] = 0 /\ (\A n \in 1 .. N : f[n] = f[n-1] + v[n-1]) /\ SumOver(v) = f[N]
  <1> DEFINE Up(f, n) == IF n = 0 THEN 0 ELSE f[n-1] + v[n-1]
             Step(f) == [n \in 0 .. N |-> Up(f, n)]
             sums == CHOOSE f : f = Step(f)
             P(m) == m <= N => \E g \in [0 .. m -> Int] : \A n \in 0 .. m : g[n] = Up(g, n)
             K == {m \in Nat : P(m)}
  <1>1. Cardinality(DOMAIN v) = N
    <2>1. DOMAIN v = 0 .. N - 1  OBVIOUS
    <2>2. Cardinality(0 .. N - 1) = (N - 1) - 0 + 1  BY FS_Interval
    <2> QED  BY <2>1, <2>2
  <1>2. SumOver(v) = sums[N]  BY <1>1, Zenon DEF SumOver
  <1> HIDE DEF sums
  <1>3. P(0)
    <2> DEFINE g == [n \in 0 .. 0 |-> 0]
    <2>1. g \in [0 .. 0 -> Int] /\ \A n \in 0 .. 0 : g[n] = Up(g, n)  OBVIOUS
    <2> QED  BY <2>1
  <1>4. ASSUME NEW m \in Nat, P(m)  PROVE P(m + 1)
    <2> SUFFICES ASSUME m + 1 <= N  PROVE \E g \in [0 .. m + 1 -> Int] : \A n \in 0 .. m + 1 : g[n] = Up(g, n)
      OBVIOUS
    <2>0. m <= N  OBVIOUS
    <2>1. PICK g \in [0 .. m -> Int] : \A n \in 0 .. m : g[n] = Up(g, n)
      <3> HIDE DEF Up
      <3> QED  BY <1>4, <2>0
    <2> DEFINE h == [n \in 0 .. m + 1 |-> IF n = m + 1 THEN Up(g, m + 1) ELSE g[n]]
    <2>2. Up(g, m + 1) \in Int
      <3>1. (m + 1) - 1 = m /\ m \in 0 .. m /\ m \in 0 .. N - 1  OBVIOUS
      <3>2. g[m] \in Int /\ v[m] \in Int  BY <3>1
      <3> QED  BY <3>1, <3>2
    <2>3. h \in [0 .. m + 1 -> Int]
      <3>1. \A n \in 0 .. m + 1 : n # m + 1 => n \in 0 .. m  OBVIOUS
      <3> HIDE DEF Up
      <3> QED  BY <2>2, <3>1
    <2>4. h[m + 1] = Up(g, m + 1) /\ \A n \in 0 .. m : h[n] = g[n]
      <3>1. m + 1 \in 0 .. m + 1 /\ \A n \in 0 .. m : n \in 0 .. m + 1 /\ n # m + 1  OBVIOUS
      <3> HIDE DEF Up
      <3> QED  BY <3>1, Zenon
    <2> HIDE DEF h
    <2>5. ASSUME NEW n \in 0 .. m + 1  PROVE h[n] = Up(h, n)
      <3>1. Up(h, n) = Up(g, n)
        <4>1. CASE n = 0  BY <4>1
        <4>2. CASE n # 0
          <5>1. n - 1 \in 0 .. m  BY <4>2
          <5> QED  BY <2>4, <5>1
        <4> QED  BY <4>1, <4>2
      <3>2. CASE n = m + 1  BY <2>4, <3>1, <3>2
      <3>3. CASE n # m + 1
        <4>1. n \in 0 .. m  BY <3>3
        <4> QED  BY <2>1, <2>4, <3>1, <4>1
      <3> QED  BY <3>2, <3>3
    <2> QED  BY <2>3, <2>5
  <1>5. P(N)
    <2> HIDE DEF P
    <2>1. 0 \in K /\ \A n \in Nat : n \in K => n + 1 \in K  BY <1>3, <1>4
    <2> HIDE DEF K
    <2>2. Nat \subseteq K  BY <2>1, SetInduction
    <2>3. N \in K  BY <2>2
    <2> QED  BY <2>3 DEF K
  <1>6. PICK g \in [0 .. N -> Int] : \A n \in 0 .. N : g[n] = Up(g, n)  BY <1>5
  <1>7. sums = Step(sums)
    <2>1. g = Step(g)
      <3>1. g = [n \in 0 .. N |-> g[n]]  OBVIOUS
      <3> HIDE DEF Up
      <3> QED  BY <1>6, <3>1
    <2> HIDE DEF Step
    <2> QED  BY <2>1 DEF sums
  <1>8. \A n \in 0 .. N : sums[n] = Up(sums, n)
    <2> HIDE DEF Up
    <2> QED  BY <1>7
  <1> DEFINE L == {n \in Nat : n <= N => sums[n] \in Int}
  <1>9. Nat \subseteq L
    <2>1. 0 \in L
      <3>1. 0 \in 0 .. N  OBVIOUS
      <3>2. sums[0] = Up(sums, 0)  BY <1>8, <3>1
      <3> QED  BY <3>2
    <2>2. ASSUME NEW n \in Nat, n \in L PROVE n + 1 \in L
      <3> SUFFICES ASSUME n + 1 <= N PROVE sums[n + 1] \in Int  OBVIOUS
      <3>1. n + 1 \in 0 .. N /\ n + 1 # 0 /\ (n + 1) - 1 = n /\ n \in 0 .. N - 1  OBVIOUS
      <3>2. sums[n + 1] = Up(sums, n + 1)  BY <1>8, <3>1
      <3>3. sums[n] \in Int /\ v[n] \in Int  BY <2>2, <3>1
      <3> QED  BY <3>1, <3>2, <3>3
    <2> HIDE DEF L
    <2> QED  BY <2>1, <2>2, SetInduction
  <1>10. sums \in [0 .. N -> Int]
    <2>1. \A n \in 0 .. N : sums[n] \in Int  BY <1>9
    <2>2. sums = [n \in 0 .. N |-> sums[n]]
      <3> HIDE DEF Up
      <3> QED  BY <1>7
    <2> QED  BY <2>1, <2>2
  <1>11. sums[0] = 0 /\ \A n \in 1 .. N : sums[n] = sums[n-1] + v[n-1]
    <2>1. 0 \in 0 .. N /\ \A n \in 1 .. N : n \in 0 .. N /\ n # 0  OBVIOUS
    <2> QED  BY <1>8, <2>1
  <1> QED  BY <1>2, <1>10, <1>11

\* N values around zero, and near N others.
AllAround(v, N) == \A n \in 0 .. N - 1 : -128 <= v[n] /\ v[n] <= 128
AllNear(v, w, N, e) == \A n \in 0 .. N - 1 : Near(1000 * v[n], w[n], e)

\* Sums of N values that are near each other are N times as near.
LEMMA SumsNear ==
  ASSUME NEW N \in Nat, NEW v \in [0 .. N - 1 -> Int], NEW w \in [0 .. N - 1 -> Int], NEW e \in Nat,
         AllAround(v, N)
  PROVE  /\ SumOver(v) \in Int /\ -(128 * N) <= SumOver(v) /\ SumOver(v) <= 128 * N
         /\ SumOver(w) \in Int
         /\ AllNear(v, w, N, e) => Near(1000 * SumOver(v), SumOver(w), e * N)
  <1>1. PICK f \in [0 .. N -> Int] :
          f[0] = 0 /\ (\A n \in 1 .. N : f[n] = f[n-1] + v[n-1]) /\ SumOver(v) = f[N]
    BY SumIs
  <1>2. PICK g \in [0 .. N -> Int] :
          g[0] = 0 /\ (\A n \in 1 .. N : g[n] = g[n-1] + w[n-1]) /\ SumOver(w) = g[N]
    BY SumIs
  <1> DEFINE Close == AllNear(v, w, N, e)
             P(n) == n <= N => /\ -(128 * n) <= f[n] /\ f[n] <= 128 * n
                               /\ Close => Near(1000 * f[n], g[n], e * n)
             K == {n \in Nat : P(n)}
  <1>3. P(0)
    <2>1. e * 0 = 0  OBVIOUS
    <2> QED  BY <1>1, <1>2, <2>1 DEF Near
  <1>4. ASSUME NEW n \in Nat, P(n) PROVE P(n + 1)
    <2> SUFFICES ASSUME n + 1 <= N
                 PROVE  /\ -(128 * (n + 1)) <= f[n + 1] /\ f[n + 1] <= 128 * (n + 1)
                        /\ Close => Near(1000 * f[n + 1], g[n + 1], e * (n + 1))
      OBVIOUS
    <2>1. n + 1 \in 1 .. N /\ (n + 1) - 1 = n /\ n \in 0 .. N - 1 /\ n \in 0 .. N /\ n + 1 \in 0 .. N  OBVIOUS
    <2>2. f[n + 1] = f[n] + v[n] /\ g[n + 1] = g[n] + w[n]  BY <1>1, <1>2, <2>1
    <2>3. f[n] \in Int /\ g[n] \in Int /\ v[n] \in Int /\ w[n] \in Int  BY <2>1
    <2>4. e * (n + 1) = e * n + e /\ e * n \in Int  OBVIOUS
    <2>5. -128 <= v[n] /\ v[n] <= 128 /\ -(128 * n) <= f[n] /\ f[n] <= 128 * n  BY <1>4, <2>1 DEF AllAround
    <2> DEFINE x == f[n]   y == v[n]   z == f[n + 1]   s == g[n]   t == w[n]   u == g[n + 1]   en == e * n
    <2>6. /\ x \in Int /\ y \in Int /\ z = x + y /\ s \in Int /\ t \in Int /\ u = s + t /\ en \in Int
          /\ -128 <= y /\ y <= 128 /\ -(128 * n) <= x /\ x <= 128 * n
      BY <2>2, <2>3, <2>4, <2>5
    <2>7. ASSUME Close PROVE Near(1000 * y, t, e) /\ Near(1000 * x, s, en)  BY <1>4, <2>1, <2>7 DEF AllNear
    <2>8. /\ -(128 * (n + 1)) <= z /\ z <= 128 * (n + 1)
          /\ Close => Near(1000 * z, u, en + e)
      <3> HIDE DEF x, y, z, s, t, u, en, Close
      <3> QED  BY <2>6, <2>7 DEF Near
    <2> QED  BY <2>4, <2>8
  <1>5. P(N)
    <2> HIDE DEF P
    <2>1. 0 \in K /\ \A n \in Nat : n \in K => n + 1 \in K  BY <1>3, <1>4
    <2> HIDE DEF K
    <2>2. Nat \subseteq K  BY <2>1, SetInduction
    <2>3. N \in K  BY <2>2
    <2> QED  BY <2>3 DEF K
  <1>6. f[N] \in Int /\ g[N] \in Int  OBVIOUS
  <1> QED  BY <1>1, <1>2, <1>5, <1>6

\* The formats' factors, and the luma blocks of an MCU.
LEMMA Factors ==
  ASSUME job.ycc \in YCC
  PROVE  /\ \/ HorizontalFactor = 1 /\ VerticalFactor = 1
            \/ HorizontalFactor = 2 /\ VerticalFactor = 1
            \/ HorizontalFactor = 4 /\ VerticalFactor = 1
            \/ HorizontalFactor = 1 /\ VerticalFactor = 2
            \/ HorizontalFactor = 2 /\ VerticalFactor = 2
            \/ HorizontalFactor = 4 /\ VerticalFactor = 2
         /\ mcu_skip = HorizontalFactor * VerticalFactor
         /\ mcu_skip \in {1, 2, 4, 8}
         /\ job.ycc \in Grayscale => HorizontalFactor = 1 /\ VerticalFactor = 1
         /\ nc = IF job.ycc \in Grayscale THEN 1 ELSE 3
  <1>1. CASE job.ycc = "YUV444"  BY <1>1 DEF HorizontalFactor, VerticalFactor, H, V, mcu_skip, YCC, Grayscale, nc
  <1>2. CASE job.ycc = "YUV422"  BY <1>2 DEF HorizontalFactor, VerticalFactor, H, V, mcu_skip, YCC, Grayscale, nc
  <1>3. CASE job.ycc = "YUV411"  BY <1>3 DEF HorizontalFactor, VerticalFactor, H, V, mcu_skip, YCC, Grayscale, nc
  <1>4. CASE job.ycc = "YUV440"  BY <1>4 DEF HorizontalFactor, VerticalFactor, H, V, mcu_skip, YCC, Grayscale, nc
  <1>5. CASE job.ycc = "YUV420"  BY <1>5 DEF HorizontalFactor, VerticalFactor, H, V, mcu_skip, YCC, Grayscale, nc
  <1>6. CASE job.ycc = "YUV410"  BY <1>6 DEF HorizontalFactor, VerticalFactor, H, V, mcu_skip, YCC, Grayscale, nc
  <1>7. CASE job.ycc = "GRAY"  BY <1>7 DEF HorizontalFactor, VerticalFactor, H, V, mcu_skip, YCC, Grayscale, nc
  <1>8. CASE job.ycc = "GRAY2"  BY <1>8 DEF HorizontalFactor, VerticalFactor, H, V, mcu_skip, YCC, Grayscale, nc
  <1> QED  BY <1>1, <1>2, <1>3, <1>4, <1>5, <1>6, <1>7, <1>8 DEF YCC

-----------------------------------------------------------------------------
(* Colour conversion, pixel by pixel and over an area. *)

\* An octet; and a sample, shifted to around zero, which the rounding may take to 128.
IsOctet(x) == x \in Int /\ 0 <= x /\ x <= 255
Around(x) == x \in Int /\ -128 <= x /\ x <= 128

\* The vector build's luma, from octets: its three rounded products and the halving.
LEMMA VectorLuma ==
  ASSUME NEW r, IsOctet(r), NEW g, IsOctet(g), NEW b, IsOctet(b)
  PROVE  LET v == ((MulFixedPoint15(r, 19595) + MulFixedPoint15(g, 38470 - 32768) + MulFixedPoint15(b, 7471) + g) \div 2) - 128
         IN /\ Around(v)
            /\ Near(1000 * v, 299 * r + 587 * g + 114 * b - 128000, 1250)
  <1> DEFINE x == MulFixedPoint15(r, 19595)
             y == MulFixedPoint15(g, 5702)
             z == MulFixedPoint15(b, 7471)
             v == ((x + y + z + g) \div 2) - 128
  <1>1. x \in Int /\ 32768 * x <= 19595 * r + 16384 /\ 19595 * r <= 32768 * x + 16384  BY DEF MulFixedPoint15, IsOctet
  <1>2. y \in Int /\ 32768 * y <= 5702 * g + 16384 /\ 5702 * g <= 32768 * y + 16384  BY DEF MulFixedPoint15, IsOctet
  <1>3. z \in Int /\ 32768 * z <= 7471 * b + 16384 /\ 7471 * b <= 32768 * z + 16384  BY DEF MulFixedPoint15, IsOctet
  <1> HIDE DEF x, y, z
  <1>4. v \in Int /\ 2 * (v + 128) <= x + y + z + g /\ x + y + z + g <= 2 * (v + 128) + 1  BY <1>1, <1>2, <1>3 DEF IsOctet
  <1> HIDE DEF v
  <1>5. Around(v) /\ Near(1000 * v, 299 * r + 587 * g + 114 * b - 128000, 1250)  BY <1>1, <1>2, <1>3, <1>4 DEF IsOctet, Near, Around
  <1>6. 38470 - 32768 = 5702  OBVIOUS
  <1> QED  BY <1>5, <1>6 DEF v, x, y, z

\* The vector build's Cb.
LEMMA VectorBlue ==
  ASSUME NEW r, IsOctet(r), NEW g, IsOctet(g), NEW b, IsOctet(b)
  PROVE  LET v == ((b + (256 - MulFixedPoint15(r, 11059) - MulFixedPoint15(g, 21709)) + 1) \div 2) - 128
         IN /\ Around(v)
            /\ Near(1000 * v, (500000 * b - 168736 * r - 331264 * g) \div 1000, 1250)
  BY DEF MulFixedPoint15, Near, IsOctet, Around

\* The vector build's Cr.
LEMMA VectorRed ==
  ASSUME NEW r, IsOctet(r), NEW g, IsOctet(g), NEW b, IsOctet(b)
  PROVE  LET v == ((r + (256 - MulFixedPoint15(g, 27439) - MulFixedPoint15(b, 5329)) + 1) \div 2) - 128
         IN /\ Around(v)
            /\ Near(1000 * v, (500000 * r - 418688 * g - 81312 * b) \div 1000, 1250)
  BY DEF MulFixedPoint15, Near, IsOctet, Around

\* The scalar build's luma, stored in eight bits.
LEMMA ScalarLuma ==
  ASSUME NEW r, IsOctet(r), NEW g, IsOctet(g), NEW b, IsOctet(b)
  PROVE  LET v == (((9798 * r + 19235 * g + 3736 * b + 2^14) \div 2^15) % 256) - 128
         IN /\ Around(v)
            /\ Near(1000 * v, 299 * r + 587 * g + 114 * b - 128000, 1250)
  BY DEF Near, IsOctet, Around

\* The scalar build's Cb, but for pure blue, whose 256 the eight bits make a 0.
LEMMA ScalarBlue ==
  ASSUME NEW r, IsOctet(r), NEW g, IsOctet(g), NEW b, IsOctet(b), ~(r = 0 /\ g = 0 /\ b = 255)
  PROVE  LET v == ((((16384 * b - 5528 * r - 10856 * g) + 2^14) \div 2^15 + 128) % 256) - 128
         IN /\ Around(v)
            /\ Near(1000 * v, (500000 * b - 168736 * r - 331264 * g) \div 1000, 1250)
  BY DEF Near, IsOctet, Around

\* The scalar build's Cr, but for pure red.
LEMMA ScalarRed ==
  ASSUME NEW r, IsOctet(r), NEW g, IsOctet(g), NEW b, IsOctet(b), ~(b = 0 /\ g = 0 /\ r = 255)
  PROVE  LET v == ((((16384 * r - 13720 * g - 2664 * b) + 2^14) \div 2^15 + 128) % 256) - 128
         IN /\ Around(v)
            /\ Near(1000 * v, (500000 * r - 418688 * g - 81312 * b) \div 1000, 1250)
  BY DEF Near, IsOctet, Around

\* The two colours whose chroma rounds to 256.
PureColours == {<<255, 0, 0>>, <<0, 0, 255>>}
Colour == Octet \X Octet \X Octet

\* A colour is three octets.
LEMMA Octets ==
  ASSUME NEW p \in Colour
  PROVE  /\ IsOctet(p[1]) /\ IsOctet(p[2]) /\ IsOctet(p[3])
         /\ p = <<p[1], p[2], p[3]>>
  BY DEF Colour, Octet, IsOctet

\* Whatever the converter: a sample is around zero, and unless the scalar one meets pure
\* red or blue, near the exact value.
LEMMA PixelNear ==
  ASSUME NEW p \in Colour, NEW c \in 1 .. 3
  PROVE  /\ Around(rgb2ycbcr(p)[c]) /\ Exact(p)[c] \in Int
         /\ (Scalar => p \notin PureColours) => Near(1000 * rgb2ycbcr(p)[c], Exact(p)[c], 1250)
  <1> DEFINE r == p[1]   g == p[2]   b == p[3]
  <1>1. IsOctet(r) /\ IsOctet(g) /\ IsOctet(b)  BY Octets
  <1>2. /\ r = 0 /\ g = 0 /\ b = 255 => p \in PureColours
        /\ b = 0 /\ g = 0 /\ r = 255 => p \in PureColours
    BY Octets DEF PureColours
  <1> HIDE DEF r, g, b
  <1> DEFINE e1 == 299 * r + 587 * g + 114 * b - 128000
             e2 == (500000 * b - 168736 * r - 331264 * g) \div 1000
             e3 == (500000 * r - 418688 * g - 81312 * b) \div 1000
             vector1 == ((MulFixedPoint15(r, 19595) + MulFixedPoint15(g, 38470 - 32768) + MulFixedPoint15(b, 7471) + g) \div 2) - 128
             vector2 == ((b + (256 - MulFixedPoint15(r, 11059) - MulFixedPoint15(g, 21709)) + 1) \div 2) - 128
             vector3 == ((r + (256 - MulFixedPoint15(g, 27439) - MulFixedPoint15(b, 5329)) + 1) \div 2) - 128
             s1 == (((9798 * r + 19235 * g + 3736 * b + 2^14) \div 2^15) % 256) - 128
             s2 == ((((16384 * b - 5528 * r - 10856 * g) + 2^14) \div 2^15 + 128) % 256) - 128
             s3 == ((((16384 * r - 13720 * g - 2664 * b) + 2^14) \div 2^15 + 128) % 256) - 128
  <1>3. Exact(p) = <<e1, e2, e3>>  BY DEF Exact, r, g, b
  <1>4. e1 \in Int /\ e2 \in Int /\ e3 \in Int  BY <1>1 DEF IsOctet
  <1>5. rgb2ycbcr(p) = IF Scalar THEN <<s1, s2, s3>> ELSE <<vector1, vector2, vector3>>
    BY DEF rgb2ycbcr, rgb2ycbcr_scalar, rgb2ycbcr_vector, r, g, b
  <1>6. Around(vector1) /\ Near(1000 * vector1, e1, 1250)  BY <1>1, VectorLuma
  <1>7. Around(vector2) /\ Near(1000 * vector2, e2, 1250)  BY <1>1, VectorBlue
  <1>8. Around(vector3) /\ Near(1000 * vector3, e3, 1250)  BY <1>1, VectorRed
  <1>9. Around(s1) /\ Near(1000 * s1, e1, 1250)  BY <1>1, ScalarLuma
  <1>10. Around(s2) /\ Around(s3)  BY <1>1 DEF Around, IsOctet
  <1>11. p \notin PureColours => Near(1000 * s2, e2, 1250)  BY <1>1, <1>2, ScalarBlue
  <1>12. p \notin PureColours => Near(1000 * s3, e3, 1250)  BY <1>1, <1>2, ScalarRed
  <1> HIDE DEF e1, e2, e3, vector1, vector2, vector3, s1, s2, s3
  <1>13. CASE c = 1  BY <1>3, <1>4, <1>5, <1>6, <1>9, <1>13
  <1>14. CASE c = 2  BY <1>3, <1>4, <1>5, <1>7, <1>10, <1>11, <1>14
  <1>15. CASE c = 3  BY <1>3, <1>4, <1>5, <1>8, <1>10, <1>12, <1>15
  <1> QED  BY <1>13, <1>14, <1>15

\* Where the pixels of an MCU are.
LEMMA PixelsInMCU ==
  ASSUME job.ycc \in YCC, NEW x \in 0 .. 8 * HorizontalFactor - 1, NEW y \in 0 .. 8 * VerticalFactor - 1
  PROVE  8 * HorizontalFactor * y + x + 1 \in 1 .. 64 * HorizontalFactor * VerticalFactor
  <1> DEFINE hf == HorizontalFactor
             vf == VerticalFactor
  <1>0. x \in 0 .. 8 * hf - 1 /\ y \in 0 .. 8 * vf - 1  OBVIOUS
  <1>1. \/ hf = 1 /\ vf = 1
        \/ hf = 2 /\ vf = 1
        \/ hf = 4 /\ vf = 1
        \/ hf = 1 /\ vf = 2
        \/ hf = 2 /\ vf = 2
        \/ hf = 4 /\ vf = 2
    BY Factors
  <1> HIDE DEF hf, vf
  <1>2. 8 * hf * y + x + 1 \in 1 .. 64 * hf * vf
    <2>1. CASE hf = 1 /\ vf = 1  BY <1>0, <2>1
    <2>2. CASE hf = 2 /\ vf = 1  BY <1>0, <2>2
    <2>3. CASE hf = 4 /\ vf = 1  BY <1>0, <2>3
    <2>4. CASE hf = 1 /\ vf = 2  BY <1>0, <2>4
    <2>5. CASE hf = 2 /\ vf = 2  BY <1>0, <2>5
    <2>6. CASE hf = 4 /\ vf = 2  BY <1>0, <2>6
    <2> QED  BY <1>1, <2>1, <2>2, <2>3, <2>4, <2>5, <2>6
  <1> QED  BY <1>2 DEF hf, vf

\* The pixels of an MCU of the job's format.
Pixels == [1 .. 64 * HorizontalFactor * VerticalFactor -> Colour]

\* The pixels of a luma block of an MCU are the MCU's.
LEMMA LumaPixels ==
  ASSUME job.ycc \in YCC, NEW h \in 0 .. HorizontalFactor - 1, NEW v \in 0 .. VerticalFactor - 1, NEW i \in 1 .. 64
  PROVE  /\ 8 * h + ((i-1) % 8) \in 0 .. 8 * HorizontalFactor - 1
         /\ 8 * v + ((i-1) \div 8) \in 0 .. 8 * VerticalFactor - 1
  <1>1. HorizontalFactor \in Nat /\ VerticalFactor \in Nat  BY Factors
  <1>2. (i-1) % 8 \in 0 .. 7 /\ (i-1) \div 8 \in 0 .. 7  OBVIOUS
  <1> QED  BY <1>1, <1>2

\* The pixels a chroma sample is the mean of are the MCU's.
LEMMA AreaPixels ==
  ASSUME job.ycc \in YCC, NEW n \in 0 .. HorizontalFactor * VerticalFactor - 1, NEW i \in 1 .. 64
  PROVE  /\ HorizontalFactor * ((i-1) % 8) + (n % HorizontalFactor) \in 0 .. 8 * HorizontalFactor - 1
         /\ VerticalFactor * ((i-1) \div 8) + (n \div HorizontalFactor) \in 0 .. 8 * VerticalFactor - 1
  <1> DEFINE hf == HorizontalFactor
             vf == VerticalFactor
  <1>1. \/ hf = 1 /\ vf = 1
        \/ hf = 2 /\ vf = 1
        \/ hf = 4 /\ vf = 1
        \/ hf = 1 /\ vf = 2
        \/ hf = 2 /\ vf = 2
        \/ hf = 4 /\ vf = 2
    BY Factors
  <1>2. n \in 0 .. hf * vf - 1  OBVIOUS
  <1>3. (i-1) % 8 \in 0 .. 7 /\ (i-1) \div 8 \in 0 .. 7  OBVIOUS
  <1> DEFINE a == (i-1) % 8
             b == (i-1) \div 8
  <1> HIDE DEF hf, vf, a, b
  <1>4. hf * a + (n % hf) \in 0 .. 8 * hf - 1 /\ vf * b + (n \div hf) \in 0 .. 8 * vf - 1
    <2>0. a \in 0 .. 7 /\ b \in 0 .. 7  BY <1>3 DEF a, b
    <2>1. CASE hf = 1 /\ vf = 1  BY <1>2, <2>0, <2>1
    <2>2. CASE hf = 2 /\ vf = 1  BY <1>2, <2>0, <2>2
    <2>3. CASE hf = 4 /\ vf = 1  BY <1>2, <2>0, <2>3
    <2>4. CASE hf = 1 /\ vf = 2  BY <1>2, <2>0, <2>4
    <2>5. CASE hf = 2 /\ vf = 2  BY <1>2, <2>0, <2>5
    <2>6. CASE hf = 4 /\ vf = 2  BY <1>2, <2>0, <2>6
    <2> QED  BY <1>1, <2>1, <2>2, <2>3, <2>4, <2>5, <2>6
  <1> QED  BY <1>4 DEF hf, vf, a, b

\* A block of luma has 64 samples, each of them around zero.
LEMMA LumaAround ==
  ASSUME job.ycc \in YCC, NEW mcu \in Pixels, NEW h \in 0 .. HorizontalFactor - 1, NEW v \in 0 .. VerticalFactor - 1
  PROVE  /\ LumaBlock(mcu, h, v) = [i \in 1 .. 64 |-> LumaBlock(mcu, h, v)[i]]
         /\ \A i \in 1 .. 64 :
              /\ LumaBlock(mcu, h, v)[i] = rgb2ycbcr(Pixel(mcu, 8 * v + ((i-1) \div 8), 8 * h + ((i-1) % 8)))[1]
              /\ Around(LumaBlock(mcu, h, v)[i])
  <1>1. /\ LumaBlock(mcu, h, v) = [i \in 1 .. 64 |-> LumaBlock(mcu, h, v)[i]]
        /\ \A i \in 1 .. 64 : LumaBlock(mcu, h, v)[i] = rgb2ycbcr(Pixel(mcu, 8 * v + ((i-1) \div 8), 8 * h + ((i-1) % 8)))[1]
    BY DEF LumaBlock
  <1>2. ASSUME NEW i \in 1 .. 64 PROVE Around(LumaBlock(mcu, h, v)[i])
    <2> DEFINE x == 8 * h + ((i-1) % 8)
               y == 8 * v + ((i-1) \div 8)
    <2>1. x \in 0 .. 8 * HorizontalFactor - 1 /\ y \in 0 .. 8 * VerticalFactor - 1  BY LumaPixels
    <2>2. LumaBlock(mcu, h, v)[i] = rgb2ycbcr(Pixel(mcu, y, x))[1]  BY <1>1
    <2> HIDE DEF x, y
    <2>3. 8 * HorizontalFactor * y + x + 1 \in 1 .. 64 * HorizontalFactor * VerticalFactor  BY <2>1, PixelsInMCU
    <2>4. Pixel(mcu, y, x) \in Colour  BY <2>3 DEF Pixel, Pixels
    <2> QED  BY <2>2, <2>4, PixelNear
  <1> QED  BY <1>1, <1>2

\* A chroma sample's area: so many colours, each of them a pixel of the MCU.
LEMMA AreaTyped ==
  ASSUME job.ycc \in YCC, NEW mcu \in Pixels, NEW i \in 1 .. 64
  PROVE  /\ Area(mcu, i) \in [0 .. HorizontalFactor * VerticalFactor - 1 -> Colour]
         /\ \A n \in 0 .. HorizontalFactor * VerticalFactor - 1 : \E q \in 1 .. 64 * HorizontalFactor * VerticalFactor :
              Area(mcu, i)[n] = mcu[q]
  <1> DEFINE N == HorizontalFactor * VerticalFactor
             at(n) == Pixel(mcu, VerticalFactor * ((i-1) \div 8) + (n \div HorizontalFactor),
                                 HorizontalFactor * ((i-1) % 8) + (n % HorizontalFactor))
  <1>1. ASSUME NEW n \in 0 .. N - 1
        PROVE  at(n) \in Colour /\ \E q \in 1 .. 64 * HorizontalFactor * VerticalFactor : at(n) = mcu[q]
    <2> DEFINE x == HorizontalFactor * ((i-1) % 8) + (n % HorizontalFactor)
               y == VerticalFactor * ((i-1) \div 8) + (n \div HorizontalFactor)
               q == 8 * HorizontalFactor * y + x + 1
    <2>1. x \in 0 .. 8 * HorizontalFactor - 1 /\ y \in 0 .. 8 * VerticalFactor - 1  BY AreaPixels
    <2>2. at(n) = Pixel(mcu, y, x)  OBVIOUS
    <2> HIDE DEF x, y, at
    <2>3. q \in 1 .. 64 * HorizontalFactor * VerticalFactor  BY <2>1, PixelsInMCU
    <2>4. at(n) = mcu[q]  BY <2>2 DEF Pixel
    <2> HIDE DEF q
    <2> QED  BY <2>3, <2>4 DEF Pixels
  <1>2. Area(mcu, i) = [n \in 0 .. N - 1 |-> at(n)]  BY DEF Area
  <1> HIDE DEF at, N
  <1>3. Area(mcu, i) \in [0 .. N - 1 -> Colour] /\ \A n \in 0 .. N - 1 : Area(mcu, i)[n] = at(n)  BY <1>1, <1>2
  <1>4. \A n \in 0 .. N - 1 : \E q \in 1 .. 64 * HorizontalFactor * VerticalFactor : Area(mcu, i)[n] = mcu[q]
    BY <1>1, <1>3
  <1> QED  BY <1>3, <1>4 DEF N

\* No pixel of the MCU is one that the scalar build gets wrong; and how near its chroma is.
Untouched(mcu) == Scalar => \A q \in 1 .. 64 * HorizontalFactor * VerticalFactor : mcu[q] \notin PureColours
ChromaNear(mcu, c, i) ==
  LET N == HorizontalFactor * VerticalFactor
  IN Near(1000 * N * ChromaBlock(mcu, c)[i], ExactSum(mcu, i, c), 1250 * N + 1000 * (N - 1))

\* A block of chroma has 64 samples, around zero and near the exact means.
LEMMA ChromaAround ==
  ASSUME job.ycc \in YCC, NEW mcu \in Pixels, NEW c \in 1 .. 3, NEW i \in 1 .. 64
  PROVE  /\ ChromaBlock(mcu, c) = [m \in 1 .. 64 |-> ChromaBlock(mcu, c)[m]]
         /\ Around(ChromaBlock(mcu, c)[i])
         /\ ExactSum(mcu, i, c) \in Int
         /\ Untouched(mcu) => ChromaNear(mcu, c, i)
  <1> DEFINE N == HorizontalFactor * VerticalFactor
             area == Area(mcu, i)
             a == [n \in 0 .. N - 1 |-> rgb2ycbcr(area[n])[c]]
             e == [n \in 0 .. N - 1 |-> Exact(area[n])[c]]
             Tame == Untouched(mcu)
  <1>1. N \in {1, 2, 4, 8}  BY Factors
  <1>2. area \in [0 .. N - 1 -> Colour] /\ DOMAIN area = 0 .. N - 1  BY AreaTyped
  <1>3. /\ ChromaBlock(mcu, c) = [m \in 1 .. 64 |-> ChromaBlock(mcu, c)[m]]
        /\ ChromaBlock(mcu, c)[i] = Mean(SumOver([n \in DOMAIN area |-> rgb2ycbcr(area[n])[c]]), N)
    BY DEF ChromaBlock
  <1>4. ExactSum(mcu, i, c) = SumOver([n \in DOMAIN area |-> Exact(area[n])[c]])  BY DEF ExactSum
  <1>pixel. \A n \in 0 .. N - 1 : \E q \in 1 .. 64 * HorizontalFactor * VerticalFactor : area[n] = mcu[q]  BY AreaTyped
  <1> HIDE DEF N, area
  <1>5. ASSUME Tame, NEW n \in 0 .. N - 1 PROVE Scalar => area[n] \notin PureColours
    <2>1. PICK q \in 1 .. 64 * HorizontalFactor * VerticalFactor : area[n] = mcu[q]  BY <1>pixel
    <2> QED  BY <1>5, <2>1 DEF Untouched
  <1>6. ChromaBlock(mcu, c)[i] = Mean(SumOver(a), N) /\ ExactSum(mcu, i, c) = SumOver(e)  BY <1>2, <1>3, <1>4
  <1>7. ASSUME NEW n \in 0 .. N - 1
        PROVE  /\ Around(rgb2ycbcr(area[n])[c]) /\ Exact(area[n])[c] \in Int
               /\ Tame => Near(1000 * rgb2ycbcr(area[n])[c], Exact(area[n])[c], 1250)
    <2>1. area[n] \in Colour  BY <1>2
    <2> QED  BY <1>5, <2>1, PixelNear
  <1>8. /\ a \in [0 .. N - 1 -> Int] /\ e \in [0 .. N - 1 -> Int]
        /\ AllAround(a, N)
        /\ Tame => AllNear(a, e, N, 1250)
    <2>1. \A n \in 0 .. N - 1 : a[n] = rgb2ycbcr(area[n])[c] /\ e[n] = Exact(area[n])[c]  OBVIOUS
    <2>2. a \in [0 .. N - 1 -> Int] /\ e \in [0 .. N - 1 -> Int]  BY <1>7 DEF Around
    <2>3. AllAround(a, N)
      <3>1. \A n \in 0 .. N - 1 : -128 <= a[n] /\ a[n] <= 128  BY <1>7, <2>1 DEF Around
      <3> HIDE DEF a
      <3> QED  BY <3>1 DEF AllAround
    <2> HIDE DEF a, e, Tame
    <2>4. Tame => AllNear(a, e, N, 1250)  BY <1>7, <2>1 DEF AllNear
    <2> QED  BY <2>2, <2>3, <2>4
  <1> HIDE DEF a, e
  <1> DEFINE s == SumOver(a)
             t == SumOver(e)
             m == Mean(s, N)
  <1>9. /\ s \in Int /\ -(128 * N) <= s /\ s <= 128 * N /\ t \in Int
        /\ Tame => Near(1000 * s, t, 1250 * N)
    <2> DEFINE d == 1250
    <2>1. N \in Nat /\ d \in Nat  BY <1>1
    <2>2. Tame => AllNear(a, e, N, d)  BY <1>8
    <2> HIDE DEF Tame, d
    <2>3. /\ SumOver(a) \in Int /\ -(128 * N) <= SumOver(a) /\ SumOver(a) <= 128 * N /\ SumOver(e) \in Int
          /\ AllNear(a, e, N, d) => Near(1000 * SumOver(a), SumOver(e), d * N)
      BY <1>8, <2>1, SumsNear
    <2>4. s \in Int /\ -(128 * N) <= s /\ s <= 128 * N /\ t \in Int  BY <2>3
    <2>5. Tame => Near(1000 * s, t, d * N)  BY <2>2, <2>3
    <2> HIDE DEF s, t
    <2> QED  BY <2>4, <2>5 DEF d
  <1> HIDE DEF s, t
  <1>10. m \in Int /\ -128 <= m /\ m <= 128 /\ Near(1000 * N * m, 1000 * s, 1000 * (N - 1))
    <2>1. CASE N = 1  BY <1>9, <2>1 DEF Mean, Near
    <2>2. CASE N = 2  BY <1>9, <2>2 DEF Mean, Near
    <2>3. CASE N = 4  BY <1>9, <2>3 DEF Mean, Near
    <2>4. CASE N = 8  BY <1>9, <2>4 DEF Mean, Near
    <2> QED  BY <1>1, <2>1, <2>2, <2>3, <2>4
  <1> HIDE DEF m
  <1>11. Tame => Near(1000 * N * m, t, 1250 * N + 1000 * (N - 1))
    <2> HIDE DEF Tame
    <2>1. CASE N = 1  BY <1>9, <1>10, <2>1 DEF Near
    <2>2. CASE N = 2  BY <1>9, <1>10, <2>2 DEF Near
    <2>3. CASE N = 4  BY <1>9, <1>10, <2>3 DEF Near
    <2>4. CASE N = 8  BY <1>9, <1>10, <2>4 DEF Near
    <2> QED  BY <1>1, <2>1, <2>2, <2>3, <2>4
  <1>12. ChromaBlock(mcu, c)[i] = m /\ ExactSum(mcu, i, c) = t  BY <1>6 DEF m, s, t
  <1>13. Around(ChromaBlock(mcu, c)[i])  BY <1>10, <1>12 DEF Around
  <1>14. Tame => ChromaNear(mcu, c, i)
    <2> HIDE DEF Tame
    <2> QED  BY <1>11, <1>12 DEF N, ChromaNear
  <1> QED  BY <1>3, <1>9, <1>12, <1>13, <1>14

-----------------------------------------------------------------------------
(* A strip, converted. *)

\* A sample fits the 16 bits it is kept in.
LEMMA AroundFits == \A x : Around(x) => x \in Word16
  <1> DEFINE lo == -(2^15)
             hi == 2^15 - 1
  <1>1. lo \in Int /\ hi \in Int /\ lo <= -128 /\ 128 <= hi /\ Word16 = lo .. hi  BY DEF Word16
  <1> HIDE DEF lo, hi
  <1> QED  BY <1>1 DEF Around

\* A job that starts at its pixels has MCUs of them.
LEMMA JobOfPixels ==
  ASSUME job \in Jobs, job.at = "pixels"
  PROVE  /\ job.ycc \in YCC /\ Len(job.in) \in Nat
         /\ \A n \in 1 .. Len(job.in) : job.in[n] \in Pixels
         /\ job.ycc \in Grayscale => Len(job.in) % 2 = 0
  <1>1. /\ job.ycc \in YCC /\ job.in \in Seq([1 .. 64 * H[job.ycc] * V[job.ycc] -> Octet \X Octet \X Octet])
        /\ job.ycc \in Grayscale => Len(job.in) % 2 = 0
    BY BlockCodingAssumption
  <1>2. Pixels = [1 .. 64 * H[job.ycc] * V[job.ycc] -> Octet \X Octet \X Octet]
    BY DEF Pixels, HorizontalFactor, VerticalFactor, Colour
  <1>3. job.in \in Seq(Pixels)  BY <1>1, <1>2
  <1>4. Len(job.in) \in Nat /\ \A n \in 1 .. Len(job.in) : job.in[n] \in Pixels  BY <1>3, ElementOfSeq
  <1> QED  BY <1>1, <1>4

\* What is converted: so many blocks of luma, so many of each chroma.
LEMMA ConvertedIs ==
  ASSUME job \in Jobs, job.at = "pixels", NEW L, L = Len(job.in)
  PROVE  LET N == HorizontalFactor * VerticalFactor
         IN /\ N * L \in Nat
            /\ Converted[1] = [u \in 1 .. N * L |-> Converted[1][u]]
            /\ \A u \in 1 .. N * L :
                 Converted[1][u] = LumaBlock(job.in[1 + (u-1) \div N], (u-1) % HorizontalFactor, ((u-1) % N) \div HorizontalFactor)
            /\ \A c \in 2 .. 3 : Converted[c] = IF nc = 1 THEN <<>> ELSE [n \in 1 .. L |-> ChromaBlock(job.in[n], c)]
            /\ DOMAIN Converted = 1 .. 3
            /\ Converted = [c \in 1 .. 3 |-> Converted[c]]
  <1> DEFINE N == HorizontalFactor * VerticalFactor
             luma == [u \in 1 .. N * L |-> LumaBlock(job.in[1 + (u-1) \div N], (u-1) % HorizontalFactor, ((u-1) % N) \div HorizontalFactor)]
             chroma(c) == IF nc = 1 THEN <<>> ELSE [n \in 1 .. L |-> ChromaBlock(job.in[n], c)]
  <1>1. N \in Nat /\ L \in Nat
    <2>1. N \in {1, 2, 4, 8}  BY JobOfPixels, Factors
    <2> QED  BY <2>1, JobOfPixels
  <1>2. Converted = <<luma, chroma(2), chroma(3)>>  BY DEF Converted
  <1> HIDE DEF N
  <1>3. N * L \in Nat  BY <1>1
  <1>4. \A u \in 1 .. N * L :
          luma[u] = LumaBlock(job.in[1 + (u-1) \div N], (u-1) % HorizontalFactor, ((u-1) % N) \div HorizontalFactor)
    OBVIOUS
  <1>5. luma = [u \in 1 .. N * L |-> luma[u]]  OBVIOUS
  <1> HIDE DEF luma, chroma
  <1>6. /\ Converted[1] = luma /\ Converted[2] = chroma(2) /\ Converted[3] = chroma(3) /\ DOMAIN Converted = 1 .. 3
        /\ Converted = [c \in 1 .. 3 |-> Converted[c]]
    BY <1>2
  <1>7. \A c \in 2 .. 3 : Converted[c] = chroma(c)  BY <1>6
  <1> QED  BY <1>3, <1>4, <1>5, <1>6, <1>7 DEF N, chroma

\* Block u of the luma is one of MCU 1 + (u-1) \div N, and one of its own.
LEMMA LumaPlaces ==
  ASSUME job.ycc \in YCC, NEW L \in Nat, NEW u \in 1 .. HorizontalFactor * VerticalFactor * L
  PROVE  LET N == HorizontalFactor * VerticalFactor
         IN /\ 1 + (u-1) \div N \in 1 .. L
            /\ (u-1) % HorizontalFactor \in 0 .. HorizontalFactor - 1
            /\ ((u-1) % N) \div HorizontalFactor \in 0 .. VerticalFactor - 1
  <1> DEFINE hf == HorizontalFactor
             vf == VerticalFactor
  <1>1. \/ hf = 1 /\ vf = 1
        \/ hf = 2 /\ vf = 1
        \/ hf = 4 /\ vf = 1
        \/ hf = 1 /\ vf = 2
        \/ hf = 2 /\ vf = 2
        \/ hf = 4 /\ vf = 2
    BY Factors
  <1>2. u \in 1 .. hf * vf * L  OBVIOUS
  <1> HIDE DEF hf, vf
  <1>3. /\ 1 + (u-1) \div (hf * vf) \in 1 .. L
        /\ (u-1) % hf \in 0 .. hf - 1
        /\ ((u-1) % (hf * vf)) \div hf \in 0 .. vf - 1
    <2>1. CASE hf = 1 /\ vf = 1  BY <1>2, <2>1
    <2>2. CASE hf = 2 /\ vf = 1  BY <1>2, <2>2
    <2>3. CASE hf = 4 /\ vf = 1  BY <1>2, <2>3
    <2>4. CASE hf = 1 /\ vf = 2  BY <1>2, <2>4
    <2>5. CASE hf = 2 /\ vf = 2  BY <1>2, <2>5
    <2>6. CASE hf = 4 /\ vf = 2  BY <1>2, <2>6
    <2> QED  BY <1>1, <2>1, <2>2, <2>3, <2>4, <2>5, <2>6
  <1> QED  BY <1>3 DEF hf, vf

\* Samples of three components, all of them around zero.
AroundZero(s) == \A c \in 1 .. 3 : \A n \in 1 .. Len(s[c]) : \A i \in 1 .. 64 : Around(s[c][n][i])

\* What is converted is a strip of blocks of 16 bits, its samples around zero.
LEMMA ConvertedTyped ==
  ASSUME job \in Jobs, job.at = "pixels"
  PROVE  /\ Converted \in [1 .. 3 -> Seq(Block(Word16))]
         /\ Len(Converted[1]) = mcu_skip * Len(job.in)
         /\ nc = 3 => Len(Converted[2]) = Len(job.in) /\ Len(Converted[3]) = Len(job.in)
         /\ AroundZero(Converted)
  <1> DEFINE N == HorizontalFactor * VerticalFactor
             L == Len(job.in)
  <1>0. job.ycc \in YCC /\ L \in Nat /\ \A n \in 1 .. L : job.in[n] \in Pixels  BY JobOfPixels
  <1>1. /\ N * L \in Nat
        /\ Converted[1] = [u \in 1 .. N * L |-> Converted[1][u]]
        /\ \A u \in 1 .. N * L :
             Converted[1][u] = LumaBlock(job.in[1 + (u-1) \div N], (u-1) % HorizontalFactor, ((u-1) % N) \div HorizontalFactor)
        /\ \A c \in 2 .. 3 : Converted[c] = IF nc = 1 THEN <<>> ELSE [n \in 1 .. L |-> ChromaBlock(job.in[n], c)]
        /\ Converted = [c \in 1 .. 3 |-> Converted[c]]
    BY ConvertedIs
  <1>2. N = mcu_skip  BY <1>0, Factors
  <1>3. ASSUME NEW b, b = [i \in 1 .. 64 |-> b[i]], \A i \in 1 .. 64 : Around(b[i])  PROVE b \in Block(Word16)
    <2>1. \A i \in 1 .. 64 : b[i] \in Word16  BY <1>3, AroundFits
    <2> QED  BY <1>3, <2>1 DEF Block
  <1>4. ASSUME NEW u \in 1 .. N * L
        PROVE  Converted[1][u] \in Block(Word16) /\ \A i \in 1 .. 64 : Around(Converted[1][u][i])
    <2> DEFINE n == 1 + (u-1) \div N
               h == (u-1) % HorizontalFactor
               v == ((u-1) % N) \div HorizontalFactor
    <2>1. n \in 1 .. L /\ h \in 0 .. HorizontalFactor - 1 /\ v \in 0 .. VerticalFactor - 1  BY <1>0, LumaPlaces
    <2>2. Converted[1][u] = LumaBlock(job.in[n], h, v)  BY <1>1
    <2> HIDE DEF n, h, v
    <2> DEFINE b == LumaBlock(job.in[n], h, v)
    <2>3. job.in[n] \in Pixels  BY <1>0, <2>1
    <2>4. b = [i \in 1 .. 64 |-> b[i]] /\ \A i \in 1 .. 64 : Around(b[i])  BY <1>0, <2>1, <2>3, LumaAround
    <2> HIDE DEF b
    <2>5. b \in Block(Word16)  BY <1>3, <2>4
    <2> QED  BY <2>2, <2>4, <2>5 DEF b
  <1>5. ASSUME NEW c \in 1 .. 3, NEW n \in 1 .. L
        PROVE  ChromaBlock(job.in[n], c) \in Block(Word16) /\ \A i \in 1 .. 64 : Around(ChromaBlock(job.in[n], c)[i])
    <2> DEFINE mcu == job.in[n]
               b == ChromaBlock(mcu, c)
    <2>1. mcu \in Pixels  BY <1>0
    <2> HIDE DEF mcu
    <2>2. b = [i \in 1 .. 64 |-> b[i]]  BY DEF ChromaBlock
    <2>3. \A i \in 1 .. 64 : Around(b[i])  BY <1>0, <2>1, ChromaAround
    <2> HIDE DEF b
    <2>4. b \in Block(Word16)  BY <1>3, <2>2, <2>3
    <2> QED  BY <2>3, <2>4 DEF b, mcu
  <1> HIDE DEF N, L
  <1>6. Converted[1] \in Seq(Block(Word16)) /\ Len(Converted[1]) = N * L
    <2>1. Converted[1] \in [1 .. N * L -> Block(Word16)]  BY <1>1, <1>4
    <2> QED  BY <1>1, <2>1, FunctionIsSeq
  <1>7. ASSUME NEW c \in 2 .. 3
        PROVE  /\ Converted[c] \in Seq(Block(Word16))
               /\ nc = 3 => Len(Converted[c]) = L
               /\ \A n \in 1 .. Len(Converted[c]) : \A i \in 1 .. 64 : Around(Converted[c][n][i])
    <2>1. CASE nc = 1
      <3>1. Converted[c] = <<>>  BY <1>1, <2>1
      <3>2. <<>> \in Seq(Block(Word16)) /\ Len(<<>>) = 0  BY EmptySeq
      <3> QED  BY <2>1, <3>1, <3>2
    <2>2. CASE nc # 1
      <3> DEFINE s == [n \in 1 .. L |-> ChromaBlock(job.in[n], c)]
      <3>1. Converted[c] = s  BY <1>1, <2>2
      <3>2. c \in 1 .. 3  OBVIOUS
      <3>3. s \in [1 .. L -> Block(Word16)] /\ \A n \in 1 .. L : s[n] = ChromaBlock(job.in[n], c)  BY <1>5, <3>2
      <3> HIDE DEF s
      <3>4. s \in Seq(Block(Word16)) /\ Len(s) = L  BY <1>0, <3>3, FunctionIsSeq
      <3>5. \A n \in 1 .. L : \A i \in 1 .. 64 : Around(s[n][i])  BY <1>5, <3>2, <3>3
      <3> QED  BY <3>1, <3>4, <3>5
    <2> QED  BY <2>1, <2>2
  <1>8. \A c \in 1 .. 3 : Converted[c] \in Seq(Block(Word16))  BY <1>6, <1>7
  <1>9. Converted \in [1 .. 3 -> Seq(Block(Word16))]  BY <1>1, <1>8
  <1>10. AroundZero(Converted)
    <2>1. \A n \in 1 .. Len(Converted[1]) : \A i \in 1 .. 64 : Around(Converted[1][n][i])  BY <1>4, <1>6
    <2>2. ASSUME NEW c \in 1 .. 3 PROVE \A n \in 1 .. Len(Converted[c]) : \A i \in 1 .. 64 : Around(Converted[c][n][i])
      <3>1. CASE c = 1  BY <2>1, <3>1
      <3>2. CASE c # 1
        <4>1. c \in 2 .. 3  BY <3>2
        <4> QED  BY <1>7, <4>1
      <3> QED  BY <3>1, <3>2
    <2> QED  BY <2>2 DEF AroundZero
  <1>11. 2 \in 2 .. 3 /\ 3 \in 2 .. 3  OBVIOUS
  <1> QED  BY <1>2, <1>6, <1>7, <1>9, <1>10, <1>11 DEF L

\* No pure red or blue, in the scalar build.
NoPureColour ==
  Scalar => \A n \in 1 .. Len(job.in) : \A q \in 1 .. 64 * HorizontalFactor * VerticalFactor : job.in[n][q] \notin PureColours

\* A pixel's place in the strip is where its luma is.
Place(n, y, x) == HorizontalFactor * VerticalFactor * (n-1) + HorizontalFactor * (y \div 8) + (x \div 8) + 1
IsPlace(b, n, y, x, L) ==
  LET N == HorizontalFactor * VerticalFactor
  IN /\ b \in 1 .. N * L
     /\ 1 + (b-1) \div N = n
     /\ (b-1) % HorizontalFactor = x \div 8
     /\ ((b-1) % N) \div HorizontalFactor = y \div 8
     /\ x \div 8 \in 0 .. HorizontalFactor - 1 /\ y \div 8 \in 0 .. VerticalFactor - 1

\* The block at a pixel's place is the one its luma went to.
LEMMA LumaPlaceOf ==
  ASSUME job.ycc \in YCC, NEW n \in Nat \ {0}, NEW y \in 0 .. 8 * VerticalFactor - 1, NEW x \in 0 .. 8 * HorizontalFactor - 1,
         NEW L \in Nat, n <= L
  PROVE  IsPlace(Place(n, y, x), n, y, x, L)
  <1> DEFINE hf == HorizontalFactor
             vf == VerticalFactor
             N == hf * vf
             b == N * (n-1) + hf * (y \div 8) + (x \div 8) + 1
  <1>1. \/ hf = 1 /\ vf = 1
        \/ hf = 2 /\ vf = 1
        \/ hf = 4 /\ vf = 1
        \/ hf = 1 /\ vf = 2
        \/ hf = 2 /\ vf = 2
        \/ hf = 4 /\ vf = 2
    BY Factors
  <1>2. y \in 0 .. 8 * vf - 1 /\ x \in 0 .. 8 * hf - 1  OBVIOUS
  <1> HIDE DEF hf, vf
  <1>3. /\ b \in 1 .. N * L
        /\ 1 + (b-1) \div N = n
        /\ (b-1) % hf = x \div 8
        /\ ((b-1) % N) \div hf = y \div 8
        /\ x \div 8 \in 0 .. hf - 1 /\ y \div 8 \in 0 .. vf - 1
    <2>1. CASE hf = 1 /\ vf = 1  BY <1>2, <2>1
    <2>2. CASE hf = 2 /\ vf = 1  BY <1>2, <2>2
    <2>3. CASE hf = 4 /\ vf = 1  BY <1>2, <2>3
    <2>4. CASE hf = 1 /\ vf = 2  BY <1>2, <2>4
    <2>5. CASE hf = 2 /\ vf = 2  BY <1>2, <2>5
    <2>6. CASE hf = 4 /\ vf = 2  BY <1>2, <2>6
    <2> QED  BY <1>1, <2>1, <2>2, <2>3, <2>4, <2>5, <2>6
  <1>4. b = Place(n, y, x)  BY DEF Place, b, N, hf, vf
  <1> HIDE DEF b
  <1> QED  BY <1>3, <1>4 DEF hf, vf, N, IsPlace

\* What ColourClose says of a strip, and that it holds of what is converted.
Close(s) ==
  LET area == HorizontalFactor * VerticalFactor
  IN \A n \in 1 .. Len(job.in) :
       /\ \A y \in 0 .. 8 * VerticalFactor - 1, x \in 0 .. 8 * HorizontalFactor - 1 :
            LET b == area * (n-1) + HorizontalFactor * (y \div 8) + (x \div 8) + 1
            IN Magnitude(1000 * s[1][b][8 * (y % 8) + (x % 8) + 1] - Exact(Pixel(job.in[n], y, x))[1]) <= 1250
       /\ \A c \in 2 .. nc : \A i \in 1 .. 64 :
            Magnitude(1000 * area * s[c][n][i] - ExactSum(job.in[n], i, c)) <= 1250 * area + 1000 * (area - 1)

\* What is converted is close to the exact colours.
LEMMA ConvertedClose ==
  ASSUME job \in Jobs, job.at = "pixels", NoPureColour
  PROVE  Close(Converted)
  <1> DEFINE N == HorizontalFactor * VerticalFactor
             L == Len(job.in)
  <1>0. job.ycc \in YCC /\ L \in Nat /\ \A n \in 1 .. L : job.in[n] \in Pixels  BY JobOfPixels
  <1>1. /\ \A u \in 1 .. N * L :
             Converted[1][u] = LumaBlock(job.in[1 + (u-1) \div N], (u-1) % HorizontalFactor, ((u-1) % N) \div HorizontalFactor)
        /\ \A c \in 2 .. 3 : Converted[c] = IF nc = 1 THEN <<>> ELSE [n \in 1 .. L |-> ChromaBlock(job.in[n], c)]
    BY ConvertedIs
  <1>2. N \in {1, 2, 4, 8}  BY <1>0, Factors
  <1> SUFFICES ASSUME NEW n \in 1 .. L
               PROVE  /\ \A y \in 0 .. 8 * VerticalFactor - 1, x \in 0 .. 8 * HorizontalFactor - 1 :
                           LET b == N * (n-1) + HorizontalFactor * (y \div 8) + (x \div 8) + 1
                           IN Magnitude(1000 * Converted[1][b][8 * (y % 8) + (x % 8) + 1] - Exact(Pixel(job.in[n], y, x))[1]) <= 1250
                      /\ \A c \in 2 .. nc : \A i \in 1 .. 64 :
                           Magnitude(1000 * N * Converted[c][n][i] - ExactSum(job.in[n], i, c)) <= 1250 * N + 1000 * (N - 1)
    BY DEF Close
  <1> DEFINE mcu == job.in[n]
  <1>3. Scalar => \A q \in 1 .. 64 * HorizontalFactor * VerticalFactor : mcu[q] \notin PureColours
    BY <1>0 DEF NoPureColour
  <1>3a. mcu \in Pixels  BY <1>0
  <1>4. ASSUME NEW y \in 0 .. 8 * VerticalFactor - 1, NEW x \in 0 .. 8 * HorizontalFactor - 1
        PROVE  LET b == N * (n-1) + HorizontalFactor * (y \div 8) + (x \div 8) + 1
               IN Magnitude(1000 * Converted[1][b][8 * (y % 8) + (x % 8) + 1] - Exact(Pixel(mcu, y, x))[1]) <= 1250
    <2> DEFINE b == N * (n-1) + HorizontalFactor * (y \div 8) + (x \div 8) + 1
               i == 8 * (y % 8) + (x % 8) + 1
               h == x \div 8
               v == y \div 8
    <2>0. n \in Nat \ {0} /\ n <= L /\ b = Place(n, y, x)  BY DEF Place
    <2>0a. IsPlace(Place(n, y, x), n, y, x, L)
      <3> HIDE DEF b, L, N
      <3> QED  BY <1>0, <2>0, LumaPlaceOf
    <2>1. /\ b \in 1 .. N * L /\ 1 + (b-1) \div N = n /\ (b-1) % HorizontalFactor = h /\ ((b-1) % N) \div HorizontalFactor = v
          /\ h \in 0 .. HorizontalFactor - 1 /\ v \in 0 .. VerticalFactor - 1
      <3> HIDE DEF b
      <3> QED  BY <2>0, <2>0a DEF IsPlace
    <2>2. HorizontalFactor \in Nat /\ VerticalFactor \in Nat  BY <1>0, Factors
    <2>3. i \in 1 .. 64 /\ 8 * v + ((i-1) \div 8) = y /\ 8 * h + ((i-1) % 8) = x
      <3>1. x \in Nat /\ y \in Nat  BY <2>2
      <3> QED  BY <3>1
    <2> HIDE DEF b, i, h, v
    <2>4. Converted[1][b] = LumaBlock(mcu, h, v)  BY <1>1, <2>1
    <2>5. LumaBlock(mcu, h, v)[i] = rgb2ycbcr(Pixel(mcu, 8 * v + ((i-1) \div 8), 8 * h + ((i-1) % 8)))[1]
      BY <1>0, <1>3a, <2>1, <2>3, LumaAround
    <2>6. Converted[1][b][i] = rgb2ycbcr(Pixel(mcu, y, x))[1]  BY <2>3, <2>4, <2>5
    <2>7. 8 * HorizontalFactor * y + x + 1 \in 1 .. 64 * HorizontalFactor * VerticalFactor  BY <1>0, PixelsInMCU
    <2> DEFINE p == Pixel(mcu, y, x)
    <2>8. p \in Colour /\ (Scalar => p \notin PureColours)  BY <1>3, <1>3a, <2>7 DEF Pixel, Pixels
    <2> HIDE DEF p
    <2>9. Around(rgb2ycbcr(p)[1]) /\ Exact(p)[1] \in Int /\ Near(1000 * rgb2ycbcr(p)[1], Exact(p)[1], 1250)
      <3>1. 1 \in 1 .. 3  OBVIOUS
      <3> QED  BY <2>8, <3>1, PixelNear
    <2> DEFINE s == rgb2ycbcr(p)[1]
               e == Exact(p)[1]
    <2>10. s \in Int /\ e \in Int /\ Near(1000 * s, e, 1250)  BY <2>9 DEF Around
    <2> HIDE DEF s, e
    <2>11. Magnitude(1000 * s - e) <= 1250  BY <2>10 DEF Near, Magnitude
    <2> QED  BY <2>6, <2>11 DEF b, i, s, e, p
  <1>5. ASSUME NEW c \in 2 .. nc, NEW i \in 1 .. 64
        PROVE  Magnitude(1000 * N * Converted[c][n][i] - ExactSum(mcu, i, c)) <= 1250 * N + 1000 * (N - 1)
    <2>1. nc = 3 /\ c \in 2 .. 3 /\ c \in 1 .. 3  BY DEF nc
    <2>2. Converted[c][n] = ChromaBlock(mcu, c)  BY <1>1, <2>1
    <2> DEFINE s == ChromaBlock(mcu, c)[i]
               e == ExactSum(mcu, i, c)
    <2>3. Around(s) /\ e \in Int /\ ChromaNear(mcu, c, i)
      <3>1. Untouched(mcu)  BY <1>3 DEF Untouched
      <3> HIDE DEF mcu
      <3> QED  BY <1>0, <1>3a, <2>1, <3>1, ChromaAround
    <2>4. e \in Int /\ Near(1000 * N * s, e, 1250 * N + 1000 * (N - 1))  BY <2>3 DEF ChromaNear
    <2> HIDE DEF s, e, N
    <2>5. Magnitude(1000 * N * s - e) <= 1250 * N + 1000 * (N - 1)
      <3>0. s \in Int  BY <2>3 DEF Around
      <3>1. CASE N = 1  BY <2>3, <2>4, <3>0, <3>1 DEF Near, Magnitude
      <3>2. CASE N = 2  BY <2>3, <2>4, <3>0, <3>2 DEF Near, Magnitude
      <3>3. CASE N = 4  BY <2>3, <2>4, <3>0, <3>3 DEF Near, Magnitude
      <3>4. CASE N = 8  BY <2>3, <2>4, <3>0, <3>4 DEF Near, Magnitude
      <3> QED  BY <1>2, <3>1, <3>2, <3>3, <3>4
    <2> QED  BY <2>2, <2>5 DEF s, e
  <1> HIDE DEF N
  <1> QED  BY <1>4, <1>5

-----------------------------------------------------------------------------
(* The transform: 16 bits suffice. *)

\* A value of 16 bits is left as it is.
LEMMA Fits ==
  ASSUME NEW x \in Int, -32768 <= x, x <= 32767
  PROVE  wrap16(x) = x
  <1> DEFINE n == x + 32768
  <1>1. n \in Int /\ 0 <= n /\ n <= 65535  OBVIOUS
  <1> HIDE DEF n
  <1>2. n % 65536 = n  BY <1>1
  <1> QED  BY <1>2 DEF wrap16, n

\* Such a value is the same in a lane of 16 bits and in one of 32.
LEMMA Lane ==
  ASSUME NEW x \in Int, -32768 <= x, x <= 32767
  PROVE  LaneOf(16, x) = x /\ LaneOf(32, x) = x
  BY Fits DEF LaneOf

\* In a pass over values up to B no intermediate value leaves 16 bits, so that the two
\* widths agree; the results are no more than fifteen times as large.
LanesSuffice(B) ==
  \A x \in [1 .. 8 -> -B .. B] : \E y \in [1 .. 8 -> -(15 * B) .. 15 * B] :
    /\ Butterfly(16, x[1], x[2], x[3], x[4], x[5], x[6], x[7], x[8]) = <<y[1], y[2], y[3], y[4], y[5], y[6], y[7], y[8]>>
    /\ Butterfly(32, x[1], x[2], x[3], x[4], x[5], x[6], x[7], x[8]) = <<y[1], y[2], y[3], y[4], y[5], y[6], y[7], y[8]>>

\* A pass over values of up to 2000 stays in 16 bits.
LEMMA PassFits == \A B \in Int : 16 <= B /\ B <= 2000 => LanesSuffice(B)
  <1> TAKE B \in Int
  <1> HAVE 16 <= B /\ B <= 2000
  <1> SUFFICES ASSUME NEW x \in [1 .. 8 -> -B .. B]
               PROVE  \E y \in [1 .. 8 -> -(15 * B) .. 15 * B] :
                        /\ Butterfly(16, x[1], x[2], x[3], x[4], x[5], x[6], x[7], x[8]) = <<y[1], y[2], y[3], y[4], y[5], y[6], y[7], y[8]>>
                        /\ Butterfly(32, x[1], x[2], x[3], x[4], x[5], x[6], x[7], x[8]) = <<y[1], y[2], y[3], y[4], y[5], y[6], y[7], y[8]>>
    BY DEF LanesSuffice
  <1> DEFINE x0 == x[1]   x1 == x[2]   x2 == x[3]   x3 == x[4]   x4 == x[5]   x5 == x[6]   x6 == x[7]   x7 == x[8]
  <1>0. /\ x0 \in -B .. B /\ x1 \in -B .. B /\ x2 \in -B .. B /\ x3 \in -B .. B
        /\ x4 \in -B .. B /\ x5 \in -B .. B /\ x6 \in -B .. B /\ x7 \in -B .. B
    OBVIOUS
  <1> HIDE DEF x0, x1, x2, x3, x4, x5, x6, x7
  <1> DEFINE tmp0(w) == LaneOf(w, x0 + x7)   tmp7(w) == LaneOf(w, x0 - x7)
             tmp1(w) == LaneOf(w, x1 + x6)   tmp6(w) == LaneOf(w, x1 - x6)
             tmp2(w) == LaneOf(w, x2 + x5)   tmp5(w) == LaneOf(w, x2 - x5)
             tmp3(w) == LaneOf(w, x3 + x4)   tmp4(w) == LaneOf(w, x3 - x4)
             even10(w) == LaneOf(w, tmp0(w) + tmp3(w))   even13(w) == LaneOf(w, tmp0(w) - tmp3(w))
             even11(w) == LaneOf(w, tmp1(w) + tmp2(w))   even12(w) == LaneOf(w, tmp1(w) - tmp2(w))
             z1(w) == LaneOf(w, MulFixedPoint15(LaneOf(w, even12(w) + even13(w)), a2))
             tmp10(w) == LaneOf(w, tmp4(w) + tmp5(w))
             tmp11(w) == LaneOf(w, tmp5(w) + tmp6(w))
             tmp12(w) == LaneOf(w, tmp6(w) + tmp7(w))
             z5(w) == LaneOf(w, MulFixedPoint15(LaneOf(w, tmp10(w) - tmp12(w)), a0))
             z2(w) == LaneOf(w, MulFixedPoint15(tmp10(w), a1) + z5(w))
             z4(w) == LaneOf(w, MulFixedPoint15(tmp12(w), a3) + z5(w) + tmp12(w))
             z3(w) == LaneOf(w, MulFixedPoint15(tmp11(w), a2))
             z11(w) == LaneOf(w, tmp7(w) + z3(w))
             z13(w) == LaneOf(w, tmp7(w) - z3(w))
             y1(w) == wrap16(even10(w) + even11(w))
             y2(w) == wrap16(z11(w) + z4(w))
             y3(w) == wrap16(even13(w) + z1(w))
             y4(w) == wrap16(z13(w) - z2(w))
             y5(w) == wrap16(even10(w) - even11(w))
             y6(w) == wrap16(z13(w) + z2(w))
             y7(w) == wrap16(even13(w) - z1(w))
             y8(w) == wrap16(z11(w) - z4(w))
  <1>1. \A w \in {16, 32} : Butterfly(w, x0, x1, x2, x3, x4, x5, x6, x7) = <<y1(w), y2(w), y3(w), y4(w), y5(w), y6(w), y7(w), y8(w)>>
    BY DEF Butterfly
  \* One after the other the two widths agree, on a number as large as its operands make it.
  <1> DEFINE Same(v16, v32, N) == v16 = v32 /\ v32 \in -N .. N
  <1>2. Same(tmp0(16), tmp0(32), 2 * B)  BY <1>0, Lane
  <1>3. Same(tmp1(16), tmp1(32), 2 * B)  BY <1>0, Lane
  <1>4. Same(tmp2(16), tmp2(32), 2 * B)  BY <1>0, Lane
  <1>5. Same(tmp3(16), tmp3(32), 2 * B)  BY <1>0, Lane
  <1>6. Same(tmp4(16), tmp4(32), 2 * B)  BY <1>0, Lane
  <1>7. Same(tmp5(16), tmp5(32), 2 * B)  BY <1>0, Lane
  <1>8. Same(tmp6(16), tmp6(32), 2 * B)  BY <1>0, Lane
  <1>9. Same(tmp7(16), tmp7(32), 2 * B)  BY <1>0, Lane
  <1> HIDE DEF tmp0, tmp1, tmp2, tmp3, tmp4, tmp5, tmp6, tmp7
  <1>10. Same(even10(16), even10(32), 4 * B)  BY <1>2, <1>5, Lane
  <1>11. Same(even13(16), even13(32), 4 * B)  BY <1>2, <1>5, Lane
  <1>12. Same(even11(16), even11(32), 4 * B)  BY <1>3, <1>4, Lane
  <1>13. Same(even12(16), even12(32), 4 * B)  BY <1>3, <1>4, Lane
  <1>14. Same(tmp10(16), tmp10(32), 4 * B)  BY <1>6, <1>7, Lane
  <1>15. Same(tmp11(16), tmp11(32), 4 * B)  BY <1>7, <1>8, Lane
  <1>16. Same(tmp12(16), tmp12(32), 4 * B)  BY <1>8, <1>9, Lane
  <1> HIDE DEF even10, even11, even12, even13, tmp10, tmp11, tmp12
  <1>17. Same(z1(16), z1(32), 6 * B)
    <2>1. Same(LaneOf(16, even12(16) + even13(16)), LaneOf(32, even12(32) + even13(32)), 8 * B)  BY <1>11, <1>13, Lane
    <2> DEFINE v == LaneOf(32, even12(32) + even13(32))
    <2>2. LaneOf(16, even12(16) + even13(16)) = v /\ v \in -(8 * B) .. 8 * B  BY <2>1
    <2>3. z1(16) = LaneOf(16, MulFixedPoint15(v, a2)) /\ z1(32) = LaneOf(32, MulFixedPoint15(v, a2))  BY <2>2
    <2> HIDE DEF v, z1
    <2>4. MulFixedPoint15(v, a2) \in Int /\ 1000 * MulFixedPoint15(v, a2) \in -(708 * (8 * B) + 1000) .. 708 * (8 * B) + 1000
      BY <2>2 DEF MulFixedPoint15, a2
    <2>5. MulFixedPoint15(v, a2) \in -(6 * B) .. 6 * B  BY <2>4
    <2> QED  BY <2>3, <2>5, Lane
  <1>18. Same(z5(16), z5(32), 4 * B)
    <2>1. Same(LaneOf(16, tmp10(16) - tmp12(16)), LaneOf(32, tmp10(32) - tmp12(32)), 8 * B)  BY <1>14, <1>16, Lane
    <2> DEFINE v == LaneOf(32, tmp10(32) - tmp12(32))
    <2>2. LaneOf(16, tmp10(16) - tmp12(16)) = v /\ v \in -(8 * B) .. 8 * B  BY <2>1
    <2>3. z5(16) = LaneOf(16, MulFixedPoint15(v, a0)) /\ z5(32) = LaneOf(32, MulFixedPoint15(v, a0))  BY <2>2
    <2> HIDE DEF v, z5
    <2>4. MulFixedPoint15(v, a0) \in Int /\ 1000 * MulFixedPoint15(v, a0) \in -(383 * (8 * B) + 1000) .. 383 * (8 * B) + 1000
      BY <2>2 DEF MulFixedPoint15, a0
    <2>5. MulFixedPoint15(v, a0) \in -(4 * B) .. 4 * B  BY <2>4
    <2> QED  BY <2>3, <2>5, Lane
  <1>19. MulFixedPoint15(tmp10(32), a1) \in -(3 * B) .. 3 * B /\ MulFixedPoint15(tmp12(32), a3) \in -(2 * B) .. 2 * B
         /\ MulFixedPoint15(tmp11(32), a2) \in -(3 * B) .. 3 * B
    <2> DEFINE p == MulFixedPoint15(tmp10(32), a1)
               q == MulFixedPoint15(tmp12(32), a3)
               r == MulFixedPoint15(tmp11(32), a2)
    <2>1. p \in Int /\ 1000 * p \in -(542 * (4 * B) + 1000) .. 542 * (4 * B) + 1000  BY <1>14 DEF MulFixedPoint15, a1
    <2>2. q \in Int /\ 1000 * q \in -(307 * (4 * B) + 1000) .. 307 * (4 * B) + 1000  BY <1>16 DEF MulFixedPoint15, a3
    <2>3. r \in Int /\ 1000 * r \in -(708 * (4 * B) + 1000) .. 708 * (4 * B) + 1000  BY <1>15 DEF MulFixedPoint15, a2
    <2> HIDE DEF p, q, r
    <2>4. p \in -(3 * B) .. 3 * B /\ q \in -(2 * B) .. 2 * B /\ r \in -(3 * B) .. 3 * B  BY <2>1, <2>2, <2>3
    <2> QED  BY <2>4 DEF p, q, r
  <1> HIDE DEF z1, z5
  <1>20. Same(z2(16), z2(32), 7 * B)  BY <1>14, <1>18, <1>19, Lane
  <1>21. Same(z4(16), z4(32), 10 * B)  BY <1>16, <1>18, <1>19, Lane
  <1>22. Same(z3(16), z3(32), 3 * B)  BY <1>15, <1>19, Lane
  <1> HIDE DEF z2, z3, z4
  <1>23. Same(z11(16), z11(32), 5 * B)  BY <1>9, <1>22, Lane
  <1>24. Same(z13(16), z13(32), 5 * B)  BY <1>9, <1>22, Lane
  <1> HIDE DEF z11, z13
  \* The stores of 16 bits keep the results whole.
  <1>25. Same(y1(16), y1(32), 15 * B) /\ Same(y5(16), y5(32), 15 * B)  BY <1>10, <1>12, Fits
  <1>26. Same(y2(16), y2(32), 15 * B) /\ Same(y8(16), y8(32), 15 * B)  BY <1>21, <1>23, Fits
  <1>27. Same(y3(16), y3(32), 15 * B) /\ Same(y7(16), y7(32), 15 * B)  BY <1>11, <1>17, Fits
  <1>28. Same(y4(16), y4(32), 15 * B) /\ Same(y6(16), y6(32), 15 * B)  BY <1>20, <1>24, Fits
  <1> HIDE DEF y1, y2, y3, y4, y5, y6, y7, y8
  <1> DEFINE y == <<y1(32), y2(32), y3(32), y4(32), y5(32), y6(32), y7(32), y8(32)>>
  <1>29. y \in [1 .. 8 -> -(15 * B) .. 15 * B]  BY <1>25, <1>26, <1>27, <1>28
  <1>30. y = <<y[1], y[2], y[3], y[4], y[5], y[6], y[7], y[8]>>  OBVIOUS
  <1>31. \A w \in {16, 32} : Butterfly(w, x0, x1, x2, x3, x4, x5, x6, x7) = y
    BY <1>1, <1>25, <1>26, <1>27, <1>28
  <1> HIDE DEF y
  <1> QED  BY <1>29, <1>30, <1>31 DEF x0, x1, x2, x3, x4, x5, x6, x7

\* So the transform of samples is the same in lanes of 16 bits and in 32.
LEMMA TransformFits ==
  ASSUME NEW d, \A i \in 1 .. 64 : Around(d[i])
  PROVE  fdct(16, d) = fdct(32, d)
  <1> DEFINE N == 128
             M == 15 * N
  <1>n. N = 128  OBVIOUS
  <1>b. N \in Int /\ LanesSuffice(N) /\ M \in Int /\ LanesSuffice(M)  BY PassFits
  <1> HIDE DEF N
  <1>a. ASSUME NEW i \in 1 .. 64 PROVE d[i] \in -N .. N
    <2>1. d[i] \in Int /\ -N <= d[i] /\ d[i] <= N  BY <1>n DEF Around
    <2> QED  BY <1>b, <2>1
  <1> DEFINE row(w, y) == Butterfly(w, d[8*y+1], d[8*y+2], d[8*y+3], d[8*y+4], d[8*y+5], d[8*y+6], d[8*y+7], d[8*y+8])
             R(w) == <<row(w, 0), row(w, 1), row(w, 2), row(w, 3), row(w, 4), row(w, 5), row(w, 6), row(w, 7)>>
             col(w, S, x) == Butterfly(w, S[1][x], S[2][x], S[3][x], S[4][x], S[5][x], S[6][x], S[7][x], S[8][x])
  <1>1. \A w : Pass1(w, d) = R(w)  BY DEF Pass1
  <1>2. \A w, S : Pass2(w, S) = <<col(w, S, 1), col(w, S, 2), col(w, S, 3), col(w, S, 4), col(w, S, 5), col(w, S, 6), col(w, S, 7), col(w, S, 8)>>
    BY DEF Pass2
  <1>3. ASSUME NEW y \in 0 .. 7
        PROVE  row(16, y) = row(32, y) /\ \A x \in 1 .. 8 : row(32, y)[x] \in -M .. M
    <2>1. /\ d[8*y+1] \in -N .. N /\ d[8*y+2] \in -N .. N /\ d[8*y+3] \in -N .. N /\ d[8*y+4] \in -N .. N
          /\ d[8*y+5] \in -N .. N /\ d[8*y+6] \in -N .. N /\ d[8*y+7] \in -N .. N /\ d[8*y+8] \in -N .. N
      <3>1. \A x \in 1 .. 8 : 8*y+x \in 1 .. 64  OBVIOUS
      <3>2. \A x \in 1 .. 8 : d[8*y+x] \in -N .. N  BY <1>a, <3>1
      <3> QED  BY <3>2
    <2> DEFINE v == [i \in 1 .. 8 |-> d[8*y+i]]
    <2>2. /\ v \in [1 .. 8 -> -N .. N]
          /\ v[1] = d[8*y+1] /\ v[2] = d[8*y+2] /\ v[3] = d[8*y+3] /\ v[4] = d[8*y+4]
          /\ v[5] = d[8*y+5] /\ v[6] = d[8*y+6] /\ v[7] = d[8*y+7] /\ v[8] = d[8*y+8]
      BY <2>1
    <2> HIDE DEF v
    <2>3. PICK r \in [1 .. 8 -> -M .. M] :
            /\ row(16, y) = <<r[1], r[2], r[3], r[4], r[5], r[6], r[7], r[8]>>
            /\ row(32, y) = <<r[1], r[2], r[3], r[4], r[5], r[6], r[7], r[8]>>
      BY <1>b, <2>2 DEF LanesSuffice
    <2> HIDE DEF row
    <2>4. \A x \in 1 .. 8 : row(32, y)[x] = r[x]  BY <2>3
    <2>5. \A x \in 1 .. 8 : r[x] \in -M .. M  BY <2>3
    <2>6. \A x \in 1 .. 8 : row(32, y)[x] \in -M .. M  BY <2>4, <2>5
    <2> QED  BY <2>3, <2>6
  <1>4. R(16) = R(32)
    <2>1. /\ row(16, 0) = row(32, 0) /\ row(16, 1) = row(32, 1) /\ row(16, 2) = row(32, 2) /\ row(16, 3) = row(32, 3)
          /\ row(16, 4) = row(32, 4) /\ row(16, 5) = row(32, 5) /\ row(16, 6) = row(32, 6) /\ row(16, 7) = row(32, 7)
      <3> HIDE DEF row
      <3> QED  BY <1>3
    <2> HIDE DEF row
    <2> QED  BY <2>1
  <1> DEFINE S == R(32)
  <1>5. \A y, x \in 1 .. 8 : S[y][x] \in -M .. M
    <2>1. /\ S[1] = row(32, 0) /\ S[2] = row(32, 1) /\ S[3] = row(32, 2) /\ S[4] = row(32, 3)
          /\ S[5] = row(32, 4) /\ S[6] = row(32, 5) /\ S[7] = row(32, 6) /\ S[8] = row(32, 7)
      OBVIOUS
    <2>2. \A y \in 1 .. 8 : S[y] = row(32, y - 1) /\ y - 1 \in 0 .. 7
      <3> HIDE DEF S, row
      <3> QED  BY <2>1
    <2> HIDE DEF S, row
    <2>3. ASSUME NEW y \in 1 .. 8, NEW x \in 1 .. 8 PROVE S[y][x] \in -M .. M
      <3>1. row(32, y - 1)[x] \in -M .. M  BY <1>3, <2>2
      <3> QED  BY <2>2, <3>1
    <2> QED  BY <2>3
  <1> HIDE DEF S
  <1>6. \A x \in 1 .. 8 : col(16, S, x) = col(32, S, x)
    <2> TAKE x \in 1 .. 8
    <2> DEFINE v == [i \in 1 .. 8 |-> S[i][x]]
    <2>1. /\ v \in [1 .. 8 -> -M .. M]
          /\ v[1] = S[1][x] /\ v[2] = S[2][x] /\ v[3] = S[3][x] /\ v[4] = S[4][x]
          /\ v[5] = S[5][x] /\ v[6] = S[6][x] /\ v[7] = S[7][x] /\ v[8] = S[8][x]
      BY <1>5
    <2> HIDE DEF v
    <2> QED  BY <1>b, <2>1 DEF LanesSuffice
  <1>7. Pass2(16, S) = Pass2(32, S)  BY <1>2, <1>6
  <1> QED  BY <1>1, <1>4, <1>7 DEF fdct, S

\* The registers hold the columns.
LEMMA ColumnsLoaded ==
  ASSUME NEW d, NEW x \in 1 .. 8, NEW y \in 1 .. 8
  PROVE  LoadColumns(d)[x][y] = d[8 * (y-1) + x]
  <1> DEFINE loaded(from, n) == [i \in 1 .. 8 |-> d[from + 4 * (i-1) + n + 1]]
  <1>1. LoadColumns(d)[x] = IF x <= 4 THEN ConcatEven(loaded(32, x-1), loaded(0, x-1))
                                      ELSE ConcatOdd(loaded(32, x-5), loaded(0, x-5))
    BY DEF LoadColumns
  <1>2. \A f, n, i : i \in 1 .. 8 => loaded(f, n)[i] = d[f + 4 * (i-1) + n + 1]
    OBVIOUS
  <1> HIDE DEF loaded
  <1>3. \A h, l : /\ ConcatEven(h, l)[y] = IF y <= 4 THEN l[2*y - 1] ELSE h[2*y - 9]
                  /\ ConcatOdd(h, l)[y] = IF y <= 4 THEN l[2*y] ELSE h[2*y - 8]
    BY DEF ConcatEven, ConcatOdd
  <1>4. CASE x <= 4
    <2>1. LoadColumns(d)[x][y] = IF y <= 4 THEN loaded(0, x-1)[2*y - 1] ELSE loaded(32, x-1)[2*y - 9]
      BY <1>1, <1>3, <1>4
    <2>2. CASE y <= 4
      <3>1. loaded(0, x-1)[2*y - 1] = d[0 + 4 * (2*y - 1 - 1) + (x-1) + 1]  BY <1>2, <2>2
      <3>2. 0 + 4 * (2*y - 1 - 1) + (x-1) + 1 = 8 * (y-1) + x  OBVIOUS
      <3> QED  BY <2>1, <2>2, <3>1, <3>2
    <2>3. CASE y > 4
      <3>1. loaded(32, x-1)[2*y - 9] = d[32 + 4 * (2*y - 9 - 1) + (x-1) + 1]  BY <1>2, <2>3
      <3>2. 32 + 4 * (2*y - 9 - 1) + (x-1) + 1 = 8 * (y-1) + x  OBVIOUS
      <3> QED  BY <2>1, <2>3, <3>1, <3>2
    <2> QED  BY <2>2, <2>3
  <1>5. CASE x > 4
    <2>1. LoadColumns(d)[x][y] = IF y <= 4 THEN loaded(0, x-5)[2*y] ELSE loaded(32, x-5)[2*y - 8]
      BY <1>1, <1>3, <1>5
    <2>2. CASE y <= 4
      <3>1. loaded(0, x-5)[2*y] = d[0 + 4 * (2*y - 1) + (x-5) + 1]  BY <1>2, <2>2
      <3>2. 0 + 4 * (2*y - 1) + (x-5) + 1 = 8 * (y-1) + x  OBVIOUS
      <3> QED  BY <2>1, <2>2, <3>1, <3>2
    <2>3. CASE y > 4
      <3>1. loaded(32, x-5)[2*y - 8] = d[32 + 4 * (2*y - 8 - 1) + (x-5) + 1]  BY <1>2, <2>3
      <3>2. 32 + 4 * (2*y - 8 - 1) + (x-5) + 1 = 8 * (y-1) + x  OBVIOUS
      <3> QED  BY <2>1, <2>3, <3>1, <3>2
    <2> QED  BY <2>2, <2>3
  <1> QED  BY <1>4, <1>5

\* Two registers interleaved, half by half.
LEMMA Halves ==
  ASSUME NEW a, NEW b, NEW n \in 1 .. 4
  PROVE  /\ InterleaveLower(a, b)[2*n - 1] = a[n] /\ InterleaveLower(a, b)[2*n] = b[n]
         /\ InterleaveUpper(a, b)[2*n - 1] = a[n+4] /\ InterleaveUpper(a, b)[2*n] = b[n+4]
  <1>1. n \in {1, 2, 3, 4}  OBVIOUS
  <1>2. /\ (2*n - 1) % 2 = 1 /\ (2*n) % 2 # 1 /\ (2*n) \div 2 = n /\ (2*n - 1 + 1) \div 2 = n
        /\ (2*n - 1 + 9) \div 2 = n + 4 /\ (2*n + 8) \div 2 = n + 4 /\ 2*n \in 1 .. 8 /\ 2*n - 1 \in 1 .. 8
    BY <1>1
  <1>3. \A i \in 1 .. 8 :
          /\ InterleaveLower(a, b)[i] = IF i % 2 = 1 THEN a[(i+1) \div 2] ELSE b[i \div 2]
          /\ InterleaveUpper(a, b)[i] = IF i % 2 = 1 THEN a[(i+9) \div 2] ELSE b[(i+8) \div 2]
    BY DEF InterleaveLower, InterleaveUpper
  <1> QED  BY <1>2, <1>3

\* Four registers, interleaved.
LEMMA Interleaved ==
  ASSUME NEW a, NEW b, NEW c, NEW e, NEW n \in 1 .. 4
  PROVE  LET r == Interleave4(a, b, c, e)[n]
         IN /\ r[1] = a[2*n - 1] /\ r[2] = b[2*n - 1] /\ r[3] = c[2*n - 1] /\ r[4] = e[2*n - 1]
            /\ r[5] = a[2*n] /\ r[6] = b[2*n] /\ r[7] = c[2*n] /\ r[8] = e[2*n]
  <1> DEFINE q0 == InterleaveLower(a, c)
             q1 == InterleaveLower(b, e)
             q2 == InterleaveUpper(a, c)
             q3 == InterleaveUpper(b, e)
  <1>1. Interleave4(a, b, c, e) = <<InterleaveLower(q0, q1), InterleaveUpper(q0, q1),
                                    InterleaveLower(q2, q3), InterleaveUpper(q2, q3)>>
    BY DEF Interleave4
  <1>2. \A u, v : /\ InterleaveLower(u, v)[1] = u[1] /\ InterleaveLower(u, v)[2] = v[1]
                  /\ InterleaveLower(u, v)[3] = u[2] /\ InterleaveLower(u, v)[4] = v[2]
                  /\ InterleaveLower(u, v)[5] = u[3] /\ InterleaveLower(u, v)[6] = v[3]
                  /\ InterleaveLower(u, v)[7] = u[4] /\ InterleaveLower(u, v)[8] = v[4]
    <2> TAKE u, v
    <2>1. /\ InterleaveLower(u, v)[2*1 - 1] = u[1] /\ InterleaveLower(u, v)[2*1] = v[1]
          /\ InterleaveLower(u, v)[2*2 - 1] = u[2] /\ InterleaveLower(u, v)[2*2] = v[2]
          /\ InterleaveLower(u, v)[2*3 - 1] = u[3] /\ InterleaveLower(u, v)[2*3] = v[3]
          /\ InterleaveLower(u, v)[2*4 - 1] = u[4] /\ InterleaveLower(u, v)[2*4] = v[4]
      BY Halves
    <2> QED  BY <2>1
  <1>3. \A u, v : /\ InterleaveUpper(u, v)[1] = u[5] /\ InterleaveUpper(u, v)[2] = v[5]
                  /\ InterleaveUpper(u, v)[3] = u[6] /\ InterleaveUpper(u, v)[4] = v[6]
                  /\ InterleaveUpper(u, v)[5] = u[7] /\ InterleaveUpper(u, v)[6] = v[7]
                  /\ InterleaveUpper(u, v)[7] = u[8] /\ InterleaveUpper(u, v)[8] = v[8]
    <2> TAKE u, v
    <2>1. /\ InterleaveUpper(u, v)[2*1 - 1] = u[1+4] /\ InterleaveUpper(u, v)[2*1] = v[1+4]
          /\ InterleaveUpper(u, v)[2*2 - 1] = u[2+4] /\ InterleaveUpper(u, v)[2*2] = v[2+4]
          /\ InterleaveUpper(u, v)[2*3 - 1] = u[3+4] /\ InterleaveUpper(u, v)[2*3] = v[3+4]
          /\ InterleaveUpper(u, v)[2*4 - 1] = u[4+4] /\ InterleaveUpper(u, v)[2*4] = v[4+4]
      BY Halves
    <2> QED  BY <2>1
  <1> HIDE DEF q0, q1, q2, q3
  <1>4. CASE n = 1
    BY <1>1, <1>2, <1>4 DEF q0, q1
  <1>5. CASE n = 2
    BY <1>1, <1>2, <1>3, <1>5 DEF q0, q1
  <1>6. CASE n = 3
    BY <1>1, <1>2, <1>3, <1>6 DEF q2, q3
  <1>7. CASE n = 4
    BY <1>1, <1>3, <1>7 DEF q2, q3
  <1> QED  BY <1>4, <1>5, <1>6, <1>7

\* The interleaving and concatenating of registers transposes them.
LEMMA Transposed ==
  ASSUME NEW c, NEW x \in 1 .. 8, NEW y \in 1 .. 8
  PROVE  Transpose(c)[y][x] = c[x][y]
  <1> DEFINE lo == Interleave4(c[1], c[2], c[3], c[4])
             hi == Interleave4(c[5], c[6], c[7], c[8])
  <1>1. Transpose(c)[y] = IF y % 2 = 1 THEN ConcatLowerLower(hi[(y+1) \div 2], lo[(y+1) \div 2])
                                       ELSE ConcatUpperUpper(hi[y \div 2], lo[y \div 2])
    BY DEF Transpose
  <1>2. \A h, l : /\ ConcatLowerLower(h, l)[x] = IF x <= 4 THEN l[x] ELSE h[x - 4]
                  /\ ConcatUpperUpper(h, l)[x] = IF x <= 4 THEN l[x + 4] ELSE h[x]
    BY DEF ConcatLowerLower, ConcatUpperUpper
  <1>3. \A n \in 1 .. 4 :
          /\ lo[n][1] = c[1][2*n - 1] /\ lo[n][2] = c[2][2*n - 1] /\ lo[n][3] = c[3][2*n - 1] /\ lo[n][4] = c[4][2*n - 1]
          /\ lo[n][5] = c[1][2*n] /\ lo[n][6] = c[2][2*n] /\ lo[n][7] = c[3][2*n] /\ lo[n][8] = c[4][2*n]
          /\ hi[n][1] = c[5][2*n - 1] /\ hi[n][2] = c[6][2*n - 1] /\ hi[n][3] = c[7][2*n - 1] /\ hi[n][4] = c[8][2*n - 1]
          /\ hi[n][5] = c[5][2*n] /\ hi[n][6] = c[6][2*n] /\ hi[n][7] = c[7][2*n] /\ hi[n][8] = c[8][2*n]
    BY Interleaved
  <1> HIDE DEF lo, hi
  <1>4. x \in {1, 2, 3, 4, 5, 6, 7, 8}  OBVIOUS
  <1>5. \A n \in 1 .. 4 :
          /\ (IF x <= 4 THEN lo[n][x] ELSE hi[n][x - 4]) = c[x][2*n - 1]
          /\ (IF x <= 4 THEN lo[n][x + 4] ELSE hi[n][x]) = c[x][2*n]
    BY <1>3, <1>4
  <1>6. ASSUME NEW n \in 1 .. 4, y = 2*n - 1  PROVE Transpose(c)[y][x] = c[x][y]
    <2>1. y % 2 = 1 /\ (y+1) \div 2 = n  BY <1>6
    <2> QED  BY <1>1, <1>2, <1>5, <1>6, <2>1
  <1>7. ASSUME NEW n \in 1 .. 4, y = 2*n  PROVE Transpose(c)[y][x] = c[x][y]
    <2>1. y % 2 # 1 /\ y \div 2 = n  BY <1>7
    <2> QED  BY <1>1, <1>2, <1>5, <1>7, <2>1
  <1>8. \E n \in 1 .. 4 : y = 2*n - 1 \/ y = 2*n
    <2>1. \/ y = 2*1 - 1 \/ y = 2*1 \/ y = 2*2 - 1 \/ y = 2*2 \/ y = 2*3 - 1 \/ y = 2*3 \/ y = 2*4 - 1 \/ y = 2*4
      OBVIOUS
    <2>2. 1 \in 1 .. 4 /\ 2 \in 1 .. 4 /\ 3 \in 1 .. 4 /\ 4 \in 1 .. 4  OBVIOUS
    <2> QED  BY <2>1, <2>2, Zenon
  <1> QED  BY <1>6, <1>7, <1>8

\* So the vector code's first pass is the scalar one's, in lanes of 16 bits.
LEMMA VectorPass ==
  ASSUME NEW d, NEW x \in 1 .. 8, NEW y \in 1 .. 8
  PROVE  Pass1Vector(d)[y][x] = Pass1(16, d)[y][x]
  <1> DEFINE c == LoadColumns(d)
             made(n) == Butterfly(16, c[1][n], c[2][n], c[3][n], c[4][n], c[5][n], c[6][n], c[7][n], c[8][n])
             row(n) == Butterfly(16, d[8*n+1], d[8*n+2], d[8*n+3], d[8*n+4], d[8*n+5], d[8*n+6], d[8*n+7], d[8*n+8])
             lane == [n \in 1 .. 8 |-> made(n)]
             registers == [u \in 1 .. 8 |-> [v \in 1 .. 8 |-> lane[v][u]]]
  <1>1. made(y) = row(y - 1)
    <2>1. \A n \in 1 .. 8 : c[n][y] = d[8 * (y-1) + n]  BY ColumnsLoaded
    <2> HIDE DEF c
    <2>2. /\ c[1][y] = d[8*(y-1)+1] /\ c[2][y] = d[8*(y-1)+2] /\ c[3][y] = d[8*(y-1)+3] /\ c[4][y] = d[8*(y-1)+4]
          /\ c[5][y] = d[8*(y-1)+5] /\ c[6][y] = d[8*(y-1)+6] /\ c[7][y] = d[8*(y-1)+7] /\ c[8][y] = d[8*(y-1)+8]
      BY <2>1
    <2> QED  BY <2>2
  <1>2. Pass1Vector(d) = Transpose(registers)
    BY DEF Pass1Vector
  <1>3. Pass1(16, d) = <<row(0), row(1), row(2), row(3), row(4), row(5), row(6), row(7)>>
    BY DEF Pass1
  <1> HIDE DEF c, made, row
  <1>4. lane[y] = made(y)  OBVIOUS
  <1> HIDE DEF lane
  <1>5. registers[x][y] = lane[y][x]  OBVIOUS
  <1> HIDE DEF registers
  <1>6. Pass1Vector(d)[y][x] = row(y - 1)[x]  BY <1>1, <1>2, <1>4, <1>5, Transposed
  <1>7. y \in {1, 2, 3, 4, 5, 6, 7, 8}  OBVIOUS
  <1>8. Pass1(16, d)[y] = row(y - 1)  BY <1>3, <1>7
  <1> QED  BY <1>6, <1>8

\* And so is its transform.
LEMMA VectorTransform ==
  ASSUME NEW d
  PROVE  fdct_vector(d) = fdct(16, d)
  <1> DEFINE T == Pass1Vector(d)
             R == Pass1(16, d)
  <1>1. \A y, x \in 1 .. 8 : T[y][x] = R[y][x]  BY VectorPass
  <1> HIDE DEF T, R
  <1> DEFINE col(S, x) == Butterfly(16, S[1][x], S[2][x], S[3][x], S[4][x], S[5][x], S[6][x], S[7][x], S[8][x])
  <1>2. \A x \in 1 .. 8 : col(T, x) = col(R, x)  BY <1>1
  <1>3. \A S : Pass2(16, S) = <<col(S, 1), col(S, 2), col(S, 3), col(S, 4), col(S, 5), col(S, 6), col(S, 7), col(S, 8)>>
    BY DEF Pass2
  <1> HIDE DEF col
  <1>4. Pass2(16, T) = Pass2(16, R)  BY <1>2, <1>3
  <1> QED  BY <1>4 DEF fdct_vector, fdct, T, R

\* Nor do the two cores differ: they quantise alike.
LEMMA CoreAgrees ==
  ASSUME NEW d, NEW qtable, \A i \in 1 .. 64 : Around(d[i])
  PROVE  dct2_core_vector(d, qtable) = dct2_core_scalar(d, qtable)
  BY TransformFits, VectorTransform DEF dct2_core_vector, dct2_core_scalar

-----------------------------------------------------------------------------
(* The transform and the quantisation: types. *)

\* A value wrapped to 16 bits is one of 16 bits.
LEMMA Wraps ==
  ASSUME NEW x \in Int
  PROVE  wrap16(x) \in Int /\ wrap16(x) \in Word16
  <1> DEFINE m == (x + 32768) % 65536
  <1>1. m \in Int /\ 0 <= m /\ m <= 65535  OBVIOUS
  <1> HIDE DEF m
  <1>2. m - 32768 \in Int /\ -32768 <= m - 32768 /\ m - 32768 <= 32767  BY <1>1
  <1>3. m - 32768 \in Word16
    <2> DEFINE lo == -(2^15)
               hi == 2^15 - 1
    <2>1. lo \in Int /\ hi \in Int /\ m - 32768 \in Int /\ lo <= m - 32768 /\ m - 32768 <= hi  BY <1>2
    <2>2. Word16 = lo .. hi  BY Zenon DEF Word16
    <2> HIDE DEF lo, hi
    <2> QED  BY <2>1, <2>2
  <1> QED  BY <1>2, <1>3 DEF wrap16, m

\* Such a value is a number.
LEMMA WordsAreInts == \A x \in Word16 : x \in Int
  BY DEF Word16

\* A fixed-point product is a number.
LEMMA Products ==
  ASSUME NEW x \in Int, NEW y \in Int
  PROVE  MulFixedPoint15(x, y) \in Int
  <1> DEFINE p == x * y
  <1>1. p \in Int  OBVIOUS
  <1> HIDE DEF p
  <1>2. (p + 2^14) \div 2^15 \in Int  BY <1>1
  <1> QED  BY <1>2 DEF MulFixedPoint15, p

\* So is a lane.
LEMMA LanesAreInts ==
  ASSUME NEW w, NEW x \in Int
  PROVE  LaneOf(w, x) \in Int
  BY Wraps DEF LaneOf

\* Whatever goes into a pass, eight words of 16 bits come out.
LEMMA PassTyped ==
  ASSUME NEW w, NEW x \in [1 .. 8 -> Int]
  PROVE  \E y \in [1 .. 8 -> Word16] :
           Butterfly(w, x[1], x[2], x[3], x[4], x[5], x[6], x[7], x[8]) = <<y[1], y[2], y[3], y[4], y[5], y[6], y[7], y[8]>>
  <1> DEFINE x0 == x[1]   x1 == x[2]   x2 == x[3]   x3 == x[4]   x4 == x[5]   x5 == x[6]   x6 == x[7]   x7 == x[8]
  <1>0. /\ x0 \in Int /\ x1 \in Int /\ x2 \in Int /\ x3 \in Int
        /\ x4 \in Int /\ x5 \in Int /\ x6 \in Int /\ x7 \in Int
    OBVIOUS
  <1> HIDE DEF x0, x1, x2, x3, x4, x5, x6, x7
  <1> DEFINE tmp0 == LaneOf(w, x0 + x7)   tmp7 == LaneOf(w, x0 - x7)
             tmp1 == LaneOf(w, x1 + x6)   tmp6 == LaneOf(w, x1 - x6)
             tmp2 == LaneOf(w, x2 + x5)   tmp5 == LaneOf(w, x2 - x5)
             tmp3 == LaneOf(w, x3 + x4)   tmp4 == LaneOf(w, x3 - x4)
             even10 == LaneOf(w, tmp0 + tmp3)   even13 == LaneOf(w, tmp0 - tmp3)
             even11 == LaneOf(w, tmp1 + tmp2)   even12 == LaneOf(w, tmp1 - tmp2)
             z1 == LaneOf(w, MulFixedPoint15(LaneOf(w, even12 + even13), a2))
             tmp10 == LaneOf(w, tmp4 + tmp5)
             tmp11 == LaneOf(w, tmp5 + tmp6)
             tmp12 == LaneOf(w, tmp6 + tmp7)
             z5 == LaneOf(w, MulFixedPoint15(LaneOf(w, tmp10 - tmp12), a0))
             z2 == LaneOf(w, MulFixedPoint15(tmp10, a1) + z5)
             z4 == LaneOf(w, MulFixedPoint15(tmp12, a3) + z5 + tmp12)
             z3 == LaneOf(w, MulFixedPoint15(tmp11, a2))
             z11 == LaneOf(w, tmp7 + z3)
             z13 == LaneOf(w, tmp7 - z3)
             y == <<wrap16(even10 + even11), wrap16(z11 + z4), wrap16(even13 + z1), wrap16(z13 - z2),
                    wrap16(even10 - even11), wrap16(z13 + z2), wrap16(even13 - z1), wrap16(z11 - z4)>>
  <1>1. Butterfly(w, x0, x1, x2, x3, x4, x5, x6, x7) = y  BY DEF Butterfly
  <1>2. a0 \in Int /\ a1 \in Int /\ a2 \in Int /\ a3 \in Int  BY DEF a0, a1, a2, a3
  <1>3. /\ tmp0 \in Int /\ tmp1 \in Int /\ tmp2 \in Int /\ tmp3 \in Int
        /\ tmp4 \in Int /\ tmp5 \in Int /\ tmp6 \in Int /\ tmp7 \in Int
    BY <1>0, LanesAreInts
  <1> HIDE DEF tmp0, tmp1, tmp2, tmp3, tmp4, tmp5, tmp6, tmp7
  <1>4. /\ even10 \in Int /\ even11 \in Int /\ even12 \in Int /\ even13 \in Int
        /\ tmp10 \in Int /\ tmp11 \in Int /\ tmp12 \in Int
    BY <1>3, LanesAreInts
  <1> HIDE DEF even10, even11, even12, even13, tmp10, tmp11, tmp12
  <1>5. z1 \in Int
    <2>1. LaneOf(w, even12 + even13) \in Int  BY <1>4, LanesAreInts
    <2>2. MulFixedPoint15(LaneOf(w, even12 + even13), a2) \in Int  BY <1>2, <2>1, Products
    <2> QED  BY <2>2, LanesAreInts
  <1>6. z5 \in Int
    <2>1. LaneOf(w, tmp10 - tmp12) \in Int  BY <1>4, LanesAreInts
    <2>2. MulFixedPoint15(LaneOf(w, tmp10 - tmp12), a0) \in Int  BY <1>2, <2>1, Products
    <2> QED  BY <2>2, LanesAreInts
  <1>7. MulFixedPoint15(tmp10, a1) \in Int /\ MulFixedPoint15(tmp12, a3) \in Int /\ MulFixedPoint15(tmp11, a2) \in Int
    BY <1>2, <1>4, Products
  <1> HIDE DEF z1, z5
  <1>8. z2 \in Int /\ z4 \in Int /\ z3 \in Int  BY <1>4, <1>6, <1>7, LanesAreInts
  <1> HIDE DEF z2, z3, z4
  <1>9. z11 \in Int /\ z13 \in Int  BY <1>3, <1>8, LanesAreInts
  <1> HIDE DEF z11, z13
  <1>10. y \in [1 .. 8 -> Word16]
    <2>1. /\ even10 + even11 \in Int /\ z11 + z4 \in Int /\ even13 + z1 \in Int /\ z13 - z2 \in Int
          /\ even10 - even11 \in Int /\ z13 + z2 \in Int /\ even13 - z1 \in Int /\ z11 - z4 \in Int
      BY <1>4, <1>5, <1>8, <1>9
    <2> DEFINE y1 == wrap16(even10 + even11)   y2 == wrap16(z11 + z4)   y3 == wrap16(even13 + z1)   y4 == wrap16(z13 - z2)
               y5 == wrap16(even10 - even11)   y6 == wrap16(z13 + z2)   y7 == wrap16(even13 - z1)   y8 == wrap16(z11 - z4)
    <2>2. /\ y1 \in Word16 /\ y2 \in Word16 /\ y3 \in Word16 /\ y4 \in Word16
          /\ y5 \in Word16 /\ y6 \in Word16 /\ y7 \in Word16 /\ y8 \in Word16
      BY <2>1, Wraps
    <2>3. y = <<y1, y2, y3, y4, y5, y6, y7, y8>>  OBVIOUS
    <2> HIDE DEF y, y1, y2, y3, y4, y5, y6, y7, y8
    <2> QED  BY <2>2, <2>3
  <1>11. y = <<y[1], y[2], y[3], y[4], y[5], y[6], y[7], y[8]>>  OBVIOUS
  <1> HIDE DEF y
  <1> QED  BY <1>1, <1>10, <1>11 DEF x0, x1, x2, x3, x4, x5, x6, x7

\* So are the coefficients, whatever is transformed.
LEMMA TransformTyped ==
  ASSUME NEW w, NEW d, \A i \in 1 .. 64 : d[i] \in Int
  PROVE  \A x, y \in 1 .. 8 : fdct(w, d)[x][y] \in Int
  <1> DEFINE row(y) == Butterfly(w, d[8*y+1], d[8*y+2], d[8*y+3], d[8*y+4], d[8*y+5], d[8*y+6], d[8*y+7], d[8*y+8])
             R == <<row(0), row(1), row(2), row(3), row(4), row(5), row(6), row(7)>>
             col(x) == Butterfly(w, R[1][x], R[2][x], R[3][x], R[4][x], R[5][x], R[6][x], R[7][x], R[8][x])
             C == <<col(1), col(2), col(3), col(4), col(5), col(6), col(7), col(8)>>
  <1>1. fdct(w, d) = C  BY DEF fdct, Pass1, Pass2
  <1>2. ASSUME NEW y \in 0 .. 7, NEW x \in 1 .. 8 PROVE row(y)[x] \in Int
    <2> DEFINE v == [i \in 1 .. 8 |-> d[8*y+i]]
    <2>1. /\ v \in [1 .. 8 -> Int]
          /\ v[1] = d[8*y+1] /\ v[2] = d[8*y+2] /\ v[3] = d[8*y+3] /\ v[4] = d[8*y+4]
          /\ v[5] = d[8*y+5] /\ v[6] = d[8*y+6] /\ v[7] = d[8*y+7] /\ v[8] = d[8*y+8]
      <3>1. \A i \in 1 .. 8 : 8*y+i \in 1 .. 64  OBVIOUS
      <3> QED  BY <3>1
    <2> HIDE DEF v
    <2>2. PICK r \in [1 .. 8 -> Word16] : row(y) = <<r[1], r[2], r[3], r[4], r[5], r[6], r[7], r[8]>>
      BY <2>1, PassTyped
    <2> HIDE DEF row
    <2>3. row(y)[x] = r[x]  BY <2>2
    <2>4. r[x] \in Word16  OBVIOUS
    <2> QED  BY <2>3, <2>4, WordsAreInts
  <1>3. ASSUME NEW y \in 1 .. 8, NEW x \in 1 .. 8 PROVE R[y][x] \in Int
    <2>1. R[y] = row(y - 1) /\ y - 1 \in 0 .. 7
      <3> HIDE DEF row
      <3> QED  OBVIOUS
    <2> HIDE DEF R, row
    <2> QED  BY <1>2, <2>1
  <1> HIDE DEF R
  <1>4. ASSUME NEW x \in 1 .. 8, NEW y \in 1 .. 8 PROVE col(x)[y] \in Int
    <2> DEFINE v == [i \in 1 .. 8 |-> R[i][x]]
    <2>1. /\ v \in [1 .. 8 -> Int]
          /\ v[1] = R[1][x] /\ v[2] = R[2][x] /\ v[3] = R[3][x] /\ v[4] = R[4][x]
          /\ v[5] = R[5][x] /\ v[6] = R[6][x] /\ v[7] = R[7][x] /\ v[8] = R[8][x]
      BY <1>3
    <2> HIDE DEF v
    <2>2. PICK r \in [1 .. 8 -> Word16] : col(x) = <<r[1], r[2], r[3], r[4], r[5], r[6], r[7], r[8]>>
      BY <2>1, PassTyped
    <2> HIDE DEF col
    <2>3. col(x)[y] = r[y]  BY <2>2
    <2>4. r[y] \in Word16  OBVIOUS
    <2> QED  BY <2>3, <2>4, WordsAreInts
  <1>5. ASSUME NEW x \in 1 .. 8 PROVE C[x] = col(x)
    <2> HIDE DEF col
    <2> QED  OBVIOUS
  <1> HIDE DEF C, col
  <1> QED  BY <1>1, <1>4, <1>5

\* The steps are positive, and the reciprocals are numbers.
LEMMA TableTyped ==
  ASSUME NEW c \in {1, 2}, NEW QF \in 0 .. 100, NEW i \in 1 .. 64
  PROVE  stepsize(c, QF, i) \in Int /\ stepsize(c, QF, i) >= 1 /\ create_scaled_qtable(c, QF)[i] \in Int
  <1>1. qmatrix[c][i] \in Int  BY DEF qmatrix
  <1>2. qscale[i] \in Int  BY DEF qscale
  <1>3. \A x \in Int : Clamp(x) \in Int /\ Clamp(x) >= 1  BY DEF Clamp
  <1>4. \A x \in Int : \A y \in Int : y >= 1 => x \div y \in Int  OBVIOUS
  <1>5. stepsize(c, QF, i) \in Int /\ stepsize(c, QF, i) >= 1
    <2> DEFINE q == qmatrix[c][i]
    <2> HIDE DEF q
    <2>1. CASE QF = 0  BY <2>1 DEF stepsize
    <2>2. CASE QF \in 1 .. 49
      <3>1. q * 5000 + 50 * QF \in Int /\ 100 * QF \in Int /\ 100 * QF >= 1  BY <1>1, <2>2 DEF q
      <3>2. Clamp((q * 5000 + 50 * QF) \div (100 * QF)) \in Int /\ Clamp((q * 5000 + 50 * QF) \div (100 * QF)) >= 1
        BY <1>3, <1>4, <3>1
      <3>3. stepsize(c, QF, i) = Clamp((q * 5000 + 50 * QF) \div (100 * QF))
        BY <2>2 DEF stepsize, q
      <3> QED  BY <3>2, <3>3
    <2>3. CASE QF >= 50
      <3>1. q * (200 - 2 * QF) + 50 \in Int  BY <1>1, <2>3 DEF q
      <3>2. Clamp((q * (200 - 2 * QF) + 50) \div 100) \in Int /\ Clamp((q * (200 - 2 * QF) + 50) \div 100) >= 1
        BY <1>3, <1>4, <3>1
      <3>3. stepsize(c, QF, i) = Clamp((q * (200 - 2 * QF) + 50) \div 100)
        BY <2>3 DEF stepsize, q
      <3> QED  BY <3>2, <3>3
    <2> QED  BY <2>1, <2>2, <2>3
  <1> DEFINE denominator == stepsize(c, QF, i) * 2^15
  <1>6. denominator \in Int /\ denominator >= 1  BY <1>5
  <1>7. create_scaled_qtable(c, QF)[i] = wrap16((2 * qscale[i] + denominator \div 2) \div denominator)
    BY DEF create_scaled_qtable
  <1> HIDE DEF denominator
  <1>8. (2 * qscale[i] + denominator \div 2) \div denominator \in Int  BY <1>2, <1>4, <1>6
  <1> QED  BY <1>5, <1>7, <1>8, Wraps

\* Quantised coefficients are a block of 16-bit values.
LEMMA QuantiseTyped ==
  ASSUME NEW C, NEW qtable, \A x, y \in 1 .. 8 : C[x][y] \in Int, \A i \in 1 .. 64 : qtable[i] \in Int
  PROVE  Quantise(C, qtable) \in Block(Word16)
  <1>1. ASSUME NEW i \in 1 .. 64
        PROVE  wrap16(MulFixedPoint15(C[((i-1) % 8) + 1][((i-1) \div 8) + 1], qtable[i])) \in Word16
    <2>1. ((i-1) % 8) + 1 \in 1 .. 8 /\ ((i-1) \div 8) + 1 \in 1 .. 8  OBVIOUS
    <2> DEFINE e == C[((i-1) % 8) + 1][((i-1) \div 8) + 1]
    <2>2. e \in Int /\ qtable[i] \in Int  BY <2>1
    <2> HIDE DEF e
    <2>3. MulFixedPoint15(e, qtable[i]) \in Int  BY <2>2, Products
    <2> QED  BY <2>3, Wraps DEF e
  <1> QED  BY <1>1 DEF Quantise, Block

\* A block, transformed and quantised, is a block of 16-bit values.
LEMMA CoreTyped ==
  ASSUME NEW c, job.QF \in 0 .. 100, NEW d, \A i \in 1 .. 64 : d[i] \in Int
  PROVE  dct2_core(c, d) \in Block(Word16)
  <1> DEFINE t == IF c = 1 THEN 1 ELSE 2
             q == create_scaled_qtable(t, job.QF)
  <1>1. \A i \in 1 .. 64 : q[i] \in Int  BY TableTyped
  <1> HIDE DEF q
  <1>2. \A w : Quantise(fdct(w, d), q) \in Block(Word16)
    <2> TAKE w
    <2>1. \A x, y \in 1 .. 8 : fdct(w, d)[x][y] \in Int  BY TransformTyped
    <2> QED  BY <1>1, <2>1, QuantiseTyped
  <1>3. dct2_core(c, d) = IF Scalar THEN Quantise(fdct(32, d), q) ELSE Quantise(fdct(16, d), q)
    BY VectorTransform DEF dct2_core, q, dct2_core_scalar, dct2_core_vector
  <1> QED  BY <1>2, <1>3

-----------------------------------------------------------------------------
(* The invariant. *)

\* A strip of m MCUs: their blocks of luma, and one of each chroma, if there is any.
MCUsOf(s, m) == Len(s[1]) = LumaUnits * m /\ (nc = 3 => Len(s[2]) = m /\ Len(s[3]) = m)

\* The MCU to be coded is the one that k has come to, and a block being coded is one of
\* the strip's.
Underway(s) ==
  \E m \in Nat : \E j \in 0 .. m :
    MCUsOf(s, m) /\ k = LumaUnits * j /\ (pc \in {"block", "ac"} => j < m)

\* The blocks are those of the samples, which are the ones converted; before the first MCU
\* nothing has been done to them.
CodingShape ==
  /\ CodingTypeOK
  /\ job.at # "pixels" => pc # "pixels"
  /\ pc = "pixels" => k = 0 /\ unit = 1
  /\ pc # "pixels" => Underway(data)
  /\ \A c \in 1 .. 3 : Len(source[c]) = Len(data[c])
  /\ job.at # "block" => AroundZero(source)
  /\ job.at = "pixels" /\ pc # "pixels" => source = Converted
  /\ job.at = "pixels" /\ pc = "mcu" /\ k = 0 => data = source

\* The blocks of luma of an MCU, and its components.
LEMMA UnitsAre ==
  ASSUME job.ycc \in YCC
  PROVE  /\ LumaUnits \in {1, 2, 4, 8} /\ nc \in {1, 3}
         /\ nc = 3 => LumaUnits = mcu_skip /\ Units = LumaUnits + 2
         /\ nc = 1 => LumaUnits = 2 /\ Units = LumaUnits
  <1>1. mcu_skip \in {1, 2, 4, 8} /\ (nc = 1 => mcu_skip = 1) /\ nc \in {1, 3}
    <2>1. nc = 1 => job.ycc \in Grayscale  BY Factors
    <2>2. job.ycc \in Grayscale => mcu_skip = 1  BY Factors
    <2> QED  BY <2>1, <2>2, Factors
  <1> QED  BY <1>1 DEF LumaUnits, Units

\* The blocks of an MCU that is not past the last are blocks of the strip.
LEMMA UnitInStrip ==
  ASSUME job.ycc \in YCC, NEW s, NEW m \in Nat, NEW j \in 0 .. m, j < m, MCUsOf(s, m), k = LumaUnits * j,
         NEW u \in 1 .. Units
  PROVE  Comp(u) \in 1 .. 3 /\ Index(u) \in 1 .. Len(s[Comp(u)])
  <1> DEFINE U == LumaUnits
  <1>1. /\ U \in {1, 2, 4, 8} /\ nc \in {1, 3}
        /\ nc = 3 => U = mcu_skip /\ Units = U + 2
        /\ nc = 1 => U = 2 /\ Units = U
    BY UnitsAre
  <1>2. k = U * j /\ Len(s[1]) = U * m /\ (nc = 3 => Len(s[2]) = m /\ Len(s[3]) = m)  BY DEF MCUsOf
  <1>3. CASE u <= U
    <2>1. Comp(u) = 1 /\ Index(u) = k + u  BY <1>3 DEF Comp, Index
    <2> HIDE DEF U
    <2>2. k + u \in 1 .. U * m
      <3>1. CASE U = 1  BY <1>2, <1>3, <3>1
      <3>2. CASE U = 2  BY <1>2, <1>3, <3>2
      <3>3. CASE U = 4  BY <1>2, <1>3, <3>3
      <3>4. CASE U = 8  BY <1>2, <1>3, <3>4
      <3> QED  BY <1>1, <3>1, <3>2, <3>3, <3>4
    <2> QED  BY <1>2, <2>1, <2>2
  <1>4. CASE ~ u <= U
    <2>1. nc = 3 /\ U = mcu_skip /\ u \in {U + 1, U + 2}  BY <1>1, <1>4
    <2>2. Comp(u) = 1 + u - U /\ Index(u) = 1 + (k \div U)  BY <1>4, <2>1 DEF Comp, Index
    <2> HIDE DEF U
    <2>3. k \div U = j
      <3>1. CASE U = 1  BY <1>2, <3>1
      <3>2. CASE U = 2  BY <1>2, <3>2
      <3>3. CASE U = 4  BY <1>2, <3>3
      <3>4. CASE U = 8  BY <1>2, <3>4
      <3> QED  BY <1>1, <3>1, <3>2, <3>3, <3>4
    <2>4. Comp(u) \in {2, 3}  BY <1>1, <2>1, <2>2
    <2>5. Len(s[Comp(u)]) = m  BY <1>2, <2>1, <2>4
    <2> QED  BY <2>2, <2>3, <2>4, <2>5
  <1> QED  BY <1>3, <1>4

\* A job's format, quality, entry and target.
LEMMA JobIs ==
  ASSUME NEW j \in Jobs
  PROVE  j.ycc \in YCC /\ j.QF \in 0 .. 100 /\ j.at \in {"pixels", "mcu", "block"} /\ j.target \in Targets
  BY BlockCodingAssumption

\* Strips of the same lengths have the same MCUs.
LEMMA SameMCUs ==
  ASSUME NEW s, NEW t, \A c \in 1 .. 3 : Len(s[c]) = Len(t[c]), NEW m, MCUsOf(s, m)
  PROVE  MCUsOf(t, m)
  BY DEF MCUsOf

-----------------------------------------------------------------------------
(* What a step leaves alone. *)

\* The format and the build are the job's.
LEMMA SameFormat ==
  ASSUME job' = job
  PROVE  HorizontalFactor' = HorizontalFactor /\ VerticalFactor' = VerticalFactor /\ Scalar' = Scalar /\ nc' = nc
  BY DEF HorizontalFactor, VerticalFactor, Scalar, nc

\* So is how a pixel is converted.
LEMMA SameSamples ==
  ASSUME job' = job
  PROVE  \A p : rgb2ycbcr(p)' = rgb2ycbcr(p)
  BY SameFormat DEF rgb2ycbcr

\* A block of luma depends on the job and its pixels only.
LEMMA SameLuma ==
  ASSUME job' = job
  PROVE  \A mcu, h, v : LumaBlock(mcu, h, v)' = LumaBlock(mcu, h, v)
  BY SameFormat, SameSamples DEF LumaBlock, Pixel

\* The area of a chroma sample likewise.
LEMMA SameArea ==
  ASSUME job' = job
  PROVE  \A mcu, i : Area(mcu, i)' = Area(mcu, i)
  BY SameFormat DEF Area, Pixel

\* A block of chroma likewise.
LEMMA SameChroma ==
  ASSUME job' = job
  PROVE  \A mcu, c : ChromaBlock(mcu, c)' = ChromaBlock(mcu, c)
  <1> TAKE mcu, c
  <1> DEFINE sample(i) == LET area == Area(mcu, i) IN
               Mean(SumOver([n \in DOMAIN area |-> rgb2ycbcr(area[n])[c]]), HorizontalFactor * VerticalFactor)
  <1>1. ASSUME NEW i PROVE sample(i)' = sample(i)
    <2> DEFINE area == Area(mcu, i)
               values == [n \in DOMAIN area |-> rgb2ycbcr(area[n])[c]]
               sum == SumOver(values)
               size == HorizontalFactor * VerticalFactor
    <2>1. area' = area  BY SameArea
    <2>2. values' = values
      <3> HIDE DEF area
      <3> QED  BY SameSamples, <2>1
    <2>3. sum' = sum
      <3> HIDE DEF values
      <3> QED  BY <2>2
    <2>4. size' = size  BY SameFormat
    <2>5. sample(i) = Mean(sum, size)  OBVIOUS
    <2> HIDE DEF sum, size
    <2>6. Mean(sum, size)' = Mean(sum, size)  BY SameFormat, <2>3, <2>4 DEF Mean
    <2> QED  BY <2>6 DEF sum, size
  <1>2. ChromaBlock(mcu, c) = [i \in 1 .. 64 |-> sample(i)]  BY DEF ChromaBlock
  <1>3. ChromaBlock(mcu, c)' = [i \in 1 .. 64 |-> sample(i)']  BY DEF ChromaBlock
  <1> HIDE DEF sample
  <1> QED  BY <1>1, <1>2, <1>3

\* So a strip is converted alike for as long as the job is the same.
LEMMA SameConverted ==
  ASSUME job' = job
  PROVE  Converted' = Converted
  BY SameFormat, SameLuma, SameChroma DEF Converted

-----------------------------------------------------------------------------
(* The invariant holds to begin with. *)

\* The job says how many blocks there are.
LEMMA SameUnits ==
  ASSUME job' = job
  PROVE  mcu_skip' = mcu_skip /\ nc' = nc /\ LumaUnits' = LumaUnits /\ Units' = Units
  <1>1. mcu_skip' = mcu_skip  BY DEF mcu_skip
  <1>2. nc' = nc  BY SameFormat
  <1> QED  BY <1>1, <1>2 DEF LumaUnits, Units

\* A strip of the same lengths, and k and pc as before, or past the MCU.
LEMMA StaysUnderway ==
  ASSUME job' = job, NEW m \in Nat, NEW j \in 0 .. m, MCUsOf(data, m),
         \A c \in 1 .. 3 : Len(data'[c]) = Len(data[c]),
         k' = LumaUnits * j, pc' \in {"block", "ac"} => j < m
  PROVE  Underway(data)'
  <1>1. nc' = nc /\ LumaUnits' = LumaUnits  BY SameUnits
  <1>2. MCUsOf(data, m)'  BY <1>1 DEF MCUsOf
  <1> QED  BY <1>1, <1>2 DEF Underway

\* k has come no further than the strip.
LEMMA UnderwayBounds ==
  ASSUME job.ycc \in YCC, NEW m \in Nat, NEW j \in 0 .. m, MCUsOf(data, m)
  PROVE  LumaUnits * j \in 0 .. Len(data[1])
  <1> DEFINE U == LumaUnits
  <1>1. U \in {1, 2, 4, 8} /\ Len(data[1]) = U * m  BY UnitsAre DEF MCUsOf
  <1> HIDE DEF U
  <1>2. U * j \in 0 .. U * m
    <2>1. CASE U = 1  BY <2>1
    <2>2. CASE U = 2  BY <2>2
    <2>3. CASE U = 4  BY <2>3
    <2>4. CASE U = 8  BY <2>4
    <2> QED  BY <1>1, <2>1, <2>2, <2>3, <2>4
  <1> QED  BY <1>1, <1>2 DEF U

\* A sequence over a set is one over a wider set.
LEMMA WiderSeq ==
  ASSUME NEW S, NEW T, S \subseteq T, NEW s \in Seq(S)
  PROVE  s \in Seq(T)
  <1>1. Len(s) \in Nat /\ s \in [1 .. Len(s) -> S]  BY LenProperties
  <1>2. s \in [1 .. Len(s) -> T]  BY <1>1
  <1> QED  BY <1>1, <1>2, FunctionIsSeq

\* A job that does not start at its pixels has a strip to start with.
LEMMA StripOfJob ==
  ASSUME job \in Jobs, job.at # "pixels"
  PROVE  /\ job.in \in [1 .. 3 -> Seq(Block(Word16))]
         /\ job.at # "block" => AroundZero(job.in)
         /\ \E m \in Nat : MCUsOf(job.in, m) /\ (job.at = "block" => 0 < m)
  <1> DEFINE s == job.in
             Value == IF job.at = "mcu" THEN Sample ELSE Word16
  <1>0. job.ycc \in YCC /\ job.at \in {"mcu", "block"}  BY JobIs
  <1>1. /\ s \in [1 .. 3 -> Seq(Block(Value))]
        /\ job.ycc \in Grayscale => Len(s[1]) % 2 = 0
        /\ job.ycc \notin Grayscale => Len(s[2]) = Len(s[3]) /\ Len(s[1]) = H[job.ycc] * V[job.ycc] * Len(s[2])
        /\ job.at = "block" => IF job.ycc \in Grayscale THEN Len(s[1]) = 2 ELSE Len(s[2]) = 1
    BY BlockCodingAssumption
  <1>2. \A x \in Sample : Around(x)
    <2> DEFINE lo == -(2^7)
               hi == 2^7 - 1
    <2>1. Sample = lo .. hi /\ lo \in Int /\ hi \in Int /\ -128 <= lo /\ hi <= 128  BY DEF Sample
    <2> HIDE DEF lo, hi
    <2> QED  BY <2>1 DEF Around
  <1>3. Sample \subseteq Word16  BY <1>2, AroundFits
  <1>4. Value \subseteq Word16  BY <1>3
  <1>5. Block(Value) \subseteq Block(Word16)  BY <1>4 DEF Block
  <1> HIDE DEF s, Value
  <1>6. \A c \in 1 .. 3 : s[c] \in Seq(Block(Value)) /\ s[c] \in Seq(Block(Word16)) /\ Len(s[c]) \in Nat
    BY <1>1, <1>5, WiderSeq, LenProperties
  <1>7. s \in [1 .. 3 -> Seq(Block(Word16))]  BY <1>1, <1>6
  <1>8. ASSUME job.at # "block" PROVE AroundZero(s)
    <2>1. Value = Sample  BY <1>0, <1>8 DEF Value
    <2>2. ASSUME NEW c \in 1 .. 3, NEW n \in 1 .. Len(s[c]), NEW i \in 1 .. 64 PROVE Around(s[c][n][i])
      <3>1. s[c][n] \in Block(Sample)  BY <1>6, <2>1, ElementOfSeq
      <3>2. s[c][n][i] \in Sample  BY <3>1 DEF Block
      <3> QED  BY <1>2, <3>2
    <2> QED  BY <2>2 DEF AroundZero
  <1>9. \E m \in Nat : MCUsOf(s, m) /\ (job.at = "block" => 0 < m)
    <2>1. CASE job.ycc \in Grayscale
      <3>1. nc = 1 /\ LumaUnits = 2  BY <1>0, <2>1, UnitsAre DEF nc
      <3> DEFINE m == Len(s[1]) \div 2
      <3>2. m \in Nat /\ Len(s[1]) = 2 * m /\ (job.at = "block" => 0 < m)
        <4> DEFINE l == Len(s[1])
        <4>1. l \in Nat /\ l % 2 = 0 /\ (job.at = "block" => l = 2)  BY <1>1, <1>6, <2>1
        <4> HIDE DEF l
        <4>2. l \div 2 \in Nat /\ l = 2 * (l \div 2) /\ (job.at = "block" => 0 < l \div 2)  BY <4>1
        <4> QED  BY <4>2 DEF l
      <3> HIDE DEF m
      <3>4. MCUsOf(s, m)  BY <3>1, <3>2 DEF MCUsOf
      <3> QED  BY <3>2, <3>4
    <2>2. CASE job.ycc \notin Grayscale
      <3> DEFINE m == Len(s[2])
      <3>1. nc = 3  BY <2>2 DEF nc
      <3>2. LumaUnits = mcu_skip /\ mcu_skip = H[job.ycc] * V[job.ycc]
        BY <1>0, <3>1, UnitsAre, Factors DEF HorizontalFactor, VerticalFactor
      <3>3. m \in Nat  BY <1>6
      <3>4. Len(s[1]) = LumaUnits * m /\ Len(s[3]) = m /\ (job.at = "block" => m = 1)
        BY <1>1, <2>2, <3>2
      <3>5. MCUsOf(s, m)  BY <3>1, <3>4 DEF MCUsOf
      <3> HIDE DEF m
      <3> QED  BY <3>3, <3>4, <3>5
    <2> QED  BY <2>1, <2>2
  <1> QED  BY <1>7, <1>8, <1>9 DEF s

\* A strip of no blocks is a strip.
LEMMA NoBlocks ==
  LET s == <<<<>>, <<>>, <<>>>>
  IN s \in [1 .. 3 -> Seq(Block(Word16))] /\ s \in [1 .. 3 -> Seq(Word16)] /\ AroundZero(s)
  <1> DEFINE e == <<>>
             s == <<e, e, e>>
  <1>1. e \in Seq(Block(Word16)) /\ e \in Seq(Word16) /\ Len(e) = 0  BY EmptySeq
  <1> HIDE DEF e
  <1>2. s \in [1 .. 3 -> Seq(Block(Word16))] /\ s \in [1 .. 3 -> Seq(Word16)] /\ \A c \in 1 .. 3 : s[c] = e
    <2>1. \A c \in 1 .. 3 : s[c] = e  OBVIOUS
    <2>2. s = [c \in 1 .. 3 |-> s[c]]  OBVIOUS
    <2> HIDE DEF s
    <2>3. s \in [1 .. 3 -> Seq(Block(Word16))]  BY <1>1, <2>1, <2>2
    <2>4. s \in [1 .. 3 -> Seq(Word16)]  BY <1>1, <2>1, <2>2
    <2> QED  BY <2>1, <2>3, <2>4
  <1> HIDE DEF s
  <1>3. AroundZero(s)  BY <1>1, <1>2 DEF AroundZero
  <1> QED  BY <1>2, <1>3 DEF s, e

\* The invariant holds of each job's first state.
LEMMA CodingStarts ==
  ASSUME CodingInit
  PROVE  CodingShape
  <1>1. job \in Jobs /\ pc = job.at /\ k = 0 /\ unit = 1 /\ count = 0 /\ source = data  BY DEF CodingInit
  <1>2. job.ycc \in YCC /\ job.at \in {"pixels", "mcu", "block"}  BY <1>1, JobIs
  <1>3. 0 \in Word16
    <2>1. Around(0)  BY DEF Around
    <2> QED  BY <2>1, AroundFits
  <1>4. prev_dc \in [1 .. 3 -> Word16]
    <2>1. prev_dc = <<0, 0, 0>>  BY DEF CodingInit
    <2> QED  BY <1>3, <2>1
  <1>5. dcs \in [1 .. 3 -> Seq(Word16)]  BY NoBlocks DEF CodingInit
  <1>6. 1 \in 1 .. Units  BY <1>2, UnitsAre
  <1>7. data \in [1 .. 3 -> Seq(Block(Word16))] /\ (job.at # "block" => AroundZero(data))
    <2>1. CASE job.at = "pixels"  BY <2>1, NoBlocks DEF CodingInit
    <2>2. CASE job.at # "pixels"
      <3>1. data = job.in  BY <2>2 DEF CodingInit
      <3> QED  BY <1>1, <2>2, <3>1, StripOfJob
    <2> QED  BY <2>1, <2>2
  <1>8. Len(data[1]) \in Nat
    <2>1. data[1] \in Seq(Block(Word16))  BY <1>7
    <2> QED  BY <2>1, LenProperties
  <1>9. CodingTypeOK
    <2>1. k \in 0 .. num_mcus  BY <1>1, <1>8 DEF num_mcus
    <2>2. count \in 0 .. 64 /\ pc \in {"pixels", "mcu", "block", "ac", "done"}  BY <1>1, <1>2
    <2> QED  BY <1>1, <1>4, <1>5, <1>6, <1>7, <2>1, <2>2 DEF CodingTypeOK
  <1>10. ASSUME pc # "pixels" PROVE Underway(data)
    <2>1. job.at # "pixels" /\ data = job.in  BY <1>1, <1>10 DEF CodingInit
    <2>2. PICK m \in Nat : MCUsOf(job.in, m) /\ (job.at = "block" => 0 < m)  BY <1>1, <2>1, StripOfJob
    <2>3. LumaUnits \in Int  BY <1>2, UnitsAre
    <2>4. 0 \in 0 .. m /\ k = LumaUnits * 0  BY <1>1, <2>3
    <2>5. pc \in {"block", "ac"} => 0 < m  BY <1>1, <1>2, <2>2
    <2>6. MCUsOf(data, m)  BY <2>1, <2>2
    <2> QED  BY <2>4, <2>5, <2>6 DEF Underway
  <1> QED  BY <1>1, <1>7, <1>9, <1>10 DEF CodingShape

-----------------------------------------------------------------------------
(* Every action keeps the invariant. *)

\* A block of a strip, and its values.
LEMMA BlockIsInts ==
  ASSUME NEW s \in Seq(Block(Word16)), NEW n \in 1 .. Len(s)
  PROVE  s[n] \in Block(Word16) /\ \A i \in 1 .. 64 : s[n][i] \in Word16 /\ s[n][i] \in Int
  <1>1. s[n] \in Block(Word16)  BY ElementOfSeq
  <1>2. \A i \in 1 .. 64 : s[n][i] \in Word16  BY <1>1 DEF Block
  <1> QED  BY <1>1, <1>2, WordsAreInts

\* A value put into a block of a strip.
WithDC(d, c, n, x) == [d EXCEPT ![c][n][1] = x]

\* A strip with another DC value in it is a strip of the same lengths.
LEMMA ReplacedInStrip ==
  ASSUME NEW d \in [1 .. 3 -> Seq(Block(Word16))], NEW c \in 1 .. 3, NEW n \in 1 .. Len(d[c]), NEW x \in Word16
  PROVE  /\ WithDC(d, c, n, x) \in [1 .. 3 -> Seq(Block(Word16))]
         /\ \A q \in 1 .. 3 : Len(WithDC(d, c, n, x)[q]) = Len(d[q])
  <1> DEFINE s == d[c]
             b == [s[n] EXCEPT ![1] = x]
             t == [s EXCEPT ![n] = b]
             e == [d EXCEPT ![c] = t]
  <1>1. s \in Seq(Block(Word16)) /\ n \in 1 .. Len(s)  OBVIOUS
  <1>2. WithDC(d, c, n, x) = e  BY DEF WithDC
  <1> HIDE DEF s
  <1>3. s[n] \in Block(Word16)  BY <1>1, ElementOfSeq
  <1>4. b \in Block(Word16)
    <2> DEFINE o == s[n]
    <2>1. o \in [1 .. 64 -> Word16]  BY <1>3 DEF Block
    <2> HIDE DEF o
    <2>2. [o EXCEPT ![1] = x] \in [1 .. 64 -> Word16]
      <3> HIDE DEF b, t, e
      <3> QED  BY <2>1
    <2> QED  BY <2>2 DEF o, Block
  <1> HIDE DEF b
  <1>5. t \in Seq(Block(Word16)) /\ Len(t) = Len(s)
    <2>1. Len(s) \in Nat /\ s \in [1 .. Len(s) -> Block(Word16)]  BY <1>1, LenProperties
    <2>2. t \in [1 .. Len(s) -> Block(Word16)]  BY <1>4, <2>1
    <2> QED  BY <2>1, <2>2, FunctionIsSeq
  <1> HIDE DEF t
  <1>6. e \in [1 .. 3 -> Seq(Block(Word16))]  BY <1>5
  <1>7. \A q \in 1 .. 3 : Len(e[q]) = Len(d[q])  BY <1>5 DEF s
  <1> HIDE DEF e
  <1> QED  BY <1>2, <1>6, <1>7

\* What the shape says of a state behind the pixels.
LEMMA ShapeBehind ==
  ASSUME CodingShape
  PROVE  /\ job \in Jobs /\ job.ycc \in YCC /\ job.QF \in 0 .. 100
         /\ data \in [1 .. 3 -> Seq(Block(Word16))]
         /\ LumaUnits \in {1, 2, 4, 8} /\ Units \in Nat /\ Units >= 1
  <1>1. job \in Jobs /\ data \in [1 .. 3 -> Seq(Block(Word16))]  BY DEF CodingShape, CodingTypeOK
  <1>2. job.ycc \in YCC /\ job.QF \in 0 .. 100  BY <1>1, JobIs
  <1> QED  BY <1>1, <1>2, UnitsAre

\* An action that leaves job, source and the number of blocks alone.
LEMMA ShapeKept ==
  ASSUME CodingShape, pc # "pixels", pc' \in {"mcu", "block", "ac", "done"},
         job' = job, source' = source,
         data' \in [1 .. 3 -> Seq(Block(Word16))], \A c \in 1 .. 3 : Len(data'[c]) = Len(data[c]),
         prev_dc' \in [1 .. 3 -> Word16], dcs' \in [1 .. 3 -> Seq(Word16)],
         unit' \in 1 .. Units, count' \in 0 .. 64,
         NEW m \in Nat, NEW j \in 0 .. m, MCUsOf(data, m), k' = LumaUnits * j, pc' \in {"block", "ac"} => j < m,
         ~(pc' = "mcu" /\ k' = 0)
  PROVE  CodingShape'
  <1>1. Units' = Units  BY SameUnits
  <1>2. k' \in 0 .. Len(data'[1])
    <2>1. job.ycc \in YCC  BY ShapeBehind
    <2>2. k' \in 0 .. Len(data[1])  BY <2>1, UnderwayBounds
    <2>3. Len(data'[1]) = Len(data[1])  OBVIOUS
    <2> QED  BY <2>2, <2>3
  <1>3. CodingTypeOK'  BY <1>1, <1>2 DEF CodingShape, CodingTypeOK, num_mcus
  <1>4. Underway(data)'  BY StaysUnderway
  <1>5. AroundZero(source)' <=> AroundZero(source)  BY DEF AroundZero
  <1>6. Converted' = Converted  BY SameConverted
  <1> QED  BY <1>3, <1>4, <1>5, <1>6 DEF CodingShape

\* rgb2ycbcr and the subsampling leave a strip of whole MCUs (color.cpp:690-1436).
LEMMA ConvertKeeps ==
  ASSUME CodingShape, Convert
  PROVE  CodingShape'
  <1>1. /\ pc = "pixels" /\ data' = Converted /\ source' = Converted /\ pc' = "mcu" /\ job' = job
        /\ k' = k /\ unit' = unit /\ count' = count /\ prev_dc' = prev_dc /\ dcs' = dcs
    BY DEF Convert
  <1>2. job \in Jobs /\ job.at = "pixels" /\ k = 0 /\ unit = 1  BY <1>1 DEF CodingShape, CodingTypeOK
  <1>3. job.ycc \in YCC  BY <1>2, JobIs
  <1>4. /\ Converted \in [1 .. 3 -> Seq(Block(Word16))]
        /\ Len(Converted[1]) = mcu_skip * Len(job.in)
        /\ nc = 3 => Len(Converted[2]) = Len(job.in) /\ Len(Converted[3]) = Len(job.in)
        /\ AroundZero(Converted)
    BY <1>2, ConvertedTyped
  <1>5. Len(job.in) \in Nat /\ (job.ycc \in Grayscale => Len(job.in) % 2 = 0)  BY <1>2, JobOfPixels
  <1>6. PICK m \in Nat : MCUsOf(Converted, m)
    <2> DEFINE L == Len(job.in)
    <2>0. L \in Nat /\ Len(Converted[1]) = mcu_skip * L  BY <1>4, <1>5
    <2>1. CASE nc = 1
      <3>1. job.ycc \in Grayscale /\ LumaUnits = 2 /\ mcu_skip = 1  BY <1>3, <2>1, UnitsAre, Factors
      <3>2. L % 2 = 0  BY <1>5, <3>1
      <3> HIDE DEF L
      <3>3. L \div 2 \in Nat /\ mcu_skip * L = 2 * (L \div 2)  BY <2>0, <3>1, <3>2
      <3>4. MCUsOf(Converted, L \div 2)  BY <2>0, <2>1, <3>1, <3>3 DEF MCUsOf
      <3> QED  BY <3>3, <3>4
    <2>2. CASE nc = 3
      <3>1. LumaUnits = mcu_skip  BY <1>3, <2>2, UnitsAre
      <3>2. MCUsOf(Converted, L)  BY <1>4, <2>0, <3>1 DEF MCUsOf
      <3> HIDE DEF L
      <3> QED  BY <2>0, <3>2
    <2> QED  BY <1>3, <2>1, <2>2, UnitsAre
  <1>7. Underway(data)'
    <2>1. nc' = nc /\ LumaUnits' = LumaUnits  BY <1>1, SameUnits
    <2>2. MCUsOf(data, m)'  BY <1>1, <1>6, <2>1 DEF MCUsOf
    <2>3. LumaUnits \in Int  BY <1>3, UnitsAre
    <2>4. 0 \in 0 .. m /\ k' = LumaUnits' * 0 /\ (pc' \in {"block", "ac"} => 0 < m)  BY <1>1, <1>2, <2>1, <2>3
    <2> QED  BY <2>2, <2>4 DEF Underway
  <1>8. CodingTypeOK'
    <2>1. Units' = Units  BY <1>1, SameUnits
    <2>2. Len(Converted[1]) \in Nat
      <3>1. Converted[1] \in Seq(Block(Word16))  BY <1>4
      <3> QED  BY <3>1, LenProperties
    <2>3. num_mcus' = Len(Converted[1])  BY <1>1 DEF num_mcus
    <2>4. k' \in 0 .. num_mcus'  BY <1>1, <1>2, <2>2, <2>3
    <2> QED  BY <1>1, <1>4, <2>1, <2>4 DEF CodingShape, CodingTypeOK
  <1>9. AroundZero(source)'  BY <1>1, <1>4 DEF AroundZero
  <1>10. Converted' = Converted  BY <1>1, SameConverted
  <1> QED  BY <1>1, <1>2, <1>7, <1>8, <1>9, <1>10 DEF CodingShape

\* The transform replaces the MCU's blocks by as many of 16-bit values.
LEMMA TransformMCUKeeps ==
  ASSUME CodingShape, TransformMCU
  PROVE  CodingShape'
  <1> DEFINE touched(c, n) == \E u \in 1 .. Units : Comp(u) = c /\ Index(u) = n
             strip(c) == [n \in 1 .. Len(data[c]) |-> IF touched(c, n) THEN dct2_core(c, data[c][n]) ELSE data[c][n]]
  <1>1. /\ pc = "mcu" /\ k < num_mcus /\ data' = [c \in 1 .. 3 |-> strip(c)] /\ pc' = "block" /\ unit' = 1
        /\ job' = job /\ k' = k /\ prev_dc' = prev_dc /\ count' = count /\ source' = source /\ dcs' = dcs
    BY DEF TransformMCU
  <1>2. /\ job.ycc \in YCC /\ job.QF \in 0 .. 100
        /\ data \in [1 .. 3 -> Seq(Block(Word16))]
        /\ LumaUnits \in {1, 2, 4, 8} /\ Units \in Nat /\ Units >= 1
    BY ShapeBehind
  <1> HIDE DEF touched
  <1>3. ASSUME NEW c \in 1 .. 3 PROVE strip(c) \in Seq(Block(Word16)) /\ Len(strip(c)) = Len(data[c])
    <2> DEFINE s == data[c]
    <2>1. s \in Seq(Block(Word16))  BY <1>2
    <2>2. Len(s) \in Nat  BY <2>1, LenProperties
    <2>3. ASSUME NEW n \in 1 .. Len(s)
          PROVE  (IF touched(c, n) THEN dct2_core(c, s[n]) ELSE s[n]) \in Block(Word16)
      <3> HIDE DEF s
      <3>1. s[n] \in Block(Word16) /\ \A i \in 1 .. 64 : s[n][i] \in Int  BY <2>1, BlockIsInts
      <3>2. dct2_core(c, s[n]) \in Block(Word16)  BY <1>2, <3>1, CoreTyped
      <3> QED  BY <3>1, <3>2
    <2>4. strip(c) \in [1 .. Len(s) -> Block(Word16)]  BY <2>3
    <2> HIDE DEF s, strip
    <2>5. strip(c) \in Seq(Block(Word16)) /\ Len(strip(c)) = Len(s)  BY <2>2, <2>4, FunctionIsSeq
    <2> QED  BY <2>5 DEF s
  <1> HIDE DEF strip
  <1>4. data' \in [1 .. 3 -> Seq(Block(Word16))] /\ \A c \in 1 .. 3 : Len(data'[c]) = Len(data[c])  BY <1>1, <1>3
  <1>5. PICK m \in Nat : \E j \in 0 .. m : MCUsOf(data, m) /\ k = LumaUnits * j  BY <1>1 DEF CodingShape, Underway
  <1>6. PICK j \in 0 .. m : MCUsOf(data, m) /\ k = LumaUnits * j  BY <1>5
  <1>7. j < m
    <2> DEFINE U == LumaUnits
    <2>1. U * j < U * m /\ U \in {1, 2, 4, 8}  BY <1>1, <1>2, <1>6 DEF MCUsOf, num_mcus
    <2> HIDE DEF U
    <2>2. CASE U = 1  BY <2>1, <2>2
    <2>3. CASE U = 2  BY <2>1, <2>3
    <2>4. CASE U = 4  BY <2>1, <2>4
    <2>5. CASE U = 8  BY <2>1, <2>5
    <2> QED  BY <2>1, <2>2, <2>3, <2>4, <2>5
  <1>8. unit' \in 1 .. Units  BY <1>1, <1>2
  <1>9. prev_dc' \in [1 .. 3 -> Word16] /\ dcs' \in [1 .. 3 -> Seq(Word16)] /\ count' \in 0 .. 64
    BY <1>1 DEF CodingShape, CodingTypeOK
  <1> QED  BY <1>1, <1>4, <1>6, <1>7, <1>8, <1>9, ShapeKept

\* What the strips, the sizes and the difference come to when a block is begun.
LEMMA EncodeDCKeeps ==
  ASSUME CodingShape, EncodeDC
  PROVE  CodingShape'
  <1> DEFINE c == Comp(unit)
             n == Index(unit)
             sp == data[c][n]
             diff == wrap16(sp[1] - prev_dc[c])
  <1>1. /\ pc = "block" /\ pc' = "ac" /\ count' = 1
        /\ job' = job /\ k' = k /\ unit' = unit /\ source' = source
        /\ prev_dc' = [prev_dc EXCEPT ![c] = sp[1]]
        /\ dcs' = [dcs EXCEPT ![c] = Append(@, sp[1])]
        /\ data' = IF Scalar THEN [data EXCEPT ![c][n][1] = diff] ELSE data
    BY DEF EncodeDC
  <1>2. /\ job.ycc \in YCC
        /\ data \in [1 .. 3 -> Seq(Block(Word16))]
    BY ShapeBehind
  <1>3. unit \in 1 .. Units /\ prev_dc \in [1 .. 3 -> Word16] /\ dcs \in [1 .. 3 -> Seq(Word16)]
    BY DEF CodingShape, CodingTypeOK
  <1>4. PICK m \in Nat : \E j \in 0 .. m : MCUsOf(data, m) /\ k = LumaUnits * j /\ j < m  BY <1>1 DEF CodingShape, Underway
  <1>5. PICK j \in 0 .. m : MCUsOf(data, m) /\ k = LumaUnits * j /\ j < m  BY <1>4
  <1>6. c \in 1 .. 3 /\ n \in 1 .. Len(data[c])  BY <1>2, <1>3, <1>5, UnitInStrip
  <1> HIDE DEF c, n
  <1>7. data[c] \in Seq(Block(Word16))  BY <1>2, <1>6
  <1>8. sp[1] \in Word16 /\ sp[1] \in Int
    <2> DEFINE s == data[c]
    <2>1. s \in Seq(Block(Word16)) /\ n \in 1 .. Len(s) /\ 1 \in 1 .. 64  BY <1>6, <1>7
    <2> HIDE DEF s
    <2>2. s[n][1] \in Word16 /\ s[n][1] \in Int  BY <2>1, BlockIsInts
    <2> QED  BY <2>2 DEF s
  <1> HIDE DEF sp
  <1>9. prev_dc[c] \in Int  BY <1>3, <1>6, WordsAreInts
  <1>10. diff \in Word16
    <2>1. sp[1] - prev_dc[c] \in Int  BY <1>8, <1>9
    <2> QED  BY <2>1, Wraps
  <1> HIDE DEF diff
  <1>11. data' \in [1 .. 3 -> Seq(Block(Word16))] /\ \A q \in 1 .. 3 : Len(data'[q]) = Len(data[q])
    <2>1. CASE Scalar
      <3>1. data' = WithDC(data, c, n, diff)  BY <1>1, <2>1 DEF WithDC
      <3> QED  BY <1>2, <1>6, <1>10, <3>1, ReplacedInStrip
    <2>2. CASE ~ Scalar  BY <1>1, <1>2, <2>2
    <2> QED  BY <2>1, <2>2
  <1>12. prev_dc' \in [1 .. 3 -> Word16]  BY <1>1, <1>3, <1>8
  <1>13. dcs' \in [1 .. 3 -> Seq(Word16)]
    <2>1. Append(dcs[c], sp[1]) \in Seq(Word16)  BY <1>3, <1>6, <1>8, AppendProperties
    <2> QED  BY <1>1, <1>3, <2>1
  <1>14. unit' \in 1 .. Units /\ count' \in 0 .. 64  BY <1>1, <1>3
  <1> QED  BY <1>1, <1>5, <1>11, <1>12, <1>13, <1>14, ShapeKept

\* Coding an AC coefficient moves on within the block.
LEMMA EncodeACKeeps ==
  ASSUME CodingShape, EncodeAC
  PROVE  CodingShape'
  <1> DEFINE first(p) == p \in bitmap /\ \A r \in bitmap : p <= r
             p == CHOOSE q \in bitmap : \A r \in bitmap : q <= r
  <1>1. /\ pc = "ac" /\ bitmap # {} /\ count' = p + 1
        /\ job' = job /\ data' = data /\ pc' = pc /\ k' = k /\ unit' = unit /\ prev_dc' = prev_dc
        /\ source' = source /\ dcs' = dcs
    BY DEF EncodeAC
  <1>2. data \in [1 .. 3 -> Seq(Block(Word16))]  BY ShapeBehind
  <1>3. /\ unit \in 1 .. Units /\ prev_dc \in [1 .. 3 -> Word16] /\ dcs \in [1 .. 3 -> Seq(Word16)] /\ count \in 0 .. 64
    BY DEF CodingShape, CodingTypeOK
  <1>4. count' \in 0 .. 64
    <2>1. bitmap \subseteq count .. 63  BY DEF bitmap
    <2>2. bitmap \in SUBSET Nat  BY <1>3, <2>1
    <2>3. \E q \in bitmap : \A r \in bitmap : q <= r  BY <1>1, <2>2, LeastNatural
    <2> DEFINE T == bitmap
    <2>4. p \in T
      <3> HIDE DEF T
      <3>1. \E q \in T : \A r \in T : q <= r  BY <2>3 DEF T
      <3>2. (CHOOSE q \in T : \A r \in T : q <= r) \in T  BY <3>1
      <3> QED  BY <3>2 DEF T
    <2> HIDE DEF p
    <2>5. p \in count .. 63  BY <2>1, <2>4
    <2> QED  BY <1>1, <1>3, <2>5
  <1>5. PICK m \in Nat : \E j \in 0 .. m : MCUsOf(data, m) /\ k = LumaUnits * j /\ j < m  BY <1>1 DEF CodingShape, Underway
  <1>6. PICK j \in 0 .. m : MCUsOf(data, m) /\ k = LumaUnits * j /\ j < m  BY <1>5
  <1> HIDE DEF p
  <1> QED  BY <1>1, <1>2, <1>3, <1>4, <1>6, ShapeKept

\* The end of a block goes on to the MCU's next, or to the next MCU.
LEMMA EndBlockKeeps ==
  ASSUME CodingShape, EndBlock
  PROVE  CodingShape'
  <1>1. /\ pc = "ac"
        /\ \/ unit = Units /\ pc' = "mcu" /\ k' = k + LumaUnits /\ unit' = unit
           \/ unit # Units /\ pc' = "block" /\ unit' = unit + 1 /\ k' = k
        /\ job' = job /\ data' = data /\ prev_dc' = prev_dc /\ count' = count /\ source' = source /\ dcs' = dcs
    BY DEF EndBlock
  <1>2. /\ data \in [1 .. 3 -> Seq(Block(Word16))]
        /\ LumaUnits \in {1, 2, 4, 8} /\ Units \in Nat
    BY ShapeBehind
  <1>3. /\ unit \in 1 .. Units /\ prev_dc \in [1 .. 3 -> Word16] /\ dcs \in [1 .. 3 -> Seq(Word16)] /\ count \in 0 .. 64
    BY DEF CodingShape, CodingTypeOK
  <1>4. unit' \in 1 .. Units  BY <1>1, <1>2, <1>3
  <1>5. PICK m \in Nat : \E j \in 0 .. m : MCUsOf(data, m) /\ k = LumaUnits * j /\ j < m  BY <1>1 DEF CodingShape, Underway
  <1>6. PICK j \in 0 .. m : MCUsOf(data, m) /\ k = LumaUnits * j /\ j < m  BY <1>5
  <1>7. CASE unit = Units
    <2>1. pc' = "mcu" /\ k' = k + LumaUnits  BY <1>1, <1>7
    <2>2. j + 1 \in 0 .. m  BY <1>6
    <2>3. k' = LumaUnits * (j + 1) /\ k' # 0
      <3> DEFINE U == LumaUnits
      <3>1. U \in {1, 2, 4, 8} /\ k' = U * j + U  BY <1>2, <1>6, <2>1
      <3> HIDE DEF U
      <3>2. U * j + U = U * (j + 1) /\ U * j + U # 0
        <4>1. CASE U = 1  BY <4>1
        <4>2. CASE U = 2  BY <4>2
        <4>3. CASE U = 4  BY <4>3
        <4>4. CASE U = 8  BY <4>4
        <4> QED  BY <3>1, <4>1, <4>2, <4>3, <4>4
      <3> QED  BY <3>1, <3>2 DEF U
    <2> DEFINE n == j + 1
    <2>4. n \in 0 .. m /\ k' = LumaUnits * n  BY <2>2, <2>3
    <2> HIDE DEF n
    <2> QED  BY <1>1, <1>2, <1>3, <1>4, <1>6, <2>1, <2>3, <2>4, ShapeKept
  <1>8. CASE unit # Units
    <2>1. pc' = "block" /\ k' = k  BY <1>1, <1>8
    <2> QED  BY <1>1, <1>2, <1>3, <1>4, <1>6, <2>1, ShapeKept
  <1> QED  BY <1>7, <1>8

\* After the last MCU the strip is done.
LEMMA LastMCUKeeps ==
  ASSUME CodingShape, LastMCU
  PROVE  CodingShape'
  <1>1. /\ pc = "mcu" /\ pc' = "done"
        /\ job' = job /\ data' = data /\ k' = k /\ unit' = unit /\ prev_dc' = prev_dc /\ count' = count
        /\ source' = source /\ dcs' = dcs
    BY DEF LastMCU
  <1>2. data \in [1 .. 3 -> Seq(Block(Word16))]  BY ShapeBehind
  <1>3. /\ unit \in 1 .. Units /\ prev_dc \in [1 .. 3 -> Word16] /\ dcs \in [1 .. 3 -> Seq(Word16)] /\ count \in 0 .. 64
    BY DEF CodingShape, CodingTypeOK
  <1>4. PICK m \in Nat : \E j \in 0 .. m : MCUsOf(data, m) /\ k = LumaUnits * j  BY <1>1 DEF CodingShape, Underway
  <1>5. PICK j \in 0 .. m : MCUsOf(data, m) /\ k = LumaUnits * j  BY <1>4
  <1> QED  BY <1>1, <1>2, <1>3, <1>5, ShapeKept

\* A stuttering step keeps the invariant.
LEMMA ShapeUnchanged ==
  ASSUME CodingShape, UNCHANGED codingVars
  PROVE  CodingShape'
  <1>1. /\ job' = job /\ data' = data /\ k' = k /\ unit' = unit /\ prev_dc' = prev_dc /\ count' = count
        /\ source' = source /\ dcs' = dcs /\ pc' = pc
    BY DEF codingVars
  <1>2. Units' = Units /\ nc' = nc /\ LumaUnits' = LumaUnits  BY <1>1, SameUnits
  <1>3. CodingTypeOK'  BY <1>1, <1>2 DEF CodingShape, CodingTypeOK, num_mcus
  <1>4. pc # "pixels" => Underway(data)'
    <2> SUFFICES ASSUME pc # "pixels" PROVE Underway(data)'  OBVIOUS
    <2>1. PICK m \in Nat : \E j \in 0 .. m : MCUsOf(data, m) /\ k = LumaUnits * j /\ (pc \in {"block", "ac"} => j < m)
      BY DEF CodingShape, Underway
    <2>2. PICK j \in 0 .. m : MCUsOf(data, m) /\ k = LumaUnits * j /\ (pc \in {"block", "ac"} => j < m)  BY <2>1
    <2> QED  BY <1>1, <2>2, StaysUnderway
  <1>5. AroundZero(source)' <=> AroundZero(source)  BY <1>1 DEF AroundZero
  <1>6. Converted' = Converted  BY <1>1, SameConverted
  <1> QED  BY <1>1, <1>3, <1>4, <1>5, <1>6 DEF CodingShape

\* The invariant: from its pixels or from any later entry on, a strip is made of whole
\* MCUs, and the block being coded is one of them, in every format, quality, build and for
\* all pixels (make_lines and encode_lines of jpegenc.cpp walk the buffers by it).
THEOREM CodingHasShape == CodingSpec => []CodingShape
  <1>1. CodingInit => CodingShape  BY CodingStarts
  <1>2. CodingShape /\ [CodingNext]_codingVars => CodingShape'
    <2> SUFFICES ASSUME CodingShape, [CodingNext]_codingVars PROVE CodingShape'  OBVIOUS
    <2>1. CASE Convert  BY <2>1, ConvertKeeps
    <2>2. CASE TransformMCU  BY <2>2, TransformMCUKeeps
    <2>3. CASE LastMCU  BY <2>3, LastMCUKeeps
    <2>4. CASE EncodeDC  BY <2>4, EncodeDCKeeps
    <2>5. CASE EncodeAC  BY <2>5, EncodeACKeeps
    <2>6. CASE EndBlock  BY <2>6, EndBlockKeeps
    <2>7. CASE UNCHANGED codingVars  BY <2>7, ShapeUnchanged
    <2> QED  BY <2>1, <2>2, <2>3, <2>4, <2>5, <2>6, <2>7 DEF CodingNext, Finished
  <1> QED  BY <1>1, <1>2, PTL DEF CodingSpec

\* Every sample, coefficient and DC prediction is one of the 16 bits it is stored in, the
\* counters stay in their ranges, and no block outside the strip is reached
\* (block_coding.cpp, dct.cpp and quantization.cpp keep int16_t throughout).
THEOREM CodingTyped == CodingSpec => []CodingTypeOK
  <1>1. CodingShape => CodingTypeOK  BY DEF CodingShape
  <1> QED  BY <1>1, CodingHasShape, PTL

\* The vector builds and the scalar one transform and quantise the samples of a strip alike:
\* no intermediate value of the passes leaves the 16 bits of the vector lanes, although the
\* scalar code computes in 32 (dct.cpp), for all samples, formats and qualities.
THEOREM EveryTargetAgrees == CodingSpec => []TargetsAgree
  <1>1. CodingShape => TargetsAgree
    <2> SUFFICES ASSUME CodingShape, AtMCU, NEW u \in 1 .. Units
                 PROVE  LET d == source[Comp(u)][Index(u)]
                            qtable == create_scaled_qtable(Table(u) + 1, job.QF)
                        IN dct2_core_vector(d, qtable) = dct2_core_scalar(d, qtable)
      BY DEF TargetsAgree
    <2>1. pc = "block" /\ job.at # "block"  BY DEF AtMCU
    <2>2. PICK m \in Nat : \E j \in 0 .. m : MCUsOf(data, m) /\ k = LumaUnits * j /\ j < m  BY <2>1 DEF CodingShape, Underway
    <2>3. PICK j \in 0 .. m : MCUsOf(data, m) /\ k = LumaUnits * j /\ j < m  BY <2>2
    <2>4. MCUsOf(source, m)  BY <2>3, SameMCUs DEF CodingShape
    <2>5. Comp(u) \in 1 .. 3 /\ Index(u) \in 1 .. Len(source[Comp(u)])  BY <2>3, <2>4, ShapeBehind, UnitInStrip
    <2>6. AroundZero(source)  BY <2>1 DEF CodingShape
    <2> DEFINE d == source[Comp(u)][Index(u)]
    <2>7. \A i \in 1 .. 64 : Around(d[i])  BY <2>5, <2>6 DEF AroundZero
    <2> HIDE DEF d
    <2>8. \A q : dct2_core_vector(d, q) = dct2_core_scalar(d, q)  BY <2>7, CoreAgrees
    <2> QED  BY <2>8 DEF d
  <1> QED  BY <1>1, CodingHasShape, PTL

\* Luma and subsampled chroma are within 1.25 of the exact conversion, and of one more for
\* the rounding of a mean, in every format and both builds, for all pixels but the two the
\* scalar build gets wrong: pure red and pure blue (color.cpp).
THEOREM ColourIsClose == CodingSpec => [](NoPureColour => ColourClose)
  <1>1. CodingShape => (NoPureColour => ColourClose)
    <2> SUFFICES ASSUME CodingShape, NoPureColour, job.at = "pixels", pc = "mcu", k = 0 PROVE Close(data)
      BY DEF ColourClose, Close
    <2>1. data = Converted /\ job \in Jobs  BY DEF CodingShape, CodingTypeOK
    <2>2. Close(Converted)  BY <2>1, ConvertedClose
    <2> QED  BY <2>1, <2>2
  <1> QED  BY <1>1, CodingHasShape, PTL
=============================================================================
