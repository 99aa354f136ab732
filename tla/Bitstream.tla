----------------------------- MODULE Bitstream ------------------------------
(***************************************************************************)
(* The classes bitstream and stream_buf: codes of any length are packed    *)
(* into a word, full words go out as bytes, an all-ones byte is followed   *)
(* by a zero byte, markers are written past the packing, and the buffer    *)
(* doubles when it is full.                                                *)
(*                                                                         *)
(* Numbers are the sequences of their bits, most significant first, so     *)
(* that a shift is a SubSeq.  A byte has ByteBits bits (8 in the code) and *)
(* a word WordBytes bytes (8 in the code).  The client is the encoder's    *)
(* use of the class: header bytes only at the head of an empty stream.     *)
(***************************************************************************)
EXTENDS Integers, Sequences, SequencesExt

CONSTANTS ByteBits, WordBytes,
          InitLen,      \* the buffer's first size
          Codes,        \* the codes put, as sequences of bits
          HeaderByte,   \* the bytes put in a header
          RSTs, EOI,    \* second bytes of the markers
          MaxBytes      \* bound: no call is made on a longer stream

Bit == {0, 1}
Byte == [1 .. ByteBits -> Bit]
WordBits == ByteBits * WordBytes
Word == [1 .. WordBits -> Bit]
Zeros(n) == [i \in 1 .. n |-> 0]
Ones(n) == [i \in 1 .. n |-> 1]
FF == Ones(ByteBits)

\* A code fits the word (the encoder's have at most 26 bits), and the buffer is
\* never smaller than a word or than two bytes (the encoder starts with 1024).
ASSUME BitstreamAssumption ==
  /\ ByteBits \in Nat \ {0}
  /\ WordBytes \in Nat \ {0}
  /\ InitLen \in Nat /\ InitLen >= WordBytes /\ InitLen >= 2
  /\ \A c \in Codes : c \in Seq(Bit) /\ Len(c) \in 1 .. WordBits
  /\ HeaderByte \subseteq Byte
  /\ RSTs \cup {EOI} \subseteq Byte \ {FF, Zeros(ByteBits)} /\ EOI \notin RSTs

VARIABLES bits,   \* free bits in tmp
          tmp,    \* the word being filled; its free bits hold what they held
          buf,    \* the bytes written, buf[0 .. pos-1] in the code
          len,    \* the buffer's size
          todo,   \* bytes the loop of emit_qword or flush has yet to put
          call,   \* the call in progress
          mark,   \* the marker it puts after the flush
          hdr     \* history: how many bytes of buf are the header's

vars == <<bits, tmp, buf, len, todo, call, mark, hdr>>

TypeOK ==
  /\ bits \in 0 .. WordBits
  /\ tmp \in Word
  /\ buf \in Seq(Byte)
  /\ len \in Nat
  /\ todo \in Seq(Byte)
  /\ call \in {"none", "put_bits", "put_RST", "get_len", "finalize", "copy"}
  /\ mark \in RSTs \cup {EOI}
  /\ hdr \in 0 .. Len(buf)

Init ==
  /\ bits = WordBits
  /\ tmp = Zeros(WordBits)
  /\ buf = <<>>
  /\ len = InitLen
  /\ todo = <<>>
  /\ call = "none"
  /\ mark = EOI
  /\ hdr = 0

-----------------------------------------------------------------------------
(* stream_buf *)

\* n bytes appended at pos: expand() doubles the buffer, once, when they do not
\* fit.  put_byte() asks for each byte; for the one or two bytes put between two
\* steps of this model that comes to the same.
Store_exact(s) ==   \* mutant: grows only when nothing at all fits any more
  /\ buf' = buf \o s
  /\ len' = IF Len(buf) = len THEN len + len ELSE len

Store(s) ==
  /\ buf' = buf \o s
  /\ len' = IF Len(buf) + Len(s) > len THEN len + len ELSE len

-----------------------------------------------------------------------------
(* bitstream *)

\* (w << Len(s)) | s, the top bits lost.
ShiftIn(w, s) == SubSeq(w \o s, Len(s) + 1, Len(s) + Len(w))

ByteOf(w, i) == SubSeq(w, ByteBits * (i - 1) + 1, ByteBits * i)
BytesOf(w) == [i \in 1 .. WordBytes |-> ByteOf(w, i)]

\* d & 0x8080... & ~(d + 0x0101...): a bit of it is set for each byte out of which
\* the addition of one to every byte carries.  That is an all-ones byte, or the
\* byte below all-ones that also receives a carry.
MayStuff_first(w) == ByteOf(w, 1) = FF   \* mutant: looks at the top byte only

MayStuff(w) ==
  LET FE == [FF EXCEPT ![ByteBits] = 0]
      carry[i \in 1 .. WordBytes + 1] ==
        /\ i <= WordBytes
        /\ ByteOf(w, i) = FF \/ (ByteOf(w, i) = FE /\ carry[i + 1])
  IN \E i \in 1 .. WordBytes : carry[i]

\* The word is not full yet.
PutBitsRoom(c) ==
  /\ call = "none" /\ Len(buf) < MaxBytes
  /\ Len(c) <= bits
  /\ bits' = bits - Len(c)
  /\ tmp' = ShiftIn(tmp, c)
  /\ UNCHANGED <<buf, len, todo, call, mark, hdr>>

\* PUT_AND_FLUSH: the word is filled with the code's first bits and emitted; the
\* whole code stays in tmp, only its last bits count.
PutBitsFull_noRefill(c) ==   \* mutant: bits += BIT_BUF_SIZE forgotten
  LET w == ShiftIn(tmp, SubSeq(c, 1, bits))
  IN /\ call = "none" /\ Len(buf) < MaxBytes
     /\ Len(c) > bits
     /\ bits' = bits - Len(c)
     /\ tmp' = ShiftIn(Zeros(WordBits), c)
     /\ IF MayStuff(w)
          THEN todo' = BytesOf(w) /\ call' = "put_bits" /\ UNCHANGED <<buf, len>>
          ELSE Store(BytesOf(w)) /\ UNCHANGED <<todo, call>>
     /\ UNCHANGED <<mark, hdr>>

PutBitsFull(c) ==
  LET w == ShiftIn(tmp, SubSeq(c, 1, bits))
  IN /\ call = "none" /\ Len(buf) < MaxBytes
     /\ Len(c) > bits
     /\ bits' = bits - Len(c) + WordBits
     /\ tmp' = ShiftIn(Zeros(WordBits), c)
     /\ IF MayStuff(w)
          THEN todo' = BytesOf(w) /\ call' = "put_bits" /\ UNCHANGED <<buf, len>>
          ELSE Store(BytesOf(w)) /\ UNCHANGED <<todo, call>>   \* put_qword
     /\ UNCHANGED <<mark, hdr>>

\* A turn of the loop of emit_qword or flush.
EmitByte ==
  /\ todo # <<>>
  /\ Store(IF Head(todo) = FF THEN <<FF, Zeros(ByteBits)>> ELSE <<Head(todo)>>)
  /\ todo' = Tail(todo)
  /\ call' = IF call = "put_bits" /\ Tail(todo) = <<>> THEN "none" ELSE call
  /\ UNCHANGED <<bits, tmp, mark, hdr>>

\* flush(), up to its loop: the pending bits are padded with ones to whole bytes.
\* (With nothing pending the code shifts its mask by the word's width, which C++
\* leaves undefined; the mask is then not used.)
Flush ==
  LET pending == WordBits - bits
      n == (pending + ByteBits - 1) \div ByteBits
      padded == ShiftIn(tmp, Ones(ByteBits * n - pending))
  IN /\ todo' = [i \in 1 .. n |-> ByteOf(padded, WordBytes - n + i)]
     /\ tmp' = Zeros(WordBits)
     /\ bits' = WordBits
     /\ UNCHANGED <<buf, len, hdr>>

PutRST(m) ==
  /\ call = "none" /\ Len(buf) < MaxBytes
  /\ Flush
  /\ call' = "put_RST"
  /\ mark' = m

GetLen ==
  /\ call = "none"
  /\ Flush
  /\ call' = "get_len"
  /\ UNCHANGED mark

Finalize ==
  /\ call = "none"
  /\ Flush
  /\ call' = "finalize"
  /\ mark' = EOI

LenReturned ==
  /\ call = "get_len" /\ todo = <<>>
  /\ call' = "none"
  /\ UNCHANGED <<bits, tmp, buf, len, todo, mark, hdr>>

\* put_word() of the marker, after the loop of flush.
PutMarker ==
  /\ call \in {"put_RST", "finalize"} /\ todo = <<>>
  /\ Store(<<FF, mark>>)
  /\ call' = IF call = "finalize" THEN "copy" ELSE "none"
  /\ UNCHANGED <<bits, tmp, todo, mark, hdr>>

\* The end of finalize(): the caller has its copy, stream.reset().
Copy ==
  /\ call = "copy"
  /\ buf' = <<>>
  /\ hdr' = 0
  /\ call' = "none"
  /\ UNCHANGED <<bits, tmp, len, todo, mark>>

\* put_byte() and put_word() of a header, on a stream that holds no code yet.
PutHeaderByte(v) ==
  /\ call = "none" /\ Len(buf) < MaxBytes
  /\ Len(buf) = hdr /\ bits = WordBits
  /\ Store(<<v>>)
  /\ hdr' = hdr + 1
  /\ UNCHANGED <<bits, tmp, todo, call, mark>>

Reset ==
  /\ call = "none"
  /\ bits' = WordBits
  /\ tmp' = Zeros(WordBits)
  /\ buf' = <<>>
  /\ hdr' = 0
  /\ UNCHANGED <<len, todo, call, mark>>

Next ==
  \/ \E c \in Codes : PutBitsRoom(c) \/ PutBitsFull(c)
  \/ \E m \in RSTs : PutRST(m)
  \/ \E v \in HeaderByte : PutHeaderByte(v)
  \/ EmitByte \/ PutMarker \/ LenReturned \/ Copy
  \/ GetLen \/ Finalize \/ Reset

Spec == Init /\ [][Next]_vars

-----------------------------------------------------------------------------
(* Properties. *)

\* The bytes written never pass the end of the buffer, although put_qword()
\* doubles it once and does not look again (bitstream.hpp:63).
BufferNotOverrun == Len(buf) <= len

\* What a decoder reads: after the header, an all-ones byte and a zero byte are
\* one byte of code, an all-ones byte and anything else a marker.
BitSyms(s) == [i \in DOMAIN s |-> [kind |-> "bit", v |-> <<s[i]>>]]

SecondOfPair(b, h, i) == i > h + 1 /\ b[i-1] = FF

SymbolsAt(b, h, i) ==
  CASE i <= h -> <<[kind |-> "header", v |-> b[i]]>>
    [] SecondOfPair(b, h, i) ->
         IF b[i] = Zeros(ByteBits) THEN <<>> ELSE <<[kind |-> "marker", v |-> b[i]]>>
    [] i > h /\ b[i] = FF /\ ~SecondOfPair(b, h, i) ->
         IF i < Len(b) /\ b[i+1] # Zeros(ByteBits) THEN <<>> ELSE BitSyms(FF)
    [] OTHER -> BitSyms(b[i])

Decoded(b, h) == FlattenSeq([i \in DOMAIN b |-> SymbolsAt(b, h, i)])

\* The bits of the word that count.
Pending == SubSeq(tmp, bits + 1, WordBits)

Sink == INSTANCE BitSink WITH
  sink <- Decoded(buf, hdr) \o BitSyms(FlattenSeq(todo)) \o BitSyms(Pending)

\* Whatever codes are put, and however they fall into words, bytes and the
\* buffer's doublings, a decoder reads back just those bits, padding only where
\* the stream was flushed, and markers nowhere but where they were put
\* (bitstream.hpp: put_bits, emit_qword's test for an all-ones byte, flush).
ImplementsSink == Sink!Spec
=============================================================================
