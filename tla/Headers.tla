------------------------------ MODULE Headers -------------------------------
(***************************************************************************)
(* The main header, byte by byte, as create_mainheader() puts it into the  *)
(* stream, and what a decoder that walks the segments by their lengths     *)
(* takes from it.  The two share the values of the markers and nothing     *)
(* else.                                                                   *)
(***************************************************************************)
EXTENDS QuantTables, HuffmanTables, Zigzag, Formats, SequencesExt

SOI == 65496  \* 0xFFD8
SOF == 65472  \* 0xFFC0
DHT == 65476  \* 0xFFC4
SOS == 65498  \* 0xFFDA
DQT == 65499  \* 0xFFDB
DRI == 65501  \* 0xFFDD

\* The arguments are cut to eight and sixteen bits.
put_byte(d) == <<d % 256>>
put_word(d) == put_byte(d \div 256) \o put_byte(d)

\* The sampling factors, one in each half of a byte.
YCC_HV(ycc, chroma) ==
  IF ~chroma THEN 16 * H[ycc] + V[ycc] ELSE IF ycc \in {"GRAY", "GRAY2"} THEN 0 ELSE 17

create_SOF(Y, X, Nf, ycc) ==
  put_word(SOF) \o put_word(8 + 3 * Nf) \o put_byte(8) \o put_word(Y) \o put_word(X) \o put_byte(Nf)
    \o FlattenSeq([C \in 1 .. Nf |-> put_byte(C - 1) \o put_byte(YCC_HV(ycc, C > 1)) \o put_byte(IF C > 1 THEN 1 ELSE 0)])

create_SOS(Ns) ==
  put_word(SOS) \o put_word(6 + 2 * Ns) \o put_byte(Ns)
    \o FlattenSeq([C \in 1 .. Ns |-> put_byte(C - 1) \o put_byte(IF C > 1 THEN 17 ELSE 0)])
    \o <<0, 63, 0>>

create_DQT_rows(c, qtable) ==   \* mutant: row by row
  put_word(DQT) \o put_word(67) \o put_byte(c) \o [n \in 1 .. 64 |-> qtable[n] % 256]

create_DQT(c, qtable) ==
  put_word(DQT) \o put_word(67) \o put_byte(c) \o [n \in 1 .. 64 |-> qtable[indices[n] + 1] % 256]

\* Two segments, the class of the table in the high half of its byte.  The length goes
\* through a uint8_t.
create_DHT(c) ==
  LET Segment(class, freq, values) ==
        put_word(DHT) \o put_word((Len(freq) + Len(values) + 3) % 256) \o put_byte(16 * class + c)
          \o FlattenSeq([l \in 1 .. 16 |-> put_byte(freq[l])]) \o FlattenSeq([n \in 1 .. Len(values) |-> put_byte(values[n])])
  IN Segment(0, DC_freq[c], DC_values[c]) \o Segment(1, AC_freq[c], AC_values[c])
AllDHT == [c \in Tables |-> create_DHT(c)]

create_DRI(width, ycc) ==
  LET mcu_x == CeilDiv(width, DCTSIZE * H[ycc])
      mcu_y == BUFLINES \div (DCTSIZE * V[ycc])
  IN put_word(DRI) \o put_word(4) \o put_word(mcu_x * mcu_y)

create_mainheader(width, height, QF, ycc, use_RESET) ==
  LET nc == IF ycc \in {"GRAY", "GRAY2"} THEN 1 ELSE 3
  IN put_word(SOI)
       \o create_DQT(0, announced_qtable(1, QF)) \o (IF nc > 1 THEN create_DQT(1, announced_qtable(2, QF)) ELSE <<>>)
       \o create_SOF(height, width, nc, ycc)
       \o AllDHT[0] \o (IF nc > 1 THEN AllDHT[1] ELSE <<>>)
       \o (IF use_RESET THEN create_DRI(width, ycc) ELSE <<>>)
       \o create_SOS(nc)

-----------------------------------------------------------------------------
(* The decoder. *)

Word(h, at) == 256 * h[at] + h[at + 1]

\* Before the first segment; `at` is where the next one starts.
Unread == [at |-> 3, ok |-> TRUE, done |-> FALSE, size |-> <<0, 0>>, comps |-> <<>>, scan |-> <<>>, interval |-> 0,
           steps |-> <<>>, huffman |-> <<>>]

\* A function with x at k.
With(k, x, f) == [j \in DOMAIN f \cup {k} |-> IF j = k THEN x ELSE f[j]]

\* What a decoder takes from each kind of segment, or that it cannot.
NotRead(d) == [d EXCEPT !.ok = FALSE]

TakeDQT(d, body) == IF Len(body) # 65 THEN NotRead(d) ELSE [d EXCEPT !.steps = With(body[1], Tail(body), @)]

TakeDHT(d, body) ==
  LET freq == SubSeq(body, 2, 17)
      values == SubSeq(body, 18, Len(body))
  IN IF Len(values) # ValPtr(freq)[16] + freq[16] THEN NotRead(d)
     ELSE [d EXCEPT !.huffman = With(body[1], <<freq, values>>, @)]

TakeSOF(d, body) ==
  IF ~(body[1] = 8 /\ Len(body) = 6 + 3 * body[6]) THEN NotRead(d)
  ELSE [d EXCEPT !.size = <<Word(body, 4), Word(body, 2)>>,
                 !.comps = [c \in 1 .. body[6] |-> SubSeq(body, 4 + 3 * c, 6 + 3 * c)]]

TakeDRI(d, body) == IF Len(body) # 2 THEN NotRead(d) ELSE [d EXCEPT !.interval = Word(body, 1)]

TakeSOS(d, body) ==
  LET n == body[1]
  IN IF ~(Len(body) = 4 + 2 * n /\ SubSeq(body, 2 + 2 * n, 4 + 2 * n) = <<0, 63, 0>>) THEN NotRead(d)
     ELSE [d EXCEPT !.scan = [c \in 1 .. n |-> SubSeq(body, 2 * c, 2 * c + 1)], !.done = TRUE]

Take(marker, d, body) ==
  CASE marker = DQT -> TakeDQT(d, body)
    [] marker = DHT -> TakeDHT(d, body)
    [] marker = SOF -> TakeSOF(d, body)
    [] marker = DRI -> TakeDRI(d, body)
    [] marker = SOS -> TakeSOS(d, body)
    [] OTHER -> NotRead(d)

\* One segment: its marker, its length, and what the marker says of the rest.
MovedOn(d, length) == [d EXCEPT !.at = @ + 2 + length]
ReadSegment(h, d) ==
  LET length == Word(h, d.at + 2)
  IN IF Len(h) < d.at + 3 \/ Len(h) < d.at + 1 + length THEN NotRead(d)
     ELSE Take(Word(h, d.at), MovedOn(d, length), SubSeq(h, d.at + 4, d.at + 1 + length))

\* Up to the scan; no header has more than nine segments.
ReadHeader(h) ==
  LET f[n \in 0 .. 9] ==
        IF n = 0 THEN [Unread EXCEPT !.ok = Len(h) >= 2 /\ Word(h, 1) = SOI]
          ELSE LET d == f[n-1] IN IF d.done \/ ~d.ok THEN d ELSE ReadSegment(h, d)
  IN f[9]
=============================================================================
