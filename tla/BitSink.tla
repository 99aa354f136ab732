------------------------------ MODULE BitSink -------------------------------
(***************************************************************************)
(* What a bitstream promises, with nothing said of words, bytes or buffers:*)
(* a decoder that reads it meets the header's bytes, then the code bits in *)
(* the order they were put, padded with ones wherever the stream was       *)
(* flushed, and the markers where they were put.                           *)
(***************************************************************************)
EXTENDS Naturals, Sequences, FiniteSets

CONSTANTS ByteBits, HeaderByte, Codes, RSTs, EOI

VARIABLE sink   \* the symbols a decoder reads

BitSym(b) == [kind |-> "bit", v |-> <<b>>]
HeaderSym(v) == [kind |-> "header", v |-> v]
MarkerSym(m) == [kind |-> "marker", v |-> m]

BitCount == Cardinality({i \in DOMAIN sink : sink[i].kind = "bit"})
Aligned == BitCount % ByteBits = 0
Ended == sink # <<>> /\ sink[Len(sink)] = MarkerSym(EOI)

Init == sink = <<>>

Header(v) ==
  /\ \A i \in DOMAIN sink : sink[i].kind = "header"
  /\ sink' = Append(sink, HeaderSym(v))

Put(code) ==
  /\ ~Ended
  /\ sink' = sink \o [i \in DOMAIN code |-> BitSym(code[i])]

Align ==
  /\ ~Aligned
  /\ sink' = sink \o [i \in 1 .. ByteBits - (BitCount % ByteBits) |-> BitSym(1)]

Marker(m) ==
  /\ ~Ended
  /\ Aligned
  /\ sink' = Append(sink, MarkerSym(m))

Reset == sink' = <<>>

HandOver ==
  /\ Ended
  /\ sink' = <<>>

Next ==
  \/ \E v \in HeaderByte : Header(v)
  \/ \E code \in Codes : Put(code)
  \/ Align
  \/ \E m \in RSTs \cup {EOI} : Marker(m)
  \/ Reset \/ HandOver

Spec == Init /\ [][Next]_sink
=============================================================================
