--------------------------- MODULE HuffmanTables ----------------------------
(***************************************************************************)
(* The encoder's code tables and what create_DHT() tells a decoder about   *)
(* them.  The two are separate: the encoder looks codes up in the tables,  *)
(* the decoder is told the number of codes of each length and the symbols  *)
(* in order, and rebuilds the codes from these alone (annex C and F.2.2.3  *)
(* of the JPEG standard).                                                  *)
(***************************************************************************)
EXTENDS Integers, Sequences, FiniteSets

\* By size, 0 to 11, for the luma and the chroma table.
DC_len_ == <<
  <<2, 3, 3, 3, 3, 3, 4, 5, 6, 7, 8, 9>>,
  <<2, 2, 2, 3, 4, 5, 6, 7, 8, 9, 10, 11>> >>

DC_cwd_ == <<
  <<\h0000, \h0002, \h0003, \h0004, \h0005, \h0006, \h000e, \h001e, \h003e, \h007e, \h00fe, \h01fe>>,
  <<\h0000, \h0001, \h0002, \h0006, \h000e, \h001e, \h003e, \h007e, \h00fe, \h01fe, \h03fe, \h07fe>> >>

\* One row for each run, 0 to 15; in it the sizes 0 to 10.
AC_len_ == <<
  << <<4, 2, 2, 3, 4, 5, 7, 8, 10, 16, 16>>,
     <<0, 4, 5, 7, 9, 11, 16, 16, 16, 16, 16>>,
     <<0, 5, 8, 10, 12, 16, 16, 16, 16, 16, 16>>,
     <<0, 6, 9, 12, 16, 16, 16, 16, 16, 16, 16>>,
     <<0, 6, 10, 16, 16, 16, 16, 16, 16, 16, 16>>,
     <<0, 7, 11, 16, 16, 16, 16, 16, 16, 16, 16>>,
     <<0, 7, 12, 16, 16, 16, 16, 16, 16, 16, 16>>,
     <<0, 8, 12, 16, 16, 16, 16, 16, 16, 16, 16>>,
     <<0, 9, 15, 16, 16, 16, 16, 16, 16, 16, 16>>,
     <<0, 9, 16, 16, 16, 16, 16, 16, 16, 16, 16>>,
     <<0, 9, 16, 16, 16, 16, 16, 16, 16, 16, 16>>,
     <<0, 10, 16, 16, 16, 16, 16, 16, 16, 16, 16>>,
     <<0, 10, 16, 16, 16, 16, 16, 16, 16, 16, 16>>,
     <<0, 11, 16, 16, 16, 16, 16, 16, 16, 16, 16>>,
     <<0, 16, 16, 16, 16, 16, 16, 16, 16, 16, 16>>,
     <<11, 16, 16, 16, 16, 16, 16, 16, 16, 16, 16>> >>,
  << <<2, 2, 3, 4, 5, 5, 6, 7, 9, 10, 12>>,
     <<0, 4, 6, 8, 9, 11, 12, 16, 16, 16, 16>>,
     <<0, 5, 8, 10, 12, 15, 16, 16, 16, 16, 16>>,
     <<0, 5, 8, 10, 12, 16, 16, 16, 16, 16, 16>>,
     <<0, 6, 9, 16, 16, 16, 16, 16, 16, 16, 16>>,
     <<0, 6, 10, 16, 16, 16, 16, 16, 16, 16, 16>>,
     <<0, 7, 11, 16, 16, 16, 16, 16, 16, 16, 16>>,
     <<0, 7, 11, 16, 16, 16, 16, 16, 16, 16, 16>>,
     <<0, 8, 16, 16, 16, 16, 16, 16, 16, 16, 16>>,
     <<0, 9, 16, 16, 16, 16, 16, 16, 16, 16, 16>>,
     <<0, 9, 16, 16, 16, 16, 16, 16, 16, 16, 16>>,
     <<0, 9, 16, 16, 16, 16, 16, 16, 16, 16, 16>>,
     <<0, 9, 16, 16, 16, 16, 16, 16, 16, 16, 16>>,
     <<0, 11, 16, 16, 16, 16, 16, 16, 16, 16, 16>>,
     <<0, 14, 16, 16, 16, 16, 16, 16, 16, 16, 16>>,
     <<10, 15, 16, 16, 16, 16, 16, 16, 16, 16, 16>> >> >>

AC_cwd_ == <<
  << <<\h000a, \h0000, \h0001, \h0004, \h000b, \h001a, \h0078, \h00f8, \h03f6, \hff82, \hff83>>,
     <<\h0000, \h000c, \h001b, \h0079, \h01f6, \h07f6, \hff84, \hff85, \hff86, \hff87, \hff88>>,
     <<\h0000, \h001c, \h00f9, \h03f7, \h0ff4, \hff89, \hff8a, \hff8b, \hff8c, \hff8d, \hff8e>>,
     <<\h0000, \h003a, \h01f7, \h0ff5, \hff8f, \hff90, \hff91, \hff92, \hff93, \hff94, \hff95>>,
     <<\h0000, \h003b, \h03f8, \hff96, \hff97, \hff98, \hff99, \hff9a, \hff9b, \hff9c, \hff9d>>,
     <<\h0000, \h007a, \h07f7, \hff9e, \hff9f, \hffa0, \hffa1, \hffa2, \hffa3, \hffa4, \hffa5>>,
     <<\h0000, \h007b, \h0ff6, \hffa6, \hffa7, \hffa8, \hffa9, \hffaa, \hffab, \hffac, \hffad>>,
     <<\h0000, \h00fa, \h0ff7, \hffae, \hffaf, \hffb0, \hffb1, \hffb2, \hffb3, \hffb4, \hffb5>>,
     <<\h0000, \h01f8, \h7fc0, \hffb6, \hffb7, \hffb8, \hffb9, \hffba, \hffbb, \hffbc, \hffbd>>,
     <<\h0000, \h01f9, \hffbe, \hffbf, \hffc0, \hffc1, \hffc2, \hffc3, \hffc4, \hffc5, \hffc6>>,
     <<\h0000, \h01fa, \hffc7, \hffc8, \hffc9, \hffca, \hffcb, \hffcc, \hffcd, \hffce, \hffcf>>,
     <<\h0000, \h03f9, \hffd0, \hffd1, \hffd2, \hffd3, \hffd4, \hffd5, \hffd6, \hffd7, \hffd8>>,
     <<\h0000, \h03fa, \hffd9, \hffda, \hffdb, \hffdc, \hffdd, \hffde, \hffdf, \hffe0, \hffe1>>,
     <<\h0000, \h07f8, \hffe2, \hffe3, \hffe4, \hffe5, \hffe6, \hffe7, \hffe8, \hffe9, \hffea>>,
     <<\h0000, \hffeb, \hffec, \hffed, \hffee, \hffef, \hfff0, \hfff1, \hfff2, \hfff3, \hfff4>>,
     <<\h07f9, \hfff5, \hfff6, \hfff7, \hfff8, \hfff9, \hfffa, \hfffb, \hfffc, \hfffd, \hfffe>> >>,
  << <<\h0000, \h0001, \h0004, \h000a, \h0018, \h0019, \h0038, \h0078, \h01f4, \h03f6, \h0ff4>>,
     <<\h0000, \h000b, \h0039, \h00f6, \h01f5, \h07f6, \h0ff5, \hff88, \hff89, \hff8a, \hff8b>>,
     <<\h0000, \h001a, \h00f7, \h03f7, \h0ff6, \h7fc2, \hff8c, \hff8d, \hff8e, \hff8f, \hff90>>,
     <<\h0000, \h001b, \h00f8, \h03f8, \h0ff7, \hff91, \hff92, \hff93, \hff94, \hff95, \hff96>>,
     <<\h0000, \h003a, \h01f6, \hff97, \hff98, \hff99, \hff9a, \hff9b, \hff9c, \hff9d, \hff9e>>,
     <<\h0000, \h003b, \h03f9, \hff9f, \hffa0, \hffa1, \hffa2, \hffa3, \hffa4, \hffa5, \hffa6>>,
     <<\h0000, \h0079, \h07f7, \hffa7, \hffa8, \hffa9, \hffaa, \hffab, \hffac, \hffad, \hffae>>,
     <<\h0000, \h007a, \h07f8, \hffaf, \hffb0, \hffb1, \hffb2, \hffb3, \hffb4, \hffb5, \hffb6>>,
     <<\h0000, \h00f9, \hffb7, \hffb8, \hffb9, \hffba, \hffbb, \hffbc, \hffbd, \hffbe, \hffbf>>,
     <<\h0000, \h01f7, \hffc0, \hffc1, \hffc2, \hffc3, \hffc4, \hffc5, \hffc6, \hffc7, \hffc8>>,
     <<\h0000, \h01f8, \hffc9, \hffca, \hffcb, \hffcc, \hffcd, \hffce, \hffcf, \hffd0, \hffd1>>,
     <<\h0000, \h01f9, \hffd2, \hffd3, \hffd4, \hffd5, \hffd6, \hffd7, \hffd8, \hffd9, \hffda>>,
     <<\h0000, \h01fa, \hffdb, \hffdc, \hffdd, \hffde, \hffdf, \hffe0, \hffe1, \hffe2, \hffe3>>,
     <<\h0000, \h07f9, \hffe4, \hffe5, \hffe6, \hffe7, \hffe8, \hffe9, \hffea, \hffeb, \hffec>>,
     <<\h0000, \h3fe0, \hffed, \hffee, \hffef, \hfff0, \hfff1, \hfff2, \hfff3, \hfff4, \hfff5>>,
     <<\h03fa, \h7fc3, \hfff6, \hfff7, \hfff8, \hfff9, \hfffa, \hfffb, \hfffc, \hfffd, \hfffe>> >> >>

Tables == {0, 1}   \* luma, chroma

\* A symbol of the AC tables is its byte RS: run in the high half, size in the low.
AC_len(c, rs) == IF rs % 16 > 10 THEN 0 ELSE AC_len_[c + 1][(rs \div 16) + 1][(rs % 16) + 1]
AC_cwd(c, rs) == IF rs % 16 > 10 THEN 0 ELSE AC_cwd_[c + 1][(rs \div 16) + 1][(rs % 16) + 1]

\* Beyond twelve sizes the arrays hold zeros.
DC_len(c, i) == IF i > 11 THEN 0 ELSE DC_len_[c + 1][i + 1]
DC_cwd(c, i) == IF i > 11 THEN 0 ELSE DC_cwd_[c + 1][i + 1]

-----------------------------------------------------------------------------
(* create_DHT(): what the header says. *)

DC_freq == [c \in Tables |-> [l \in 1 .. 16 |-> Cardinality({i \in 0 .. 15 : DC_len(c, i) = l})]]
AC_freq == [c \in Tables |-> [l \in 1 .. 16 |-> Cardinality({v \in 0 .. 255 : AC_len(c, v) = l})]]

\* The pairs of length and symbol, as numbers in the order std::sort() puts them in.
ACpair == [c \in Tables |-> [v \in 0 .. 255 |-> 256 * AC_len(c, v) + v]]

\* The symbols that have a code, in the order of their pairs.
Vi(coded, pair) ==
  [n \in 1 .. Cardinality(coded) |-> CHOOSE v \in coded : Cardinality({w \in coded : pair[w] < pair[v]}) = n - 1]
AC_coded == [c \in Tables |-> {v \in 0 .. 255 : AC_len(c, v) # 0}]
AC_values == [c \in Tables |-> Vi(AC_coded[c], ACpair[c])]

\* The DC symbols are written in the order of their sizes, unsorted.
DC_coded == [c \in Tables |-> {i \in 0 .. 15 : DC_len(c, i) # 0}]
DC_values == [c \in Tables |-> Vi(DC_coded[c], [i \in 0 .. 15 |-> i])]

-----------------------------------------------------------------------------
(* The decoder: the codes of length l are consecutive numbers; the first is *)
(* twice the one after the last code a bit shorter.                         *)

MinCode(freq) == LET f[l \in 1 .. 16] == IF l = 1 THEN 0 ELSE 2 * (f[l - 1] + freq[l - 1]) IN f
\* How many symbols have shorter codes.
ValPtr(freq) == LET f[l \in 1 .. 16] == IF l = 1 THEN 0 ELSE f[l - 1] + freq[l - 1] IN f

DC_MinCode == [c \in Tables |-> MinCode(DC_freq[c])]
AC_MinCode == [c \in Tables |-> MinCode(AC_freq[c])]
DC_ValPtr == [c \in Tables |-> ValPtr(DC_freq[c])]
AC_ValPtr == [c \in Tables |-> ValPtr(AC_freq[c])]

\* Whether `code` is a code of l bits, and its symbol.
IsDCCode(c, l, code) == code - DC_MinCode[c][l] \in 0 .. DC_freq[c][l] - 1
IsACCode(c, l, code) == code - AC_MinCode[c][l] \in 0 .. AC_freq[c][l] - 1
DCSymbol(c, l, code) == DC_values[c][DC_ValPtr[c][l] + code - DC_MinCode[c][l] + 1]
ACSymbol(c, l, code) == AC_values[c][AC_ValPtr[c][l] + code - AC_MinCode[c][l] + 1]
=============================================================================
