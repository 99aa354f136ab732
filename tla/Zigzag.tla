------------------------------- MODULE Zigzag -------------------------------
(***************************************************************************)
(* The reordering of a block, as each target does it.  The scalar code and *)
(* the 512-bit vectors look every coefficient up; shorter vectors cannot   *)
(* reach all the block in one lookup and patch the rows together from      *)
(* lookups in two of the registers at a time, masks and single lanes.  A   *)
(* row is the sequence of the indices its lanes were taken from; None is a *)
(* lane the lookup leaves zero.                                            *)
(***************************************************************************)
EXTENDS Integers, Sequences, FiniteSets

None == -1

\* One table lookup: the indices count from the start of the registers looked in.
Lookup(base, table) == [l \in 1 .. Len(table) |-> IF table[l] = None THEN None ELSE base + table[l]]
\* IfThenElseZero, IfThenZeroElse, Or: lanes of `a` where the mask has them, else of `b`.
Blend(mask, a, b) == [l \in 1 .. Len(a) |-> IF l - 1 \in mask THEN a[l] ELSE b[l]]
InsertLane(row, lane, from) == [l \in 1 .. Len(row) |-> IF l = lane + 1 THEN from ELSE row[l]]
FirstN(n) == 0 .. n - 1

-----------------------------------------------------------------------------
(* Scalar, and 512 bits: the order of the standard. *)

indices ==
  <<0,  1,  8,  16, 9,  2,  3,  10,
    17, 24, 32, 25, 18, 11, 4,  5,
    12, 19, 26, 33, 40, 48, 41, 34,
    27, 20, 13, 6,  7,  14, 21, 28,
    35, 42, 49, 56, 57, 50, 43, 36,
    29, 22, 15, 23, 30, 37, 44, 51,
    58, 59, 52, 45, 38, 31, 39, 46,
    53, 60, 61, 54, 47, 55, 62, 63>>

zigzag_scalar == indices

zigzag_512 == Lookup(0, SubSeq(indices, 1, 32)) \o Lookup(0, SubSeq(indices, 33, 64))

-----------------------------------------------------------------------------
(* 256 bits: v0, v1 hold the coefficients 0 to 31, v2, v3 those from 32. *)

zigzag_256 ==
  LET row01 == InsertLane(Lookup(0, <<0,  1,  8, 16,  9,  2,  3, 10, 17, 24,  0, 25, 18, 11,  4,  5>>), 10, 32)
      row23 == Blend(FirstN(3) \cup 8 .. 15,
                     Lookup(0, <<12, 19, 26,  0,  0,  0,  0,  0, 27, 20, 13,  6,  7, 14, 21, 28>>),
                     Lookup(32, <<0,  0,  0,  1,  8, 16,  9,  2,  0,  0,  0,  0,  0,  0,  0,  0>>))
      row45 == Blend(FirstN(8) \cup 13 .. 15,
                     Lookup(32, <<3, 10, 17, 24, 25, 18, 11,  4,  0,  0,  0,  0,  0,  5, 12, 19>>),
                     Lookup(0, <<0,  0,  0,  0,  0,  0,  0,  0, 29, 22, 15, 23, 30,  0,  0,  0>>))
      row67 == InsertLane(Lookup(32, <<26, 27, 20, 13,  6,  0,  7, 14, 21, 28, 29, 22, 15, 23, 30, 31>>), 5, 31)
  IN row01 \o row23 \o row45 \o row67

-----------------------------------------------------------------------------
(* 128 bits: v0 to v7 hold a row of the block each. *)

m34 == 2 .. 5   \* 0b00111100

zigzag_128 ==
  LET row0 == InsertLane(Lookup(0, <<0, 1, 8, 0, 9, 2, 3, 10>>), 3, 16)
      row1 == InsertLane(Blend(FirstN(5), Lookup(16, <<1, 8, 0, 9, 2, 0, 0, 0>>),
                                          Lookup(0, <<0, 0, 0, 0, 0, 11, 4, 5>>)), 2, 32)
      row2 == InsertLane(Blend(FirstN(3), <<12, 19, 26, None, None, None, None, None>>,
                                          Lookup(32, <<0, 0, 0, 1, 8, 0, 9, 2>>)), 5, 48)
      row3 == Blend(m34, Lookup(0, <<0, 0, 13, 6, 7, 14, 0, 0>>), Lookup(16, <<11, 4, 0, 0, 0, 0, 5, 12>>))
      row4 == Blend(m34, Lookup(48, <<0, 0, 1, 8, 9, 2, 0, 0>>), Lookup(32, <<3, 10, 0, 0, 0, 0, 11, 4>>))
      row5 == InsertLane(Blend(5 .. 7, <<None, None, None, None, None, 37, 44, 51>>,
                                      Lookup(16, <<13, 6, 0, 7, 14, 0, 0, 0>>)), 2, 15)
      row6 == InsertLane(Blend(FirstN(3), Lookup(48, <<10, 11, 4, 0, 0, 0, 0, 0>>),
                                          Lookup(32, <<0, 0, 0, 13, 6, 0, 7, 14>>)), 5, 31)
      row7 == InsertLane(Lookup(48, <<5, 12, 13, 6, 0, 7, 14, 15>>), 4, 47)
  IN row0 \o row1 \o row2 \o row3 \o row4 \o row5 \o row6 \o row7

-----------------------------------------------------------------------------
(* 128 bits on Arm: one lookup reaches four rows.  The tables of the code count *)
(* bytes, here they count coefficients.                                         *)

zigzag_neon ==
  LET row0 == Lookup(0, <<0, 1, 8, 16, 9, 2, 3, 10>>)
      row1 == InsertLane(Lookup(0, <<17, 24, None, 25, 18, 11, 4, 5>>), 2, 32)
      row2 == InsertLane(InsertLane(Lookup(16, <<None, 3, 10, 17, 24, None, 25, 18>>), 0, 12), 5, 48)
      row3 == Lookup(0, <<27, 20, 13, 6, 7, 14, 21, 28>>)
      row4 == Lookup(32, <<3, 10, 17, 24, 25, 18, 11, 4>>)
      row5 == InsertLane(InsertLane(Lookup(16, <<13, 6, None, 7, 14, 21, 28, None>>), 2, 15), 7, 51)
      row6 == InsertLane(Lookup(32, <<26, 27, 20, 13, 6, None, 7, 14>>), 5, 31)
      row7 == Lookup(40, <<13, 20, 21, 14, 7, 15, 22, 23>>)
  IN row0 \o row1 \o row2 \o row3 \o row4 \o row5 \o row6 \o row7

zigzag(target) ==
  CASE target = "scalar" -> zigzag_scalar
    [] target = "avx3" -> zigzag_512
    [] target = "avx2" -> zigzag_256
    [] target = "v128" -> zigzag_128
    [] target = "neon" -> zigzag_neon

Targets == {"scalar", "avx3", "avx2", "v128", "neon"}
-----------------------------------------------------------------------------
(* What the decoder undoes. *)

\* The standard's order: by diagonals, odd ones downwards, even ones upwards.
ZigzagRank ==
  [i \in 0 .. 63 |->
     LET y == i \div 8
         x == i % 8
     IN Cardinality({j \in 0 .. 63 :
          LET jy == j \div 8
              jx == j % 8
          IN \/ jx + jy < x + y
             \/ jx + jy = x + y /\ IF (x + y) % 2 = 1 THEN jy < y ELSE jy > y})]
=============================================================================
