-------------------------------- MODULE Dct ---------------------------------
(***************************************************************************)
(* dct2_core(): the forward 8x8 DCT of Arai, Agui and Nakajima in 16-bit   *)
(* fixed point, fused with the quantisation.  The vector targets compute   *)
(* every intermediate value in a lane of 16 bits; the scalar one has 32    *)
(* bits between the stores of a pass.                                      *)
(***************************************************************************)
EXTENDS QuantTables

\* coeff[]: cos and sums of cos, times 2^15.
a0 == 12540
a1 == 17734
a2 == 23170
a3 == 10045

MulFixedPoint15(a, b) == (a * b + 2^14) \div 2^15

\* What a variable of w bits keeps of x; nothing here needs more than 32.
LaneOf(w, x) == IF w = 16 THEN wrap16(x) ELSE x

\* One pass over eight values, with intermediate variables of w bits.
Butterfly(w, x0, x1, x2, x3, x4, x5, x6, x7) ==
  LET Lane(x) == LaneOf(w, x)
      tmp0 == Lane(x0 + x7)   tmp7 == Lane(x0 - x7)
      tmp1 == Lane(x1 + x6)   tmp6 == Lane(x1 - x6)
      tmp2 == Lane(x2 + x5)   tmp5 == Lane(x2 - x5)
      tmp3 == Lane(x3 + x4)   tmp4 == Lane(x3 - x4)
      \* even part
      even10 == Lane(tmp0 + tmp3)   even13 == Lane(tmp0 - tmp3)
      even11 == Lane(tmp1 + tmp2)   even12 == Lane(tmp1 - tmp2)
      z1 == Lane(MulFixedPoint15(Lane(even12 + even13), a2))
      \* odd part
      tmp10 == Lane(tmp4 + tmp5)
      tmp11 == Lane(tmp5 + tmp6)
      tmp12 == Lane(tmp6 + tmp7)
      z5 == Lane(MulFixedPoint15(Lane(tmp10 - tmp12), a0))
      z2 == Lane(MulFixedPoint15(tmp10, a1) + z5)
      z4 == Lane(MulFixedPoint15(tmp12, a3) + z5 + tmp12)
      z3 == Lane(MulFixedPoint15(tmp11, a2))
      z11 == Lane(tmp7 + z3)
      z13 == Lane(tmp7 - z3)
  IN <<wrap16(even10 + even11), wrap16(z11 + z4), wrap16(even13 + z1), wrap16(z13 - z2),
       wrap16(even10 - even11), wrap16(z13 + z2), wrap16(even13 - z1), wrap16(z11 - z4)>>

\* The scalar code's pass over the rows of samples d.
Pass1(w, d) ==
  LET row(y) == Butterfly(w, d[8*y+1], d[8*y+2], d[8*y+3], d[8*y+4], d[8*y+5], d[8*y+6], d[8*y+7], d[8*y+8])
  IN <<row(0), row(1), row(2), row(3), row(4), row(5), row(6), row(7)>>

\* The vector code has the columns in registers of eight lanes, a row to a lane, and
\* transposes them for its second pass.
ConcatEven(hi, lo) == [i \in 1 .. 8 |-> IF i <= 4 THEN lo[2*i - 1] ELSE hi[2*i - 9]]
ConcatOdd(hi, lo) == [i \in 1 .. 8 |-> IF i <= 4 THEN lo[2*i] ELSE hi[2*i - 8]]
InterleaveLower(a, b) == [i \in 1 .. 8 |-> IF i % 2 = 1 THEN a[(i+1) \div 2] ELSE b[i \div 2]]
InterleaveUpper(a, b) == [i \in 1 .. 8 |-> IF i % 2 = 1 THEN a[(i+9) \div 2] ELSE b[(i+8) \div 2]]
ConcatLowerLower(hi, lo) == [i \in 1 .. 8 |-> IF i <= 4 THEN lo[i] ELSE hi[i - 4]]
ConcatUpperUpper(hi, lo) == [i \in 1 .. 8 |-> IF i <= 4 THEN lo[i + 4] ELSE hi[i]]

LoadColumns(d) ==
  LET data(from, n) == [i \in 1 .. 8 |-> d[from + 4 * (i-1) + n + 1]]   \* LoadInterleaved4
  IN [x \in 1 .. 8 |-> IF x <= 4 THEN ConcatEven(data(32, x-1), data(0, x-1))
                                 ELSE ConcatOdd(data(32, x-5), data(0, x-5))]

\* Four registers interleaved: each result has four rows of two columns.
Interleave4(a, b, c, d) ==
  LET q0 == InterleaveLower(a, c)   q1 == InterleaveLower(b, d)
      q2 == InterleaveUpper(a, c)   q3 == InterleaveUpper(b, d)
  IN <<InterleaveLower(q0, q1), InterleaveUpper(q0, q1), InterleaveLower(q2, q3), InterleaveUpper(q2, q3)>>

Transpose(c) ==
  LET lo == Interleave4(c[1], c[2], c[3], c[4])
      hi == Interleave4(c[5], c[6], c[7], c[8])
  IN [y \in 1 .. 8 |-> IF y % 2 = 1 THEN ConcatLowerLower(hi[(y+1) \div 2], lo[(y+1) \div 2])
                                    ELSE ConcatUpperUpper(hi[y \div 2], lo[y \div 2])]

Pass1Vector(d) ==
  LET c == LoadColumns(d)
      lane == [y \in 1 .. 8 |-> Butterfly(16, c[1][y], c[2][y], c[3][y], c[4][y], c[5][y], c[6][y], c[7][y], c[8][y])]
  IN Transpose([x \in 1 .. 8 |-> [y \in 1 .. 8 |-> lane[y][x]]])

\* The pass over the columns of what the first one left, in either code.
Pass2(w, R) ==
  LET col(x) == Butterfly(w, R[1][x], R[2][x], R[3][x], R[4][x], R[5][x], R[6][x], R[7][x], R[8][x])
  IN <<col(1), col(2), col(3), col(4), col(5), col(6), col(7), col(8)>>

\* fdct(..)[x][y] is coefficient y of column x.
fdct(w, d) == Pass2(w, Pass1(w, d))
fdct_vector(d) == Pass2(16, Pass1Vector(d))

\* The product with the reciprocal of the step, rounded, by both kinds of targets.
Quantise(C, qtable) ==
  [i \in 1 .. 64 |-> wrap16(MulFixedPoint15(C[((i-1) % 8) + 1][((i-1) \div 8) + 1], qtable[i]))]

dct2_core_vector(d, qtable) == Quantise(fdct_vector(d), qtable)

dct2_core_scalar_noHalf(d, qtable) ==   \* mutant: the scalar quantisation rounds down
  LET C == fdct(32, d)
  IN [i \in 1 .. 64 |-> wrap16((C[((i-1) % 8) + 1][((i-1) \div 8) + 1] * qtable[i]) \div 2^15)]

dct2_core_scalar(d, qtable) == Quantise(fdct(32, d), qtable)
=============================================================================
