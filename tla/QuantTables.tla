---------------------------- MODULE QuantTables -----------------------------
(***************************************************************************)
(* The quantisation steps.  The header announces a step for every          *)
(* coefficient (create_mainheader); the encoder multiplies by a 16-bit     *)
(* reciprocal of it that also undoes the scale of the fast DCT             *)
(* (create_scaled_qtable).  The floats of the code are written as integers *)
(* over a common denominator; a block is the sequence of its 64 values,    *)
(* row by row.                                                             *)
(***************************************************************************)
EXTENDS Integers

wrap16(x) == ((x + 32768) % 65536) - 32768

\* By table, luma and chroma.
qmatrix == <<
  <<16, 11, 10, 16,  24,  40,  51,  61,
    12, 12, 14, 19,  26,  58,  60,  55,
    14, 13, 16, 24,  40,  57,  69,  56,
    14, 17, 22, 29,  51,  87,  80,  62,
    18, 22, 37, 56,  68, 109, 103,  77,
    24, 35, 55, 64,  81, 104, 113,  92,
    49, 64, 78, 87, 103, 121, 120, 101,
    72, 92, 95, 98, 112, 100, 103,  99>>,
  <<17, 18, 24, 47, 99, 99, 99, 99,
    18, 21, 26, 66, 99, 99, 99, 99,
    24, 26, 56, 99, 99, 99, 99, 99,
    47, 66, 99, 99, 99, 99, 99, 99,
    99, 99, 99, 99, 99, 99, 99, 99,
    99, 99, 99, 99, 99, 99, 99, 99,
    99, 99, 99, 99, 99, 99, 99, 99,
    99, 99, 99, 99, 99, 99, 99, 99>> >>

\* What each output of the fast DCT must be multiplied by, times 2^29.
qscale == <<
   67108864,  48382795,  51362901,  57071398,  67108864,  85413382, 124001012, 243236734,
   48382795,  34882051,  37030588,  41146185,  48382795,  61579617,  89399747, 175363913,
   51362901,  37030588,  39311462,  43680557,  51362901,  65372573,  94906266, 186165337,
   57071398,  41146185,  43680557,  48535234,  57071398,  72638111, 105454192, 206855839,
   67108864,  48382795,  51362901,  57071398,  67108864,  85413382, 124001012, 243236734,
   85413382,  61579617,  65372573,  72638111,  85413382, 108710615, 157823352, 309581641,
  124001012,  89399747,  94906266, 105454192, 124001012, 157823352, 229123994, 449442881,
  243236734, 175363913, 186165337, 206855839, 243236734, 309581641, 449442881, 881613923>>

Clamp(x) == IF x < 1 THEN 1 ELSE IF x > 255 THEN 255 ELSE x

\* The step, table c, coefficient i: scale is 5000/QF or 200 - 2QF, in hundredths.
stepsize(c, QF, i) ==
  CASE QF = 0 -> 255                        \* a division by zero in floats: infinity
    [] QF \in 1 .. 49 -> Clamp((qmatrix[c][i] * 5000 + 50 * QF) \div (100 * QF))
    [] QF >= 50 -> Clamp((qmatrix[c][i] * (200 - 2 * QF) + 50) \div 100)

\* The table of create_mainheader(), for the DQT segment.
announced_qtable(c, QF) == [i \in 1 .. 64 |-> stepsize(c, QF, i)]

\* lround(qscale / stepsize * 2^15), cast to int16_t.
create_scaled_qtable_noStep(c, QF) ==   \* mutant: the scale of the DCT without the step
  [i \in 1 .. 64 |-> wrap16((2 * qscale[i] + 2^14) \div 2^15)]

create_scaled_qtable(c, QF) ==
  [i \in 1 .. 64 |-> LET unit == stepsize(c, QF, i) * 2^15
                     IN wrap16((2 * qscale[i] + unit \div 2) \div unit)]
=============================================================================
