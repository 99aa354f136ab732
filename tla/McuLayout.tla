----------------------------- MODULE McuLayout ------------------------------
(***************************************************************************)
(* Where color.cpp puts the samples of a strip.  A strip is BUFLINES rows  *)
(* of `width` pixels; the converters write it as 16-bit samples into one   *)
(* buffer for luma and one for each chroma component, "in MCU order": the  *)
(* blocks one behind the other in the order encode_mcus() will take them.  *)
(*                                                                         *)
(* Every vector store of the code is one octet: eight samples put at       *)
(* offset `at`, each the mean of an h by w/8 area of pixels, the first of  *)
(* them at row y, column x of the strip.  A converter is the set of octets *)
(* it stores; both chroma components get the same.  A counter the code     *)
(* increments (pos, pos_Chroma) is written as the number of increments.    *)
(***************************************************************************)
EXTENDS Integers

Octet(at, y, x, h, w) == [at |-> at, y |-> y, x |-> x, h |-> h, w |-> w]

BlockRows == 0 .. 7      \* r: the rows of a block
Halves == {0, 8}         \* i: the two rows of blocks of a strip
Columns(w, step) == {step * n : n \in 0 .. ((w + step - 1) \div step) - 1}   \* j
Steps(w, step) == (w + step - 1) \div step

\* Sixteen pixels of one row: the lower half at `at`, the upper `gap` further on.
Sixteen(at, gap, y, x) == {Octet(at, y, x, 1, 8), Octet(at + gap, y, x + 8, 1, 8)}
\* Thirty-two pixels of one row, 64 apart.
ThirtyTwo(at, y, x) == Sixteen(at, 64, y, x) \cup Sixteen(at + 128, 64, y, x + 16)

NoChroma == {}

-----------------------------------------------------------------------------
(* The fused converters: interleaved RGB to MCU order in one pass. *)

rgb2ycbcr_subsample_444(w) ==
  LET full == UNION {Sixteen(128 * ((i \div 8) * Steps(w, 16) + j \div 16) + 8 * r, 64, i + r, j) :
                       i \in Halves, j \in Columns(w, 16), r \in BlockRows}
  IN [luma |-> full, chroma |-> full]

rgb2ycbcr_subsample_422(w) ==
  LET n(i, j) == (i \div 8) * Steps(w, 16) + j \div 16
  IN [luma |-> UNION {Sixteen(128 * n(i, j) + 8 * r, 64, i + r, j) :
                        i \in Halves, j \in Columns(w, 16), r \in BlockRows},
      chroma |-> {Octet(64 * n(i, j) + 8 * r, i + r, j, 1, 16) :
                        i \in Halves, j \in Columns(w, 16), r \in BlockRows}]

rgb2ycbcr_subsample_411(w) ==
  LET n(i, j) == (i \div 8) * Steps(w, 32) + j \div 32
  IN [luma |-> UNION {ThirtyTwo(256 * n(i, j) + 8 * r, i + r, j) :
                        i \in Halves, j \in Columns(w, 32), r \in BlockRows},
      chroma |-> {Octet(64 * n(i, j) + 8 * r, i + r, j, 1, 32) :
                        i \in Halves, j \in Columns(w, 32), r \in BlockRows}]

\* An odd row stores the chroma of itself and the row above.
Odd == {r \in BlockRows : r % 2 = 1}

rgb2ycbcr_subsample_410(w) ==
  [luma |-> UNION {ThirtyTwo(256 * (2 * (j \div 32) + i \div 8) + 8 * r, i + r, j) :
                     i \in Halves, j \in Columns(w, 32), r \in BlockRows},
   chroma |-> {Octet(2 * j + 4 * i + 8 * (r \div 2), i + r - 1, j, 2, 32) :
                     i \in Halves, j \in Columns(w, 32), r \in Odd}]

\* The two blocks of a column of MCUs are adjacent, so the upper half is 128 away.
rgb2ycbcr_subsample_440(w) ==
  [luma |-> UNION {Sixteen(16 * j + 8 * i + 8 * r, 128, i + r, j) :
                     i \in Halves, j \in Columns(w, 16), r \in BlockRows},
   chroma |-> UNION {{Octet(8 * j + 4 * i + 8 * (r \div 2), i + r - 1, j, 2, 8),
                      Octet(8 * j + 4 * i + 8 * (r \div 2) + 64, i + r - 1, j + 8, 2, 8)} :
                     i \in Halves, j \in Columns(w, 16), r \in Odd}]

rgb2ycbcr_subsample_420_posChroma(w) ==   \* mutant: pos_Chroma as in 4:4:0
  [luma |-> UNION {Sixteen(128 * (2 * (j \div 16) + i \div 8) + 8 * r, 64, i + r, j) :
                     i \in Halves, j \in Columns(w, 16), r \in BlockRows},
   chroma |-> {Octet(8 * j + 4 * i + 8 * (r \div 2), i + r - 1, j, 2, 16) :
                     i \in Halves, j \in Columns(w, 16), r \in Odd}]

rgb2ycbcr_subsample_420(w) ==
  [luma |-> UNION {Sixteen(128 * (2 * (j \div 16) + i \div 8) + 8 * r, 64, i + r, j) :
                     i \in Halves, j \in Columns(w, 16), r \in BlockRows},
   chroma |-> {Octet(4 * j + 4 * i + 8 * (r \div 2), i + r - 1, j, 2, 16) :
                     i \in Halves, j \in Columns(w, 16), r \in Odd}]

rgb2ycbcr_subsample_gray(w) ==
  [luma |-> UNION {Sixteen(128 * ((i \div 8) * Steps(w, 16) + j \div 16) + 8 * r, 64, i + r, j) :
                     i \in Halves, j \in Columns(w, 16), r \in BlockRows},
   chroma |-> NoChroma]

rgb2ycbcr_subsample(ycc, w) ==
  CASE ycc = "YUV444" -> rgb2ycbcr_subsample_444(w)
    [] ycc = "YUV422" -> rgb2ycbcr_subsample_422(w)
    [] ycc = "YUV411" -> rgb2ycbcr_subsample_411(w)
    [] ycc = "YUV440" -> rgb2ycbcr_subsample_440(w)
    [] ycc = "YUV420" -> rgb2ycbcr_subsample_420(w)
    [] ycc = "YUV410" -> rgb2ycbcr_subsample_410(w)
    [] ycc \in {"GRAY", "GRAY2"} -> rgb2ycbcr_subsample_gray(w)

-----------------------------------------------------------------------------
(* The second pass of the converters that went before: planar samples to MCU *)
(* order.  Only GRAY is still called, for images of one component.           *)

\* The eight rows of a block, or of the block to its right (8 * 8 .. 8 * 15).
Block(at, y, x) == {Octet(at + 8 * r, y + r, x, 1, 8) : r \in BlockRows}
TwoBlocks(at, gap, y, x) == Block(at, y, x) \cup Block(at + gap, y, x + 8)

subsample_GRAY(w) ==
  [luma |-> UNION {TwoBlocks(128 * ((i \div 8) * Steps(w, 16) + j \div 16), 64, i, j) :
                     i \in Halves, j \in Columns(w, 16)},
   chroma |-> NoChroma]

subsample_444(w) ==
  LET blocks == UNION {TwoBlocks(128 * ((i \div 8) * Steps(w, 16) + j \div 16), 64, i, j) :
                         i \in Halves, j \in Columns(w, 16)}
  IN [luma |-> blocks, chroma |-> blocks]

subsample_422(w) ==
  LET n(i, j) == (i \div 8) * Steps(w, 16) + j \div 16
  IN [luma |-> UNION {TwoBlocks(128 * n(i, j), 64, i, j) : i \in Halves, j \in Columns(w, 16)},
      chroma |-> {Octet(64 * n(i, j) + 8 * r, i + r, j, 1, 16) :
                    i \in Halves, j \in Columns(w, 16), r \in BlockRows}]

\* Rows 2k and 2k + 1 of the samples make row k of the chroma.
subsample_440(w) ==
  [luma |-> UNION {TwoBlocks(16 * j + 8 * i, 128, i, j) : i \in Halves, j \in Columns(w, 16)},
   chroma |-> UNION {{Octet(8 * j + 4 * i + 8 * k, i + 2 * k, j, 2, 8),
                      Octet(8 * j + 4 * i + 8 * (8 + k), i + 2 * k, j + 8, 2, 8)} :
                    i \in Halves, j \in Columns(w, 16), k \in 0 .. 3}]

subsample_420(w) ==
  [luma |-> UNION {TwoBlocks(128 * (2 * (j \div 16) + i \div 8), 64, i, j) :
                    i \in Halves, j \in Columns(w, 16)},
   chroma |-> {Octet(4 * j + 4 * i + 8 * k, i + 2 * k, j, 2, 16) :
                    i \in Halves, j \in Columns(w, 16), k \in 0 .. 3}]

subsample_411(w) ==
  LET n(i, j) == (i \div 8) * Steps(w, 32) + j \div 32
  IN [luma |-> UNION {ThirtyTwo(256 * n(i, j) + 8 * y, i + y, j) :
                        i \in Halves, j \in Columns(w, 32), y \in BlockRows},
      chroma |-> {Octet(64 * n(i, j) + 8 * y, i + y, j, 1, 32) :
                        i \in Halves, j \in Columns(w, 32), y \in BlockRows}]

subsample_410(w) ==
  [luma |-> UNION {ThirtyTwo(256 * (2 * (j \div 32) + i \div 8) + 8 * y, i + y, j) :
                     i \in Halves, j \in Columns(w, 32), y \in BlockRows},
   chroma |-> {Octet(2 * j + 4 * i + 4 * (y - 1), i + y - 1, j, 2, 32) :
                     i \in Halves, j \in Columns(w, 32), y \in Odd}]

subsample_GRAY2(w) ==
  [luma |-> UNION {TwoBlocks(128 * ((i \div 8) * Steps(w, 16) + j \div 16), 64, i, j) :
                     i \in Halves, j \in Columns(w, 16)},
   chroma |-> NoChroma]

subsample(ycc, w) ==
  CASE ycc = "GRAY" -> subsample_GRAY(w)
    [] ycc = "YUV444" -> subsample_444(w)
    [] ycc = "YUV422" -> subsample_422(w)
    [] ycc = "YUV440" -> subsample_440(w)
    [] ycc = "YUV420" -> subsample_420(w)
    [] ycc = "YUV411" -> subsample_411(w)
    [] ycc = "YUV410" -> subsample_410(w)
    [] ycc = "GRAY2" -> subsample_GRAY2(w)

-----------------------------------------------------------------------------
(* The converter of builds without vectors: one rule for all formats, given *)
(* the sampling factors.  It stores single samples; an octet is eight of    *)
(* them, which the innermost loop over the columns of a block stores.       *)

\* Rows and columns of blocks are visited MCU by MCU where MCUs are two blocks high.
scalar_luma_no440(ycc, w, sx, sy) ==   \* mutant: no case label for 4:4:0
  IF ycc \in {"YUV420", "YUV410"}
    THEN {Octet(64 * (((i \div (8 * sy)) * Steps(w, 8 * sx) + j \div (8 * sx)) * sx * sy
                      + (y \div 8) * sx + x \div 8) + 8 * p, i + y + p, j + x, 1, 8) :
            i \in {n \in {0, 8} : n % (8 * sy) = 0}, j \in Columns(w, 8 * sx),
            y \in Columns(8 * sy, 8), x \in Columns(8 * sx, 8), p \in BlockRows}
    ELSE {Octet(64 * ((i \div 8) * Steps(w, 8) + j \div 8) + 8 * y, i + y, j, 1, 8) :
            i \in Halves, j \in Columns(w, 8), y \in BlockRows}

scalar_luma(ycc, w, sx, sy) ==
  IF ycc \in {"YUV440", "YUV420", "YUV410"}
    THEN {Octet(64 * (((i \div (8 * sy)) * Steps(w, 8 * sx) + j \div (8 * sx)) * sx * sy
                      + (y \div 8) * sx + x \div 8) + 8 * p, i + y + p, j + x, 1, 8) :
            i \in {n \in {0, 8} : n % (8 * sy) = 0}, j \in Columns(w, 8 * sx),
            y \in Columns(8 * sy, 8), x \in Columns(8 * sx, 8), p \in BlockRows}
    ELSE {Octet(64 * ((i \div 8) * Steps(w, 8) + j \div 8) + 8 * y, i + y, j, 1, 8) :
            i \in Halves, j \in Columns(w, 8), y \in BlockRows}

scalar_chroma_halves(w, sx, sy) ==   \* mutant: rows of MCUs eight lines apart, whatever their height
  {Octet(64 * ((i \div 8) * Steps(w, 8 * sx) + j \div (8 * sx)) + 8 * (y \div sy),
         i + y, j, sy, 8 * sx) :
     i \in Halves, j \in Columns(w, 8 * sx), y \in Columns(8 * sy, sy)}

scalar_chroma(w, sx, sy) ==
  {Octet(64 * ((i \div (8 * sy)) * Steps(w, 8 * sx) + j \div (8 * sx)) + 8 * (y \div sy),
         i + y, j, sy, 8 * sx) :
     i \in {n \in {0, 8} : n % (8 * sy) = 0}, j \in Columns(w, 8 * sx), y \in Columns(8 * sy, sy)}

subsample_scalar(ycc, w, sx, sy) ==
  [luma |-> scalar_luma(ycc, w, sx, sy),
   chroma |-> IF ycc = "GRAY" THEN NoChroma ELSE scalar_chroma(w, sx, sy)]
=============================================================================
