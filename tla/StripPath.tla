----------------------------- MODULE StripPath ------------------------------
(***************************************************************************)
(* The way of the pixels from the file to the MCUs, strip by strip: class  *)
(* imchunk reads BUFLINES rows and pads them, the converters of color.cpp  *)
(* put the samples in MCU order, encode_mcus() takes the blocks off the    *)
(* buffers in that order.  Geometry counts the MCUs; here each block is    *)
(* followed back to the pixels of the image it shows.                      *)
(***************************************************************************)
EXTENDS Geometry, McuLayout

CONSTANTS Targets,     \* "vector" and "scalar": the converters of the build
          MaxCalls,    \* bound: calls of invoke()
          Short,       \* the images whose file may end early
          Missing,     \* bound: how many rows such a file may lack
          Positions    \* where the caller may have left the FILE between calls

Origin == 15   \* the first sample of the image in the file, after its header

ASSUME StripPathAssumption ==
  /\ Targets \subseteq {"vector", "scalar"}
  /\ MaxCalls \in Nat \ {0}
  /\ Short \subseteq Images /\ Missing \subseteq Nat
  /\ Positions \subseteq Nat

VARIABLES target,
          stage,          \* of a strip: "init" (before the first), "read", "convert", "encode"
          calls,          \* of invoke() begun
          held,           \* rows of the image that the file has
          filepos, expected_pos,
          wbufs,          \* the input buffers: for each row, where in the file it starts,
                          \* or Unwritten
          b,              \* the one the strip is read into
          buf_tmp,        \* rows on their way to a buffer with wider ones
          yuv1            \* the octets stored by the converter

stripVars == <<target, stage, calls, held, filepos, expected_pos, wbufs, b, buf_tmp, yuv1>>

Unwritten == 0
Blank == [i \in 0 .. BUFLINES - 1 |-> Unwritten]
input == wbufs[b]

in_width == img.width * img.ncomp
out_width == round_up(img.width, Most(DCTSIZE * H[img.ycc], img.vector)) * img.ncomp

SInit ==
  /\ Init
  /\ target \in Targets
  /\ target = "scalar" <=> img.vector = 8
  \* Left out: the scalar subsample_core() takes GRAY2 for a format with chroma and
  \* writes components that ncomp_out = 1 leaves without buffers (color.cpp:1358).
  /\ target = "scalar" => img.ycc # "GRAY2" \/ img.ncomp = 1
  /\ stage = "init" /\ calls = 0
  /\ filepos = Origin /\ expected_pos = 0
  /\ held \in {img.height - n : n \in IF img \in Short THEN {m \in Missing : m < img.height} ELSE {0}}
  /\ wbufs = <<>> /\ b = 0 /\ buf_tmp = Blank
  /\ yuv1 = [luma |-> {}, chroma |-> {}]

SConstruct ==
  /\ Construct
  /\ wbufs' = [n \in 0 .. num_workers' - 1 |-> Blank]
  /\ UNCHANGED <<target, stage, calls, held, filepos, expected_pos, b, buf_tmp, yuv1>>

SCreateHeader == CreateHeader /\ calls' = 1
                 /\ UNCHANGED <<target, stage, held, filepos, expected_pos, wbufs, b, buf_tmp, yuv1>>

\* imchunk::init().
ImageInit_noSeek ==   \* mutant: trusts that the file is where the reader left it
  /\ pc = "strip" /\ stage = "init"
  /\ expected_pos' = Origin
  /\ stage' = "read"
  /\ UNCHANGED <<vars, target, calls, held, filepos, wbufs, b, buf_tmp, yuv1>>

ImageInit ==
  /\ pc = "strip" /\ stage = "init"
  /\ filepos' = Origin
  /\ expected_pos' = Origin
  /\ stage' = "read"
  /\ UNCHANGED <<vars, target, calls, held, wbufs, b, buf_tmp, yuv1>>

\* Rows of the strip from line n on that the image has.
num_rows(n) == IF n + BUFLINES > img.height THEN img.height % BUFLINES ELSE BUFLINES

\* fread(): the rows of `old` replaced by those from place `from` on, as far as the
\* file goes; the rest of the memory stays as it is.
RowsLeft(from) == Most(0, Origin + held * in_width - from) \div in_width
fread(old, from, rows) ==
  [i \in 0 .. BUFLINES - 1 |-> IF i < Least(rows, RowsLeft(from)) THEN from + i * in_width ELSE old[i]]

\* Lines from n on, into buffer `into`; its last row is copied to its end when the
\* image ends mid-strip.
get_lines_from(n, into) ==
  LET want == Origin + n * in_width
      rows == num_rows(n)
      from == IF want # expected_pos THEN want ELSE filepos
      direct == in_width = out_width
      sp == fread(IF direct THEN wbufs[into] ELSE buf_tmp, from, rows)
  IN /\ wbufs' = [wbufs EXCEPT ![into] = [i \in 0 .. BUFLINES - 1 |-> sp[Least(i, rows - 1)]]]
     /\ buf_tmp' = IF direct THEN buf_tmp ELSE sp
     /\ filepos' = from + Least(rows, RowsLeft(from)) * in_width
     /\ expected_pos' = want + rows * in_width

\* Which buffer is free depends on the order in which tasks end (Encoder): any may be.
\* Every row is written when the file is whole, and then it makes no difference.
ReadStrip ==
  /\ pc = "strip" /\ stage = "read"
  /\ b' \in IF held = img.height THEN {0} ELSE 0 .. num_workers - 1
  /\ get_lines_from(s * BUFLINES, b')
  /\ stage' = "convert"
  /\ UNCHANGED <<vars, target, calls, held, yuv1>>

\* The sample of a row that sample x of the padded row shows.  The loop writes three
\* samples at every ncomp-th place past the row; the last to write one decides.
PadRow_first(x) ==   \* mutant: replicates the pixel before the last
  IF x < in_width THEN x
    ELSE LET j == img.ncomp * ((x - in_width) \div img.ncomp) IN (x - (in_width + j)) + in_width - 6

PadRow(x) ==
  IF x < in_width THEN x
    ELSE LET j == img.ncomp * ((x - in_width) \div img.ncomp) IN (x - (in_width + j)) + in_width - 3

\* encode_strip(): the fused converters for three components, one pass for one.
Converted ==
  CASE target = "scalar" -> subsample_scalar(YCCtype, rounded_width, H[YCCtype], V[YCCtype])
    [] target = "vector" /\ img.ncomp = 3 -> rgb2ycbcr_subsample(YCCtype, rounded_width)
    [] target = "vector" /\ img.ncomp = 1 -> subsample(YCCtype, rounded_width)

ConvertStrip ==
  /\ pc = "strip" /\ stage = "convert"
  /\ yuv1' = Converted
  /\ stage' = "encode"
  /\ UNCHANGED <<vars, target, calls, held, filepos, expected_pos, wbufs, b, buf_tmp>>

SEncodeStrip ==
  /\ stage = "encode"
  /\ EncodeStrip
  /\ stage' = IF pc' = "strip" THEN "read" ELSE "init"
  /\ UNCHANGED <<target, calls, held, filepos, expected_pos, wbufs, b, buf_tmp, yuv1>>

\* invoke() once more; the caller has used the file meanwhile.
InvokeAgain ==
  /\ pc = "done" /\ calls < MaxCalls
  /\ calls' = calls + 1
  /\ pc' = "strip" /\ s' = 0 /\ coded' = 0 /\ restarts' = {}
  /\ filepos' \in Positions
  /\ UNCHANGED <<img, YCCtype, rounded_width, rounded_height, num_strips, num_workers, interval,
                 target, stage, held, expected_pos, wbufs, b, buf_tmp, yuv1>>

SDone == Done /\ calls = MaxCalls /\ UNCHANGED stripVars

SNext == SConstruct \/ SCreateHeader \/ ImageInit \/ ReadStrip \/ ConvertStrip \/ SEncodeStrip
         \/ InvokeAgain \/ SDone

StripSpec == SInit /\ [][SNext]_<<vars, stripVars>>

-----------------------------------------------------------------------------
(* Properties. *)

\* The types of the variables, Geometry's included.
STypeOK ==
  /\ TypeOK
  /\ target \in Targets
  /\ stage \in {"init", "read", "convert", "encode"} /\ calls \in 0 .. MaxCalls
  /\ held \in 1 .. img.height /\ filepos \in Nat /\ expected_pos \in Nat
  /\ DOMAIN wbufs = (IF pc = "construct" THEN {} ELSE 0 .. num_workers - 1)
  /\ b \in {0} \cup DOMAIN wbufs
  /\ \A rows \in {buf_tmp} \cup {wbufs[n] : n \in DOMAIN wbufs} : rows \in [0 .. BUFLINES - 1 -> Nat]
  /\ \A o \in yuv1.luma \cup yuv1.chroma :
       o.at \in Nat /\ o.x \in 0 .. rounded_width - 1 /\ o.y \in 0 .. BUFLINES - 1

\* The line of the image that row i of the strip must show.
Line(i) == Least(s * BUFLINES + i, img.height - 1)

\* Where sample x of row i of the strip must come from: the image, its last column
\* and its last row repeated.
LastPixel(x) == IF x < in_width THEN x ELSE (in_width - img.ncomp) + ((x - in_width) % img.ncomp)
Source(i, x) == Origin + Line(i) * in_width + LastPixel(x)

\* The rows the converter sees are the rows of this strip, and the last row again
\* below the image (image_chunk.hpp:43-46), whatever the reader's idea of where the
\* file stands (image_chunk.hpp:52).  A file that ends early spoils the rows it lacks
\* (image_chunk.hpp:57), but no other row, of this call or of the next.
StripHoldsItsRows ==
  stage = "convert" => \A i \in 0 .. BUFLINES - 1 : Line(i) < held => input[i] = Source(i, 0)

\* Right of the image every row repeats its last pixel (image_chunk.hpp:44).
RowsPadded ==
  stage = "convert" /\ Line(0) < held =>
    \A x \in 0 .. out_width - 1 : input[0] + PadRow(x) = Source(0, x)

\* The octets a decoder expects from the MCUs coded of one strip: MCU m is the m-th
\* of its row of MCUs; its luma blocks from left to right and from top to bottom.
PerRow == rounded_width \div (DCTSIZE * H[YCCtype])
LumaOctets ==
  {Octet(64 * (m * MCUSkip + v * H[YCCtype] + h) + 8 * r,
         ((m \div PerRow) * V[YCCtype] + v) * 8 + r, ((m % PerRow) * H[YCCtype] + h) * 8, 1, 8) :
     m \in 0 .. CodedMCUs - 1, v \in 0 .. V[YCCtype] - 1, h \in 0 .. H[YCCtype] - 1, r \in 0 .. 7}
ChromaOctets ==
  {Octet(64 * m + 8 * r, ((m \div PerRow) * 8 + r) * V[YCCtype], (m % PerRow) * 8 * H[YCCtype],
         V[YCCtype], 8 * H[YCCtype]) : m \in 0 .. CodedMCUs - 1, r \in 0 .. 7}

\* Every block encode_mcus() takes (block_coding.cpp:90-126) holds the pixels of its
\* place in the strip, chroma samples the mean of the pixels they stand for.
MCUsInPlace ==
  stage = "encode" =>
    /\ {o \in yuv1.luma : o.at < 64 * CodedMCUs * MCUSkip} = LumaOctets
    /\ YCCtype \notin {"GRAY", "GRAY2"} =>
         {o \in yuv1.chroma : o.at < 64 * CodedMCUs} = ChromaOctets

\* The fused converters store what the two passes they replaced stored ("mirror the
\* matching case in subsample_core() exactly", color.cpp:680-681).
FusedMirrorsTwoPass ==
  stage = "encode" /\ target = "vector" /\ img.ncomp = 3 => yuv1 = subsample(YCCtype, rounded_width)
=============================================================================
