-------------------------- MODULE StripPathProofs ---------------------------
(***************************************************************************)
(* For every image and every file, whole or not, whatever the caller does  *)
(* with the file between two calls: the rows a strip is converted from are *)
(* its own, as far as the file has them; what is coded of it stays within  *)
(* the buffers and in step with the decoder; and every block coded holds   *)
(* the pixels of its place.                                                *)
(***************************************************************************)
EXTENDS StripPath, FiniteSetTheorems, TLAPS

-----------------------------------------------------------------------------
(* Arithmetic. *)

\* A whole number of rows divides into rows.
LEMMA WholeRows ==
  ASSUME NEW w \in Nat \ {0}, NEW k \in Int
  PROVE  (k * w) \div w = k
  OBVIOUS

\* From row m of the h the file has, h - m are left.
LEMMA RowsBehind ==
  ASSUME NEW w \in Nat \ {0}, NEW h \in Nat, NEW m \in 0 .. h
  PROVE  Most(0, Origin + h * w - (Origin + m * w)) \div w = h - m
  <1> DEFINE k == h - m
  <1>1. k \in Nat /\ k * w \in Nat  OBVIOUS
  <1>2. Origin + h * w - (Origin + m * w) = k * w  BY DEF Origin
  <1> HIDE DEF k
  <1>3. Most(0, Origin + h * w - (Origin + m * w)) = k * w  BY <1>1, <1>2 DEF Most
  <1>4. (k * w) \div w = k  BY <1>1, WholeRows
  <1> QED  BY <1>3, <1>4 DEF k

\* Rounding the height up for the format does not change the number of strips.
LEMMA StripsOfHeight ==
  ASSUME NEW h \in Nat \ {0}, NEW v \in {1, 2}
  PROVE  CeilDiv(round_up(h, DCTSIZE * v), BUFLINES) = CeilDiv(h, BUFLINES)
  <1>1. CASE v = 1  BY <1>1 DEF CeilDiv, round_up, DCTSIZE, BUFLINES
  <1>2. CASE v = 2  BY <1>2 DEF CeilDiv, round_up, DCTSIZE, BUFLINES
  <1> QED  BY <1>1, <1>2

\* A strip that is counted starts in the image, and all but the last end in it.
LEMMA StripInImage ==
  ASSUME NEW h \in Nat \ {0}, NEW n \in Nat, n < CeilDiv(h, BUFLINES)
  PROVE  /\ n * BUFLINES < h
         /\ n + 1 < CeilDiv(h, BUFLINES) => (n + 1) * BUFLINES < h
         /\ n * BUFLINES + BUFLINES > h => h % BUFLINES = h - n * BUFLINES
  BY DEF CeilDiv, BUFLINES

-----------------------------------------------------------------------------
(* The invariant. *)

\* How many rows of strip n are in the image.
Rows(n) == Least(BUFLINES, img.height - n * BUFLINES)

\* The reader stands before line n, or at the end of a file that is shorter.
AtLine(n) ==
  /\ expected_pos = Origin + n * in_width
  /\ filepos = Origin + Least(n, held) * in_width

Counted ==
  /\ img \in Images /\ held \in 1 .. img.height
  /\ s \in Nat /\ num_workers \in Nat
  /\ pc # "construct" =>
       /\ num_strips = CeilDiv(img.height, BUFLINES)
       /\ num_workers >= 1 /\ DOMAIN wbufs = 0 .. num_workers - 1
  /\ pc = "strip" => s < num_strips

Placed ==
  /\ pc \in {"construct", "header", "strip", "done"}
  /\ stage \in {"init", "read", "convert", "encode"}
  /\ stage # "init" => pc = "strip"
  /\ stage = "init" /\ pc \in {"construct", "header", "strip"} => s = 0
  /\ stage = "read" => AtLine(s * BUFLINES)
  /\ stage \in {"convert", "encode"} => AtLine(s * BUFLINES + Rows(s))

RowsInv == Counted /\ Placed /\ StripHoldsItsRows

\* What an image of the model is: positive sizes, and a known layout.
LEMMA ImageTyped ==
  ASSUME img \in Images
  PROVE  /\ img.width \in Nat \ {0} /\ img.height \in Nat \ {0} /\ img.ncomp \in {1, 3} /\ img.ycc \in YCC
         /\ img.threads \in Int /\ img.cores \in Nat
         /\ V[img.ycc] \in {1, 2}
         /\ in_width \in Nat \ {0}
  <1>1. img \in Image  BY ImagesAssumption
  <1>2. /\ img.width \in Nat \ {0} /\ img.height \in Nat \ {0} /\ img.ncomp \in {1, 3} /\ img.ycc \in YCC
        /\ img.threads \in Int /\ img.cores \in Nat
    BY <1>1 DEF Image
  <1>3. V[img.ycc] \in {1, 2}  BY <1>2 DEF V
  <1>4. in_width \in Nat \ {0}  BY <1>2 DEF in_width
  <1> QED  BY <1>2, <1>3, <1>4

\* The reader starts at no row.
LEMMA RowsInit == SInit => RowsInv
  <1> SUFFICES ASSUME SInit PROVE RowsInv  OBVIOUS
  <1> USE DEF SInit, Init
  <1>1. img \in Images  OBVIOUS
  <1>2. img.height \in Nat \ {0}  BY <1>1, ImageTyped
  <1>3. held \in 1 .. img.height  BY <1>2, StripPathAssumption
  <1> QED  BY <1>1, <1>3 DEF RowsInv, Counted, Placed, StripHoldsItsRows

\* The encoder object is made: the row invariant is kept.
LEMMA StepConstruct ==
  ASSUME RowsInv, SConstruct
  PROVE  RowsInv'
  <1>1. img \in Images /\ held \in 1 .. img.height /\ s \in Nat /\ img' = img /\ held' = held /\ s' = s
    BY DEF RowsInv, Counted, SConstruct, Construct
  <1>2. img.height \in Nat \ {0} /\ V[img.ycc] \in {1, 2}  BY <1>1, ImageTyped
  <1>3. num_strips' = CeilDiv(img'.height, BUFLINES)
    BY <1>1, <1>2, StripsOfHeight DEF SConstruct, Construct
  <1>4. num_strips' \in Nat  BY <1>1, <1>2, <1>3 DEF CeilDiv, BUFLINES
  <1>5. num_workers' \in Nat /\ num_workers' >= 1
    BY <1>1, <1>4, ImageTyped DEF SConstruct, Construct, pick_num_workers, Most, Least
  <1>6. pc' = "header" /\ stage' = stage /\ pc = "construct" /\ DOMAIN wbufs' = 0 .. num_workers' - 1
    BY DEF SConstruct, Construct
  <1>7. Counted'  BY <1>1, <1>3, <1>5, <1>6 DEF Counted
  <1>8. stage = "init" /\ s = 0  BY <1>6 DEF RowsInv, Placed
  <1> QED  BY <1>1, <1>6, <1>7, <1>8 DEF RowsInv, Placed, StripHoldsItsRows

\* The header is written: the row invariant is kept.
LEMMA StepHeader ==
  ASSUME RowsInv, SCreateHeader
  PROVE  RowsInv'
  <1> USE DEF SCreateHeader, CreateHeader
  <1>1. pc = "header" /\ pc' = "strip" /\ stage' = stage /\ img' = img /\ held' = held /\ s' = s
        /\ num_strips' = num_strips /\ num_workers' = num_workers /\ wbufs' = wbufs
    OBVIOUS
  <1>2. stage = "init" /\ s = 0  BY <1>1 DEF RowsInv, Placed
  <1>3. img.height \in Nat \ {0}  BY ImageTyped DEF RowsInv, Counted
  <1>4. num_strips = CeilDiv(img.height, BUFLINES)  BY <1>1 DEF RowsInv, Counted
  <1>5. 0 < num_strips  BY <1>3, <1>4 DEF CeilDiv, BUFLINES
  <1>6. Counted'  BY <1>1, <1>2, <1>5 DEF RowsInv, Counted
  <1> QED  BY <1>1, <1>2, <1>6 DEF RowsInv, Placed, StripHoldsItsRows

\* The reader goes back to the first pixel: the row invariant is kept.
LEMMA StepInit ==
  ASSUME RowsInv, ImageInit
  PROVE  RowsInv'
  <1>1. pc = "strip" /\ stage = "init" /\ s = 0  BY DEF RowsInv, Placed, ImageInit
  <1>2. pc' = "strip" /\ stage' = "read" /\ s' = 0 /\ filepos' = Origin /\ expected_pos' = Origin
        /\ img' = img /\ held' = held
    BY <1>1 DEF ImageInit, vars
  <1>3. in_width \in Nat \ {0} /\ img.height \in Nat \ {0} /\ in_width' = in_width
    BY <1>2, ImageTyped DEF RowsInv, Counted, in_width
  <1>4. held \in Nat /\ held >= 1  BY <1>3 DEF RowsInv, Counted
  <1>5. AtLine(s * BUFLINES)'  BY <1>2, <1>3, <1>4 DEF AtLine, Least, Origin, BUFLINES
  <1>6. Counted'  BY <1>1, <1>2 DEF RowsInv, Counted, ImageInit, vars
  <1> QED  BY <1>2, <1>5, <1>6 DEF RowsInv, Placed, StripHoldsItsRows

\* A strip is read, repeating the last row the file holds: the row invariant is
\* kept.
LEMMA StepRead ==
  ASSUME RowsInv, ReadStrip
  PROVE  RowsInv'
  <1> DEFINE w == in_width
             n == s * BUFLINES
             rows == num_rows(n)
             m == Least(n, held)
             from == Origin + m * w
             direct == in_width = out_width
             sp == fread(IF direct THEN wbufs[b'] ELSE buf_tmp, from, rows)
  <1>1. /\ pc = "strip" /\ stage = "read" /\ s \in Nat /\ held \in 1 .. img.height
        /\ img \in Images /\ s < num_strips /\ num_strips = CeilDiv(img.height, BUFLINES)
        /\ num_workers \in Nat /\ num_workers >= 1 /\ DOMAIN wbufs = 0 .. num_workers - 1
        /\ AtLine(n)
    BY DEF RowsInv, Counted, Placed, ReadStrip
  <1>2. /\ pc' = pc /\ s' = s /\ img' = img /\ held' = held /\ stage' = "convert"
        /\ num_strips' = num_strips /\ num_workers' = num_workers
    BY DEF ReadStrip, vars
  <1>3. b' \in 0 .. num_workers - 1 /\ get_lines_from(n, b')
    <2>1. 0 \in 0 .. num_workers - 1  BY <1>1
    <2>2. b' \in IF held = img.height THEN {0} ELSE 0 .. num_workers - 1  BY DEF ReadStrip
    <2>3. get_lines_from(n, b')  BY DEF ReadStrip
    <2> QED  BY <2>1, <2>2, <2>3
  <1>4. w \in Nat \ {0} /\ img.height \in Nat \ {0}  BY <1>1, ImageTyped
  <1>5. n \in Nat /\ n < img.height  BY <1>1, <1>4, StripInImage DEF BUFLINES
  <1>6. rows = Rows(s) /\ rows \in 1 .. BUFLINES /\ n + rows <= img.height
    <2> DEFINE h == img.height
    <2>1. n + BUFLINES > h => h % BUFLINES = h - n  BY <1>1, <1>4, StripInImage
    <2>2. rows = IF n + BUFLINES > h THEN h % BUFLINES ELSE BUFLINES  BY DEF num_rows
    <2>3. Rows(s) = Least(BUFLINES, h - n)  BY DEF Rows
    <2>4. h \in Nat  BY <1>4
    <2> HIDE DEF h, n, rows
    <2>5. rows = IF n + BUFLINES > h THEN h - n ELSE BUFLINES  BY <2>1, <2>2
    <2> QED  BY <1>5, <2>3, <2>4, <2>5 DEF Least, BUFLINES, h
  <1>7. held \in Nat /\ m \in 0 .. held /\ (n < held => m = n) /\ (held <= n => m = held)
    BY <1>1, <1>4, <1>5 DEF Least
  <1>8. expected_pos = Origin + n * w /\ filepos = from  BY <1>1 DEF AtLine
  <1>9. RowsLeft(from) = held - m  BY <1>4, <1>7, RowsBehind DEF RowsLeft
  <1>10. /\ wbufs' = [wbufs EXCEPT ![b'] = [i \in 0 .. BUFLINES - 1 |-> sp[Least(i, rows - 1)]]]
         /\ filepos' = from + Least(rows, held - m) * w
         /\ expected_pos' = Origin + n * w + rows * w
    BY <1>3, <1>8, <1>9 DEF get_lines_from
  <1>11. in_width' = w  BY <1>2 DEF in_width
  <1> HIDE DEF w, n, rows, m
  <1>12. AtLine(n + rows)'
    <2> DEFINE r == Least(rows, held - m)
    <2>1. r \in Int /\ m + r = Least(n + rows, held)  BY <1>5, <1>6, <1>7 DEF Least, BUFLINES
    <2>2. Origin + n * w + rows * w = Origin + (n + rows) * w  BY <1>4, <1>5, <1>6 DEF Origin, BUFLINES
    <2> HIDE DEF r
    <2>3. Origin + m * w + r * w = Origin + (m + r) * w  BY <1>4, <1>7, <2>1 DEF Origin
    <2>4. filepos' = Origin + (m + r) * w  BY <1>10, <2>3 DEF r
    <2>5. (n + rows)' = n + rows  BY <1>2, <1>6 DEF n, rows, num_rows
    <2> QED  BY <1>2, <1>10, <1>11, <2>1, <2>2, <2>4, <2>5 DEF AtLine
  <1>13. ASSUME NEW i \in 0 .. BUFLINES - 1, Line(i)' < held'
         PROVE  input'[i] = Source(i, 0)'
    <2> DEFINE k == Least(i, rows - 1)
    <2>1. Line(i)' = Line(i)  BY <1>2 DEF Line
    <2>2. Line(i) < held  BY <1>2, <1>13, <2>1
    <2>3. k \in 0 .. BUFLINES - 1 /\ k < rows /\ Line(i) = n + k
      <3>1. rows = Least(BUFLINES, img.height - n)  BY <1>6 DEF Rows, n
      <3>2. Line(i) = Least(n + i, img.height - 1)  BY DEF Line, n
      <3> QED  BY <1>4, <1>5, <1>6, <3>1, <3>2 DEF Least, BUFLINES
    <2>4. m = n /\ k < held - m  BY <1>5, <1>7, <2>2, <2>3 DEF BUFLINES
    <2> HIDE DEF k
    <2>5. k < Least(rows, held - m)  BY <2>3, <2>4 DEF Least
    <2>6. sp[k] = from + k * w  BY <1>9, <2>3, <2>5 DEF fread, w
    <2>7. from + k * w = Origin + (n + k) * w  BY <1>4, <1>5, <2>3, <2>4 DEF Origin, BUFLINES
    <2>8. input'[i] = sp[k]  BY <1>1, <1>3, <1>10 DEF input, k
    <2>9. LastPixel(0)' = 0  BY <1>4, <1>11 DEF LastPixel
    <2>10. Source(i, 0)' = Origin + Line(i) * w + 0  BY <1>11, <2>1, <2>9 DEF Source
    <2>11. Line(i) * w \in Int  BY <1>4, <1>5, <2>3 DEF BUFLINES
    <2> QED  BY <2>3, <2>6, <2>7, <2>8, <2>10, <2>11 DEF Origin
  <1>14. StripHoldsItsRows'  BY <1>13 DEF StripHoldsItsRows
  <1>15. Counted'  BY <1>1, <1>2, <1>10 DEF RowsInv, Counted
  <1>16. AtLine(s * BUFLINES + Rows(s))'
    <2>1. (n + rows)' = (s * BUFLINES + Rows(s))'  BY <1>2, <1>6 DEF n, rows, num_rows, Rows
    <2> QED  BY <1>12, <2>1 DEF AtLine
  <1> QED  BY <1>1, <1>2, <1>14, <1>15, <1>16 DEF RowsInv, Placed

\* A strip is converted: the row invariant is kept.
LEMMA StepConvert ==
  ASSUME RowsInv, ConvertStrip
  PROVE  RowsInv'
  <1>1. /\ pc = "strip" /\ stage = "convert" /\ stage' = "encode"
        /\ pc' = pc /\ s' = s /\ img' = img /\ held' = held
        /\ num_strips' = num_strips /\ num_workers' = num_workers /\ wbufs' = wbufs
        /\ expected_pos' = expected_pos /\ filepos' = filepos
    BY DEF ConvertStrip, vars
  <1>2. AtLine(s * BUFLINES + Rows(s))  BY <1>1 DEF RowsInv, Placed
  <1>3. AtLine(s * BUFLINES + Rows(s))'  BY <1>1, <1>2 DEF AtLine, Rows, in_width
  <1>4. Counted'  BY <1>1 DEF RowsInv, Counted
  <1> QED  BY <1>1, <1>3, <1>4 DEF RowsInv, Placed, StripHoldsItsRows

\* A strip is encoded, and the next one is due: the row invariant is kept.
LEMMA StepEncode ==
  ASSUME RowsInv, SEncodeStrip
  PROVE  RowsInv'
  <1>1. /\ pc = "strip" /\ stage = "encode" /\ s' = s + 1 /\ img' = img /\ held' = held
        /\ num_strips' = num_strips /\ num_workers' = num_workers /\ wbufs' = wbufs
        /\ expected_pos' = expected_pos /\ filepos' = filepos
        /\ pc' = IF s + 1 < num_strips THEN "strip" ELSE "done"
        /\ stage' = IF pc' = "strip" THEN "read" ELSE "init"
    BY DEF SEncodeStrip, EncodeStrip
  <1>2. /\ s \in Nat /\ s < num_strips /\ num_strips = CeilDiv(img.height, BUFLINES)
        /\ img.height \in Nat \ {0}
        /\ AtLine(s * BUFLINES + Rows(s))
    BY <1>1, ImageTyped DEF RowsInv, Counted, Placed
  <1>3. Counted'  BY <1>1, <1>2 DEF RowsInv, Counted
  <1>4. ASSUME s + 1 < num_strips  PROVE AtLine(s * BUFLINES)'
    <2>1. (s + 1) * BUFLINES < img.height  BY <1>2, <1>4, StripInImage
    <2>2. s * BUFLINES + Rows(s) = s' * BUFLINES  BY <1>1, <1>2, <2>1 DEF Rows, Least, BUFLINES
    <2>3. AtLine(s' * BUFLINES)  BY <1>2, <2>2
    <2> QED  BY <1>1, <2>3 DEF AtLine, in_width
  <1> QED  BY <1>1, <1>3, <1>4 DEF RowsInv, Placed, StripHoldsItsRows

\* The object is called again: the row invariant is kept.
LEMMA StepAgain ==
  ASSUME RowsInv, InvokeAgain
  PROVE  RowsInv'
  <1>1. /\ pc = "done" /\ pc' = "strip" /\ s' = 0 /\ stage' = stage /\ img' = img /\ held' = held
        /\ num_strips' = num_strips /\ num_workers' = num_workers /\ wbufs' = wbufs
    BY DEF InvokeAgain
  <1>2. stage = "init"  BY <1>1 DEF RowsInv, Placed
  <1>3. img.height \in Nat \ {0} /\ num_strips = CeilDiv(img.height, BUFLINES)
    BY <1>1, ImageTyped DEF RowsInv, Counted
  <1>4. 0 < num_strips  BY <1>3 DEF CeilDiv, BUFLINES
  <1>5. Counted'  BY <1>1, <1>4 DEF RowsInv, Counted
  <1> QED  BY <1>1, <1>2, <1>5 DEF RowsInv, Placed, StripHoldsItsRows

\* Nothing the row invariant reads changes.
LEMMA StepStutter ==
  ASSUME RowsInv, UNCHANGED <<vars, stripVars>>
  PROVE  RowsInv'
  BY DEF RowsInv, Counted, Placed, StripHoldsItsRows, AtLine, Rows, in_width, Line, Source, LastPixel,
         input, vars, stripVars

\* Every step keeps the row invariant.
LEMMA RowsStep == RowsInv /\ [SNext]_<<vars, stripVars>> => RowsInv'
  <1> SUFFICES ASSUME RowsInv, [SNext]_<<vars, stripVars>>  PROVE RowsInv'  OBVIOUS
  <1>1. CASE SConstruct  BY <1>1, StepConstruct
  <1>2. CASE SCreateHeader  BY <1>2, StepHeader
  <1>3. CASE ImageInit  BY <1>3, StepInit
  <1>4. CASE ReadStrip  BY <1>4, StepRead
  <1>5. CASE ConvertStrip  BY <1>5, StepConvert
  <1>6. CASE SEncodeStrip  BY <1>6, StepEncode
  <1>7. CASE InvokeAgain  BY <1>7, StepAgain
  <1>8. CASE SDone  BY <1>8, StepStutter DEF SDone, Done
  <1>9. CASE UNCHANGED <<vars, stripVars>>  BY <1>9, StepStutter
  <1> QED  BY <1>1, <1>2, <1>3, <1>4, <1>5, <1>6, <1>7, <1>8, <1>9 DEF SNext

\* Whatever strip is converted, of the first call or a later one, the rows in its buffer
\* are its own, and the image's last row again below the image, for every height, width,
\* number of buffers and place the caller may have left the file at; in a file that ends
\* early, the rows that are there (image_chunk.hpp:37-82).
THEOREM StripsHoldTheirRows == StripSpec => []StripHoldsItsRows
  <1>1. SInit => RowsInv  BY RowsInit
  <1>2. RowsInv /\ [SNext]_<<vars, stripVars>> => RowsInv'  BY RowsStep
  <1>3. RowsInv => StripHoldsItsRows  BY DEF RowsInv
  <1> QED  BY <1>1, <1>2, <1>3, PTL DEF StripSpec

-----------------------------------------------------------------------------
(* The padding. *)

\* The images whose padding the code gets right: those of three components, and
\* those that need none.
PaddingRight ==
  \A im \in Images :
    im.ncomp = 3 \/ round_up(im.width, Most(DCTSIZE * H[im.ycc], im.vector)) = im.width

\* The loop's copies of three samples are copies of the last pixel.
LEMMA PaddedPixel ==
  ASSUME img \in Images, PaddingRight, NEW x \in 0 .. out_width - 1
  PROVE  PadRow(x) = LastPixel(x)
  <1>1. in_width \in Nat \ {0} /\ img.ncomp \in {1, 3} /\ img.width \in Nat \ {0}  BY ImageTyped
  <1>2. CASE x < in_width  BY <1>2 DEF PadRow, LastPixel
  <1>3. CASE img.ncomp = 3 /\ ~(x < in_width)
    <2>1. out_width \in Int
      <3>1. img \in Image  BY ImagesAssumption
      <3>2. Most(DCTSIZE * H[img.ycc], img.vector) \in {8, 16, 32, 64}
        BY <3>1 DEF Image, Most, DCTSIZE, H
      <3> QED  BY <1>1, <1>3, <3>2 DEF out_width, round_up, CeilDiv
    <2>2. x \in Int /\ x - in_width \in Nat  BY <1>1, <1>3, <2>1
    <2> DEFINE d == x - in_width
    <2>3. 3 * (d \div 3) + (d % 3) = d  BY <2>2
    <2>4. PadRow(x) = (x - (in_width + 3 * (d \div 3))) + in_width - 3  BY <1>3 DEF PadRow
    <2>5. LastPixel(x) = (in_width - 3) + (d % 3)  BY <1>3 DEF LastPixel
    <2> QED  BY <1>1, <2>2, <2>3, <2>4, <2>5
  <1>4. CASE img.ncomp # 3
    <2>1. out_width = in_width  BY <1>4 DEF PaddingRight, out_width, in_width
    <2> QED  BY <1>1, <1>2, <2>1
  <1> QED  BY <1>2, <1>3, <1>4

\* Right of the image every row repeats its last pixel, for every image of three
\* components; for one component, as long as nothing is padded (image_chunk.hpp:61-71).
THEOREM RowsArePadded ==
  ASSUME PaddingRight
  PROVE  StripSpec => []RowsPadded
  <1>1. SInit => RowsInv  BY RowsInit
  <1>2. RowsInv /\ [SNext]_<<vars, stripVars>> => RowsInv'  BY RowsStep
  <1>3. RowsInv => RowsPadded
    <2> SUFFICES ASSUME RowsInv, stage = "convert", Line(0) < held, NEW x \in 0 .. out_width - 1
                 PROVE  input[0] + PadRow(x) = Source(0, x)
      BY DEF RowsPadded
    <2>1. img \in Images  BY DEF RowsInv, Counted
    <2>2. in_width \in Nat \ {0} /\ img.height \in Nat \ {0}  BY <2>1, ImageTyped
    <2>3. input[0] = Source(0, 0)  BY DEF RowsInv, StripHoldsItsRows, BUFLINES
    <2>4. LastPixel(0) = 0  BY <2>2 DEF LastPixel
    <2>5. Line(0) \in Int  BY <2>2 DEF Line, Least, BUFLINES, RowsInv, Counted
    <2>6. Line(0) * in_width \in Int  BY <2>2, <2>5
    <2>7. PadRow(x) = LastPixel(x)  BY <2>1, PaddedPixel
    <2>8. Source(0, 0) = Origin + Line(0) * in_width  BY <2>4, <2>6 DEF Source, Origin
    <2>9. Source(0, x) = Origin + Line(0) * in_width + LastPixel(x)  BY DEF Source
    <2> QED  BY <2>3, <2>7, <2>8, <2>9
  <1> QED  BY <1>1, <1>2, <1>3, PTL DEF StripSpec

-----------------------------------------------------------------------------
(* Geometry, for images of any size, any number of threads, cores and calls:   *)
(* what encode_mcus() codes stays within the buffers and, for the images whose *)
(* rounded size is the announced one, a decoder keeps up and finds the restart *)
(* markers where it looks for them.                                            *)

\* The format that is coded, the MCUs of a row, the MCU rows of a whole strip and
\* those of the image, as the header has them.
Coded == compute_ncomp_out(img.ncomp, img.ycc)
MCUWidth == DCTSIZE * H[Coded]
MCUHeight == DCTSIZE * V[Coded]
Across == CeilDiv(img.width, MCUWidth)
PerStrip == BUFLINES \div MCUHeight
Down == CeilDiv(img.height, MCUHeight)

\* At least one block covers a positive size.
LEMMA CeilDivPositive ==
  ASSUME NEW x \in Nat \ {0}, NEW n \in {8, 16, 32, 64}
  PROVE  CeilDiv(x, n) \in Nat \ {0}
  <1>1. CASE n = 8  BY <1>1 DEF CeilDiv
  <1>2. CASE n = 16  BY <1>2 DEF CeilDiv
  <1>3. CASE n = 32  BY <1>3 DEF CeilDiv
  <1>4. CASE n = 64  BY <1>4 DEF CeilDiv
  <1> QED  BY <1>1, <1>2, <1>3, <1>4

\* The layout coded is a known one, and no finer than the one asked for.
LEMMA CodedTyped ==
  ASSUME img \in Images
  PROVE  /\ Coded \in YCC /\ H[Coded] \in {1, 2, 4} /\ V[Coded] \in {1, 2}
         /\ H[img.ycc] \in {1, 2, 4} /\ V[img.ycc] \in {1, 2}
         /\ V[Coded] = 2 => V[img.ycc] = 2
         /\ H[Coded] <= H[img.ycc] /\ img.vector \in {8, 16, 32, 64}
         /\ Coded \in {"GRAY", "GRAY2"} => H[Coded] = 1 /\ V[Coded] = 1
         /\ PerStrip \in {1, 2} /\ PerStrip * MCUHeight = BUFLINES
         /\ MCUWidth \in {8, 16, 32} /\ MCUHeight \in {8, 16}
         /\ Across \in Nat \ {0} /\ Down \in Nat \ {0}
  <1>1. img \in Image  BY ImagesAssumption
  <1>2. img.ycc \in YCC /\ img.vector \in {8, 16, 32, 64} /\ img.ncomp \in {1, 3}  BY <1>1 DEF Image
  <1>3. img.width \in Nat \ {0} /\ img.height \in Nat \ {0}  BY <1>1 DEF Image
  <1>4. Coded \in YCC /\ (Coded = img.ycc \/ Coded = "GRAY")  BY <1>2 DEF Coded, compute_ncomp_out, YCC
  <1>5. H[Coded] \in {1, 2, 4} /\ V[Coded] \in {1, 2} /\ H[img.ycc] \in {1, 2, 4} /\ V[img.ycc] \in {1, 2}
    BY <1>2, <1>4 DEF H, V
  <1>6. (Coded \in {"GRAY", "GRAY2"} => H[Coded] = 1 /\ V[Coded] = 1)
        /\ (V[Coded] = 2 => V[img.ycc] = 2) /\ H[Coded] <= H[img.ycc]
    BY <1>2, <1>4, <1>5 DEF H, V
  <1>7. MCUWidth \in {8, 16, 32} /\ MCUHeight \in {8, 16}  BY <1>5 DEF MCUWidth, MCUHeight, DCTSIZE
  <1>8. PerStrip \in {1, 2} /\ PerStrip * MCUHeight = BUFLINES  BY <1>7 DEF PerStrip, BUFLINES
  <1>9. Across \in Nat \ {0} /\ Down \in Nat \ {0}  BY <1>3, <1>7, CeilDivPositive DEF Across, Down
  <1> QED  BY <1>2, <1>4, <1>5, <1>6, <1>7, <1>8, <1>9

-----------------------------------------------------------------------------
(* What the constructor computed stays. *)

Sized ==
  /\ img \in Images
  /\ pc \in {"construct", "header", "strip", "done"}
  /\ pc # "construct" =>
       /\ YCCtype = Coded
       /\ rounded_width = round_up(img.width, Most(DCTSIZE * H[img.ycc], img.vector))
       /\ rounded_height = round_up(img.height, DCTSIZE * V[img.ycc])
       /\ num_strips = CeilDiv(img.height, BUFLINES)
       /\ num_workers \in 1 .. num_strips
  /\ s \in Nat /\ (pc = "strip" => s < num_strips)
  /\ pc \in {"construct", "header"} => s = 0 /\ coded = 0 /\ restarts = {}
  /\ pc = "done" => s = num_strips

\* The sizes are consistent at the start.
LEMMA SizedInit == SInit => Sized
  BY DEF SInit, Init, Sized

\* A step is one of Geometry's, a new call, or leaves Geometry's variables alone.
LEMMA GeometrySteps ==
  ASSUME [SNext]_<<vars, stripVars>>
  PROVE  Construct \/ CreateHeader \/ EncodeStrip \/ InvokeAgain \/ UNCHANGED vars
  <1>1. CASE SConstruct  BY <1>1 DEF SConstruct
  <1>2. CASE SCreateHeader  BY <1>2 DEF SCreateHeader
  <1>3. CASE ImageInit  BY <1>3 DEF ImageInit
  <1>4. CASE ReadStrip  BY <1>4 DEF ReadStrip
  <1>5. CASE ConvertStrip  BY <1>5 DEF ConvertStrip
  <1>6. CASE SEncodeStrip  BY <1>6 DEF SEncodeStrip
  <1>7. CASE InvokeAgain  BY <1>7
  <1>8. CASE SDone  BY <1>8 DEF SDone, Done
  <1>9. CASE UNCHANGED <<vars, stripVars>>  BY <1>9
  <1> QED  BY <1>1, <1>2, <1>3, <1>4, <1>5, <1>6, <1>7, <1>8, <1>9 DEF SNext

\* Every step keeps the sizes consistent with the image.
LEMMA SizedStep ==
  ASSUME Sized, [SNext]_<<vars, stripVars>>
  PROVE  Sized'
  <1>1. img \in Images /\ s \in Nat  BY DEF Sized
  <1>2. img.height \in Nat \ {0} /\ V[img.ycc] \in {1, 2} /\ img.threads \in Int /\ img.cores \in Nat
    BY <1>1, ImageTyped
  <1>3. CeilDiv(img.height, BUFLINES) \in Nat \ {0}  BY <1>2 DEF CeilDiv, BUFLINES
  <1>4. CASE Construct
    <2>1. num_strips' = CeilDiv(img.height, BUFLINES)  BY <1>2, <1>4, StripsOfHeight DEF Construct
    <2>2. num_workers' \in 1 .. num_strips'
      BY <1>2, <1>3, <1>4, <2>1 DEF Construct, pick_num_workers, Most, Least
    <2> QED  BY <1>4, <2>1, <2>2 DEF Sized, Construct, Coded
  <1>5. CASE CreateHeader  BY <1>3, <1>5 DEF Sized, CreateHeader, Coded
  <1>6. CASE EncodeStrip
    <2>1. s < num_strips /\ num_strips \in Nat  BY <1>3, <1>6 DEF Sized, EncodeStrip
    <2> QED  BY <1>1, <1>6, <2>1 DEF Sized, EncodeStrip, Coded
  <1>7. CASE InvokeAgain  BY <1>3, <1>7 DEF Sized, InvokeAgain, Coded
  <1>8. CASE UNCHANGED vars  BY <1>8 DEF Sized, vars, Coded
  <1> QED  BY <1>4, <1>5, <1>6, <1>7, <1>8, GeometrySteps

-----------------------------------------------------------------------------
(* One strip. *)

\* Rounding to a vector or an MCU of any width gives a whole number of MCUs and, in a
\* build with vectors, an even one of luma blocks.
LEMMA RoundedWidth ==
  ASSUME Sized, pc = "strip"
  PROVE  /\ img.vector # 8 => \E q \in Nat : rounded_width = 16 * q
         /\ \E q \in Nat \ {0} : rounded_width = MCUWidth * q
  <1> DEFINE n == Most(DCTSIZE * H[img.ycc], img.vector)
             q == CeilDiv(img.width, n)
  <1>1. img \in Images  BY DEF Sized
  <1>2. /\ H[img.ycc] \in {1, 2, 4} /\ H[Coded] \in {1, 2, 4} /\ H[Coded] <= H[img.ycc]
        /\ img.vector \in {8, 16, 32, 64} /\ img.width \in Nat \ {0}
    BY <1>1, CodedTyped, ImageTyped
  <1>3. n \in {8, 16, 32, 64} /\ DCTSIZE * H[img.ycc] <= n /\ img.vector <= n  BY <1>2 DEF Most, DCTSIZE
  <1>4. q \in Nat \ {0}  BY <1>2, <1>3, CeilDivPositive
  <1>5. rounded_width = n * q  BY DEF Sized, round_up
  <1>6. MCUWidth \in {8, 16, 32} /\ MCUWidth <= n  BY <1>2, <1>3 DEF MCUWidth, DCTSIZE
  <1> HIDE DEF n, q
  <1>7. ASSUME img.vector # 8  PROVE \E p \in Nat : rounded_width = 16 * p
    <2>1. n \in {16, 32, 64}  BY <1>2, <1>3, <1>7
    <2>2. \E k \in {1, 2, 4} : n = 16 * k  BY <2>1
    <2>3. PICK k \in {1, 2, 4} : n = 16 * k  BY <2>2
    <2>4. rounded_width = 16 * (k * q) /\ k * q \in Nat  BY <1>4, <1>5, <2>3
    <2> QED  BY <2>4
  <1>9. \E l \in {1, 2, 4, 8} : n = MCUWidth * l  BY <1>3, <1>6
  <1>10. PICK l \in {1, 2, 4, 8} : n = MCUWidth * l  BY <1>9
  <1>12. rounded_width = MCUWidth * (l * q) /\ l * q \in Nat \ {0}
    <2>1. (MCUWidth * l) * q = MCUWidth * (l * q)  BY <1>4, <1>6
    <2> QED  BY <1>4, <1>5, <1>10, <2>1
  <1> QED  BY <1>7, <1>12

\* The rows of a strip are whole MCU rows of the format that was asked for.
LEMMA RowsOfStrip ==
  ASSUME Sized, pc = "strip"
  PROVE  /\ MCURows \in {8, 16}
         /\ V[img.ycc] = 2 => MCURows = 16
  <1>1. img \in Images /\ s \in Nat /\ s < CeilDiv(img.height, BUFLINES)  BY DEF Sized
  <1>2. img.height \in Nat \ {0} /\ V[img.ycc] \in {1, 2}  BY <1>1, ImageTyped
  <1>3. s * 16 < img.height  BY <1>1, <1>2, StripInImage DEF BUFLINES
  <1>4. rounded_height = round_up(img.height, 8 * V[img.ycc])  BY DEF Sized, DCTSIZE
  <1>5. CASE V[img.ycc] = 1
    <2>1. rounded_height = 8 * ((img.height + 7) \div 8)  BY <1>2, <1>4, <1>5 DEF round_up, CeilDiv
    <2> QED  BY <1>1, <1>2, <1>3, <1>5, <2>1 DEF MCURows, Least, BUFLINES
  <1>6. CASE V[img.ycc] = 2
    <2>1. rounded_height = 16 * ((img.height + 15) \div 16)  BY <1>2, <1>4, <1>6 DEF round_up, CeilDiv
    <2> QED  BY <1>1, <1>2, <1>3, <1>6, <2>1 DEF MCURows, Least, BUFLINES
  <1> QED  BY <1>2, <1>5, <1>6

\* The blocks of a grayscale image are coded in pairs: of an odd row of them, alone in its
\* strip, one more is coded than it has.
OneMore(q, r) == Coded \in {"GRAY", "GRAY2"} /\ r = 1 /\ q % 2 = 1 /\ CodedMCUs = q + 1

\* A strip has the MCUs of its rows, each as wide as the rounded image.
LEMMA MCUsOfStrip ==
  ASSUME Sized, pc = "strip"
  PROVE  \E q \in Nat \ {0} : \E r \in {1, 2} :
           /\ rounded_width = MCUWidth * q
           /\ MCURows = MCUHeight * r
           /\ CodedMCUs = q * r \/ OneMore(q, r)
           /\ r <= PerStrip
  <1>1. img \in Images /\ YCCtype = Coded  BY DEF Sized
  <1>2. /\ Coded \in YCC /\ H[Coded] \in {1, 2, 4} /\ V[Coded] \in {1, 2}
        /\ V[Coded] = 2 => V[img.ycc] = 2
        /\ Coded \in {"GRAY", "GRAY2"} => H[Coded] = 1 /\ V[Coded] = 1
    BY <1>1, CodedTyped
  <1>3. MCURows \in {8, 16} /\ (V[Coded] = 2 => MCURows = 16)  BY <1>2, RowsOfStrip
  <1>5. PICK q \in Nat \ {0} : rounded_width = MCUWidth * q  BY RoundedWidth
  <1> DEFINE r == MCURows \div MCUHeight
             h == H[Coded]
             v == V[Coded]
  <1>6. MCUWidth = 8 * h /\ MCUHeight = 8 * v  BY DEF MCUWidth, MCUHeight, DCTSIZE
  <1>7. r \in {1, 2} /\ MCURows = 8 * v * r /\ r <= PerStrip
    <2>1. CASE v = 1
      <3>1. MCUHeight = 8 /\ PerStrip = 2  BY <1>6, <2>1 DEF PerStrip, BUFLINES
      <3>2. r = MCURows \div 8  BY <3>1
      <3> QED  BY <1>3, <2>1, <3>1, <3>2
    <2>2. CASE v = 2
      <3>1. MCUHeight = 16 /\ PerStrip = 1  BY <1>6, <2>2 DEF PerStrip, BUFLINES
      <3>2. r = MCURows \div 16  BY <3>1
      <3>3. MCURows = 16  BY <1>3, <2>2
      <3> QED  BY <2>2, <3>1, <3>2, <3>3
    <2> QED  BY <1>2, <2>1, <2>2
  <1>8. NumBlocks = (MCURows \div 8) * (rounded_width \div 8)  BY DEF NumBlocks, DCTSIZE
  <1>9. MCUSkip = h * v  BY <1>1 DEF MCUSkip
  <1> HIDE DEF r, h, v
  <1>10. MCURows \div 8 = v * r  BY <1>2, <1>3, <1>7 DEF v
  <1>11. rounded_width \div 8 = h * q  BY <1>2, <1>5, <1>6 DEF h
  <1>12. NumBlocks = (v * r) * (h * q)  BY <1>8, <1>10, <1>11
  <1>13. CodedMCUs = q * r \/ OneMore(q, r)
    <2>1. CASE Coded \in {"GRAY", "GRAY2"}
      <3>1. CodedMCUs = 2 * CeilDiv(NumBlocks, 2)  BY <1>1, <2>1 DEF CodedMCUs
      <3>2. NumBlocks = r * q  BY <1>2, <1>5, <1>6, <1>7, <1>12, <2>1 DEF h, v
      <3>3. CASE r = 1  BY <2>1, <3>1, <3>2, <3>3 DEF CeilDiv, OneMore
      <3>4. CASE r = 2  BY <3>1, <3>2, <3>4 DEF CeilDiv
      <3> QED  BY <1>7, <3>3, <3>4
    <2>2. CASE Coded \notin {"GRAY", "GRAY2"}
      <3>1. CodedMCUs = CeilDiv(NumBlocks, h * v)  BY <1>1, <1>9, <2>2 DEF CodedMCUs
      <3>2. h \in {1, 2, 4} /\ v \in {1, 2}  BY <1>2 DEF h, v
      <3>3. q * r \in Nat  BY <1>7
      <3>4. NumBlocks = (h * v) * (q * r)  BY <1>7, <1>12, <3>2
      <3> DEFINE a == q * r
                 d == h * v
      <3>5. d \in {1, 2, 4, 8} /\ a \in Nat  BY <3>2, <3>3
      <3> HIDE DEF a, d
      <3>6. CeilDiv(d * a, d) = a  BY <3>5 DEF CeilDiv
      <3> QED  BY <3>1, <3>4, <3>6 DEF a, d
    <2> QED  BY <2>1, <2>2
  <1> QED  BY <1>5, <1>6, <1>7, <1>13

\* What encode_mcus() reads of a strip's buffers.
LEMMA StripWithin ==
  ASSUME Sized, pc = "strip"
  PROVE  WithinBuffers
  <1> DEFINE h == H[Coded]
             v == V[Coded]
             n == CodedMCUs
  <1>1. img \in Images /\ YCCtype = Coded /\ num_workers \in 1 .. num_strips  BY DEF Sized
  <1>0. PICK q \in Nat \ {0}, r0 \in {1, 2} :
          rounded_width = MCUWidth * q /\ (n = q * r0 \/ OneMore(q, r0)) /\ r0 <= PerStrip
    BY MCUsOfStrip
  <1>3. h \in {1, 2, 4} /\ v \in {1, 2} /\ (Coded \in {"GRAY", "GRAY2"} => h = 1 /\ v = 1)
    BY <1>1, CodedTyped
  <1>2. \E r \in {1, 2} : n \in Nat /\ n <= q * r /\ r <= PerStrip
    <2>1. CASE n = q * r0  BY <1>0, <2>1
    <2>2. CASE OneMore(q, r0)
      <3>1. n = q + 1 /\ v = 1  BY <1>3, <2>2 DEF OneMore
      <3>2. PerStrip = 2 /\ n <= q * 2  BY <3>1 DEF PerStrip, MCUHeight, BUFLINES, DCTSIZE
      <3> QED  BY <3>1, <3>2
    <2> QED  BY <1>0, <2>1, <2>2
  <1>20. PICK r \in {1, 2} : n \in Nat /\ n <= q * r /\ r <= PerStrip  BY <1>2
  <1> DEFINE m == q * r
  <1>4. rounded_width = 8 * h * q /\ MCUSkip = h * v /\ r <= 16 \div (8 * v)
    BY <1>0, <1>1, <1>20 DEF MCUWidth, MCUHeight, MCUSkip, PerStrip, DCTSIZE, BUFLINES
  <1> HIDE DEF h, v, n
  <1>5. rounded_width \div h = 8 * q
    <2>1. CASE h = 1  BY <1>4, <2>1
    <2>2. CASE h = 2  BY <1>4, <2>2
    <2>3. CASE h = 4  BY <1>4, <2>3
    <2> QED  BY <1>3, <2>1, <2>2, <2>3
  <1>6. r * v <= 2 /\ r <= 16 \div v
    <2>1. CASE v = 1  BY <2>1
    <2>2. CASE v = 2  BY <1>4, <2>2
    <2> QED  BY <1>3, <2>1, <2>2
  <1>7. m * MCUSkip * 64 <= rounded_width * 16
    <2> DEFINE k == h * q
               j == r * v
    <2>1. k \in Nat /\ j \in Nat /\ j <= 2  BY <1>3, <1>6
    <2>2. m * MCUSkip = k * j  BY <1>3, <1>4
    <2>3. rounded_width = 8 * k  BY <1>3, <1>4
    <2> HIDE DEF k, j
    <2>4. j \in {0, 1, 2}  BY <2>1
    <2>5. CASE j = 0  BY <2>1, <2>2, <2>3, <2>5
    <2>6. CASE j = 1  BY <2>1, <2>2, <2>3, <2>6
    <2>7. CASE j = 2  BY <2>1, <2>2, <2>3, <2>7
    <2> QED  BY <2>4, <2>5, <2>6, <2>7
  <1>8. m * 64 <= (rounded_width \div h) * (16 \div v)
    <2>1. CASE v = 1
      <3>1. 16 \div v = 16  BY <2>1
      <3>2. CASE r = 1  BY <1>5, <3>1, <3>2
      <3>3. CASE r = 2  BY <1>5, <3>1, <3>3
      <3> QED  BY <3>2, <3>3
    <2>2. CASE v = 2
      <3>1. 16 \div v = 8 /\ r = 1  BY <1>6, <2>2
      <3> QED  BY <1>5, <3>1
    <2> QED  BY <1>3, <2>1, <2>2
  <1>9. n * MCUSkip * DCTSIZE * DCTSIZE <= rounded_width * BUFLINES
    <2>1. MCUSkip \in {1, 2, 4, 8}  BY <1>3, <1>4
    <2>2. m \in Nat /\ n <= m  BY <1>20
    <2> HIDE DEF m
    <2>3. n * MCUSkip * 64 <= m * MCUSkip * 64 /\ n * MCUSkip \in Nat  BY <1>20, <2>1, <2>2
    <2>4. m * MCUSkip \in Nat /\ rounded_width \in Nat
      <3>1. MCUWidth \in {8, 16, 32}  BY <1>1, CodedTyped
      <3> QED  BY <1>0, <2>1, <2>2, <3>1
    <2> DEFINE a == n * MCUSkip
               c == m * MCUSkip
    <2>5. a \in Nat /\ c \in Nat /\ a * 64 <= c * 64 /\ c * 64 <= rounded_width * 16
      BY <1>7, <2>3, <2>4 DEF m
    <2> HIDE DEF a, c
    <2>6. a * 8 * 8 <= rounded_width * 16  BY <2>4, <2>5
    <2> QED  BY <2>6 DEF a, DCTSIZE, BUFLINES
  <1>10. n * DCTSIZE * DCTSIZE <= (rounded_width \div h) * (BUFLINES \div v)
    <2>1. m \in Nat /\ n <= m /\ n \in Nat  BY <1>20
    <2>2. (rounded_width \div h) * (16 \div v) \in Nat
      <3>1. 16 \div v \in {8, 16}
        <4>1. CASE v = 1  BY <4>1
        <4>2. CASE v = 2  BY <4>2
        <4> QED  BY <1>3, <4>1, <4>2
      <3> QED  BY <1>5, <3>1
    <2> DEFINE a == (rounded_width \div h) * (16 \div v)
    <2>3. m * 64 <= a  BY <1>8
    <2> HIDE DEF m, a
    <2>4. n * 8 * 8 <= a  BY <2>1, <2>2, <2>3 DEF a
    <2> QED  BY <2>4 DEF a, DCTSIZE, BUFLINES
  <1> QED  BY <1>1, <1>9, <1>10 DEF WithinBuffers, n, h, v

\* Neither luma nor chroma is read past the line buffers, and every worker has a strip,
\* for every image, number of threads and cores (jpegenc.cpp:72-85, 191-214).
THEOREM BuffersSuffice == StripSpec => []WithinBuffers
  <1>1. SInit => Sized  BY SizedInit
  <1>2. Sized /\ [SNext]_<<vars, stripVars>> => Sized'  BY SizedStep
  <1>3. Sized => WithinBuffers  BY StripWithin DEF WithinBuffers
  <1> QED  BY <1>1, <1>2, <1>3, PTL DEF StripSpec

-----------------------------------------------------------------------------
(* Restart markers between strips. *)

\* Every strip but the last leaves one marker, after a count of MCUs not yet marked.
MarkersCounted ==
  /\ coded \in Nat
  /\ IsFiniteSet(restarts) /\ restarts \subseteq 0 .. coded
  /\ pc # "construct" =>
       /\ num_workers = pick_num_workers(img.threads, num_strips, img.cores)
       /\ Cardinality(restarts) = IF num_workers > 1 THEN Least(s, num_strips - 1) ELSE 0

\* No marker is written at the start.
LEMMA MarkersInit == SInit => MarkersCounted
  BY FS_EmptySet DEF SInit, Init, MarkersCounted

\* Every strip has at least one MCU.
LEMMA CodedPositive ==
  ASSUME Sized, pc = "strip"
  PROVE  CodedMCUs \in Nat \ {0}
  <1>1. PICK q \in Nat \ {0}, r \in {1, 2} : CodedMCUs = q * r \/ OneMore(q, r)
    BY MCUsOfStrip
  <1> QED  BY <1>1 DEF OneMore

\* A count that starts at zero is the least of itself and what comes before one.
LEMMA NoneOfSome ==
  ASSUME NEW n \in Nat \ {0}
  PROVE  Least(0, n - 1) = 0
  BY DEF Least

\* Every step keeps the count of the markers: one for each strip coded but the last.
LEMMA MarkersStep ==
  ASSUME Sized, Sized', MarkersCounted, [SNext]_<<vars, stripVars>>
  PROVE  MarkersCounted'
  <1>1. CASE Construct
    <2>1. restarts = {} /\ s = 0 /\ coded = 0  BY <1>1 DEF Sized, Construct
    <2>2. /\ restarts' = {} /\ s' = 0 /\ coded' = 0 /\ img' = img /\ pc' = "header"
          /\ num_workers' = pick_num_workers(img.threads, num_strips', img.cores)
      BY <1>1, <2>1 DEF Construct
    <2>3. IsFiniteSet(restarts') /\ Cardinality(restarts') = 0  BY <2>2, FS_EmptySet
    <2>4. num_strips' \in Nat \ {0}
      <3>1. img \in Images  BY DEF Sized
      <3>2. num_strips' = CeilDiv(img.height, 16)  BY <2>2 DEF Sized, BUFLINES
      <3> QED  BY <3>1, <3>2, ImageTyped, CeilDivPositive
    <2>5. Least(s', num_strips' - 1) = 0  BY <2>2, <2>4, NoneOfSome
    <2>6. coded' \in Nat /\ restarts' \subseteq 0 .. coded'  BY <2>2
    <2>7. num_workers' = pick_num_workers(img'.threads, num_strips', img'.cores)  BY <2>2
    <2>8. Cardinality(restarts') = IF num_workers' > 1 THEN Least(s', num_strips' - 1) ELSE 0
      BY <2>3, <2>5
    <2> QED  BY <2>3, <2>6, <2>7, <2>8 DEF MarkersCounted
  <1>2. CASE CreateHeader  BY <1>2 DEF MarkersCounted, CreateHeader
  <1>3. CASE EncodeStrip
    <2>1. pc = "strip" /\ s \in Nat /\ s < num_strips  BY <1>3 DEF Sized, EncodeStrip
    <2>2. num_strips \in Nat
      <3>1. img \in Images  BY DEF Sized
      <3>2. num_strips = CeilDiv(img.height, 16)  BY <2>1 DEF Sized, BUFLINES
      <3> QED  BY <3>1, <3>2, ImageTyped, CeilDivPositive
    <2>3. coded' \in Nat /\ coded < coded'  BY <1>3, <2>1, CodedPositive DEF EncodeStrip, MarkersCounted
    <2>4. coded' \notin restarts /\ restarts \subseteq 0 .. coded'  BY <2>3 DEF MarkersCounted
    <2>5. Cardinality(restarts) = IF num_workers > 1 THEN Least(s, num_strips - 1) ELSE 0
      BY <2>1 DEF MarkersCounted
    <2>6. s' = s + 1 /\ UNCHANGED <<img, num_strips, num_workers>>  BY <1>3 DEF EncodeStrip
    <2>7. CASE num_workers > 1 /\ s + 1 < num_strips
      <3>1. restarts' = restarts \cup {coded'}  BY <1>3, <2>7 DEF EncodeStrip
      <3>2. IsFiniteSet(restarts') /\ Cardinality(restarts') = Cardinality(restarts) + 1
        BY <2>4, <3>1, FS_AddElement DEF MarkersCounted
      <3>3. restarts' \subseteq 0 .. coded'  BY <2>3, <2>4, <3>1
      <3>4. Cardinality(restarts') = Least(s', num_strips' - 1)
        BY <2>1, <2>2, <2>5, <2>6, <2>7, <3>2 DEF Least
      <3> QED  BY <2>1, <2>3, <2>6, <2>7, <3>2, <3>3, <3>4 DEF MarkersCounted
    <2>8. CASE ~ (num_workers > 1 /\ s + 1 < num_strips)
      <3>1. restarts' = restarts  BY <1>3, <2>8 DEF EncodeStrip
      <3>2. num_workers > 1 => Least(s, num_strips - 1) = Least(s', num_strips' - 1)
        BY <2>1, <2>2, <2>6, <2>8 DEF Least
      <3> QED  BY <2>1, <2>3, <2>4, <2>5, <2>6, <3>1, <3>2 DEF MarkersCounted
    <2> QED  BY <2>7, <2>8
  <1>4. CASE InvokeAgain
    <2>1. Cardinality(restarts') = 0 /\ IsFiniteSet(restarts')  BY <1>4, FS_EmptySet DEF InvokeAgain
    <2>2. num_workers \in 1 .. num_strips  BY <1>4 DEF Sized, InvokeAgain
    <2>3. num_strips \in Nat \ {0}
      <3>1. img \in Images  BY DEF Sized
      <3>2. num_strips = CeilDiv(img.height, 16)  BY <1>4 DEF Sized, BUFLINES, InvokeAgain
      <3> QED  BY <3>1, <3>2, ImageTyped, CeilDivPositive
    <2> QED  BY <1>4, <2>1, <2>3 DEF MarkersCounted, InvokeAgain, Least
  <1>5. CASE UNCHANGED vars  BY <1>5 DEF MarkersCounted, vars
  <1> QED  BY <1>1, <1>2, <1>3, <1>4, <1>5, GeometrySteps

\* Machines with two threads of hardware at least: on another there is one worker,
\* whatever was asked for (jpegenc.cpp:73-82).
TwoCores == \A im \in Images : im.cores >= 2

\* With two threads or more asked for, on a machine that has two, any two strips of any
\* image have a restart marker between them, in every call (jpegenc.hpp:35-36,
\* jpegenc.cpp:137-138).
THEOREM MarkersBetweenStrips ==
  ASSUME TwoCores
  PROVE  StripSpec => []RestartsBetweenStrips
  <1>1. SInit => Sized /\ MarkersCounted  BY SizedInit, MarkersInit
  <1>2. (Sized /\ MarkersCounted) /\ [SNext]_<<vars, stripVars>> => (Sized /\ MarkersCounted)'
    BY SizedStep, MarkersStep
  <1>3. Sized /\ MarkersCounted => RestartsBetweenStrips
    <2> SUFFICES ASSUME Sized, MarkersCounted, pc = "done", img.threads >= 2, num_strips > 1
                 PROVE  Cardinality(restarts) = num_strips - 1
      BY DEF RestartsBetweenStrips
    <2>1. img \in Images /\ s = num_strips /\ num_strips = CeilDiv(img.height, 16)
      BY DEF Sized, BUFLINES
    <2>2. img.threads \in Int /\ img.cores \in Nat /\ img.cores >= 2 /\ num_strips \in Nat
      BY <2>1, ImageTyped, CeilDivPositive DEF TwoCores
    <2>3. num_workers = pick_num_workers(img.threads, num_strips, img.cores)  BY DEF MarkersCounted
    <2>4. num_workers > 1  BY <2>2, <2>3 DEF pick_num_workers, Most, Least
    <2> QED  BY <2>1, <2>2, <2>4 DEF MarkersCounted, Least
  <1> QED  BY <1>1, <1>2, <1>3, PTL DEF StripSpec

-----------------------------------------------------------------------------
(* A decoder that counts along. *)

\* The images whose width and height, rounded as the constructor rounds them, are the
\* announced ones rounded to whole MCUs, and whose gray blocks come in pairs.  Without
\* it the decoder is lost: the violation of DecoderKeepsUp in the narrow images of
\* MCGeometry.
AnnouncedIsCoded ==
  \A im \in Images :
    LET c == compute_ncomp_out(im.ncomp, im.ycc)
    IN /\ round_up(im.width, Most(DCTSIZE * H[im.ycc], im.vector)) = round_up(im.width, DCTSIZE * H[c])
       /\ round_up(im.height, DCTSIZE * V[im.ycc]) = round_up(im.height, DCTSIZE * V[c])
       /\ c \in {"GRAY", "GRAY2"} =>
            CeilDiv(im.width, DCTSIZE) % 2 = 0 \/ CeilDiv(im.height, DCTSIZE) % 2 = 0

\* The strips hold the image's MCU rows: all but the last whole, and the last not empty.
LEMMA StripsHoldMCURows ==
  ASSUME img \in Images, pc # "construct", Sized
  PROVE  /\ num_strips \in Nat \ {0}
         /\ (num_strips - 1) * PerStrip < Down /\ Down <= num_strips * PerStrip
         /\ \A k \in 0 .. num_strips - 1 : k * PerStrip < Down
         /\ \A k \in 1 .. num_strips - 1 : k * PerStrip < Down
  <1>1. img.height \in Nat \ {0} /\ num_strips = (img.height + 15) \div 16
    BY ImageTyped DEF Sized, CeilDiv, BUFLINES
  <1>2. PerStrip \in {1, 2} /\ PerStrip * MCUHeight = 16 /\ MCUHeight \in {8, 16}
    BY CodedTyped DEF BUFLINES
  <1>3. Down = (img.height + MCUHeight - 1) \div MCUHeight  BY DEF Down, CeilDiv
  <1>4. CASE PerStrip = 1
    <2>1. MCUHeight = 16  BY <1>2, <1>4
    <2>2. Down = num_strips /\ num_strips \in Nat \ {0}  BY <1>1, <1>3, <2>1
    <2> QED  BY <1>4, <2>2
  <1>5. CASE PerStrip = 2
    <2>1. MCUHeight = 8  BY <1>2, <1>5
    <2>2. Down = (img.height + 7) \div 8  BY <1>3, <2>1
    <2>3. num_strips \in Nat \ {0} /\ (num_strips - 1) * 2 < Down /\ Down <= num_strips * 2
      BY <1>1, <2>2
    <2>4. Down \in Nat  BY <1>1, <2>2
    <2> QED  BY <1>5, <2>3, <2>4
  <1> QED  BY <1>2, <1>4, <1>5

\* Where the announced size is the coded one, a strip has the announced MCUs.
LEMMA MCUsAnnounced ==
  ASSUME AnnouncedIsCoded, Sized, pc = "strip"
  PROVE  CodedMCUs = Across * Least(PerStrip, Down - s * PerStrip)
  <1>1. img \in Images /\ s \in Nat /\ s < num_strips  BY DEF Sized
  <1>2. PICK q \in Nat \ {0}, r \in {1, 2} :
          /\ rounded_width = MCUWidth * q /\ MCURows = MCUHeight * r
          /\ CodedMCUs = q * r \/ OneMore(q, r)
          /\ r <= PerStrip
    BY MCUsOfStrip
  <1>3. /\ PerStrip \in {1, 2} /\ PerStrip * MCUHeight = BUFLINES
        /\ MCUWidth \in {8, 16, 32} /\ MCUHeight \in {8, 16}
        /\ Across \in Nat \ {0} /\ Down \in Nat \ {0}
    BY <1>1, CodedTyped
  <1>4. rounded_width = MCUWidth * Across /\ rounded_height = MCUHeight * Down
    BY <1>1 DEF AnnouncedIsCoded, Sized, Coded, Across, Down, MCUWidth, MCUHeight, round_up
  <1>5. q = Across  BY <1>2, <1>3, <1>4
  <1>6. s * PerStrip < Down
    <2>1. s \in 0 .. num_strips - 1  BY <1>1, StripsHoldMCURows
    <2> QED  BY <1>1, <2>1, StripsHoldMCURows
  <1>7. MCURows = Least(16, MCUHeight * Down - s * 16)  BY <1>4 DEF MCURows, BUFLINES
  <1>8. r = Least(PerStrip, Down - s * PerStrip)
    <2>1. CASE PerStrip = 1
      <3>1. MCUHeight = 16  BY <1>3, <2>1 DEF BUFLINES
      <3> QED  BY <1>1, <1>2, <1>3, <1>6, <1>7, <2>1, <3>1 DEF Least
    <2>2. CASE PerStrip = 2
      <3>1. MCUHeight = 8  BY <1>3, <2>2 DEF BUFLINES
      <3> QED  BY <1>1, <1>2, <1>3, <1>6, <1>7, <2>2, <3>1 DEF Least
    <2> QED  BY <1>3, <2>1, <2>2
  <1>9. ~ OneMore(q, r)
    <2> SUFFICES ASSUME OneMore(q, r)  PROVE FALSE  OBVIOUS
    <2>1. Coded \in {"GRAY", "GRAY2"} /\ r = 1 /\ q % 2 = 1  BY DEF OneMore
    <2>2. H[Coded] = 1 /\ V[Coded] = 1  BY <1>1, <2>1, CodedTyped
    <2>3. Across = CeilDiv(img.width, 8) /\ Down = CeilDiv(img.height, 8) /\ PerStrip = 2
      BY <2>2 DEF Across, Down, PerStrip, MCUWidth, MCUHeight, BUFLINES, DCTSIZE
    <2>4. Down = 2 * s + 1  BY <1>1, <1>3, <1>6, <1>8, <2>1, <2>3 DEF Least
    <2>5. Across % 2 = 1 /\ Down % 2 = 1  BY <1>1, <1>5, <2>1, <2>4
    <2>6. Across % 2 = 0 \/ Down % 2 = 0
      BY <1>1, <2>1, <2>3 DEF AnnouncedIsCoded, Coded, DCTSIZE
    <2> QED  BY <2>5, <2>6
  <1> QED  BY <1>2, <1>5, <1>8, <1>9

Counting == pc # "construct" => coded = Across * Least(s * PerStrip, Down)

\* Every step keeps the number of MCUs coded so far.
LEMMA CountingStep ==
  ASSUME AnnouncedIsCoded, Sized, Counting, [SNext]_<<vars, stripVars>>
  PROVE  Counting'
  <1>1. img \in Images /\ s \in Nat  BY DEF Sized
  <1>2. PerStrip \in {1, 2} /\ Across \in Nat \ {0} /\ Down \in Nat \ {0}  BY <1>1, CodedTyped
  <1>3. img' = img => Across' = Across /\ PerStrip' = PerStrip /\ Down' = Down
    BY DEF Across, PerStrip, Down, Coded, MCUWidth, MCUHeight
  <1>4. Across * Least(0 * PerStrip, Down) = 0  BY <1>2 DEF Least
  <1>5. CASE Construct
    <2>1. coded' = 0 /\ s' = 0 /\ img' = img  BY <1>5 DEF Sized, Construct
    <2> QED  BY <1>3, <1>4, <2>1 DEF Counting
  <1>6. CASE CreateHeader
    <2>1. coded' = coded /\ s' = s /\ img' = img /\ pc # "construct"  BY <1>6 DEF CreateHeader
    <2> QED  BY <1>3, <2>1 DEF Counting
  <1>7. CASE EncodeStrip
    <2>1. pc = "strip" /\ s' = s + 1 /\ img' = img /\ coded' = coded + CodedMCUs
      BY <1>7 DEF EncodeStrip
    <2>2. s \in 0 .. num_strips - 1  BY <1>1, <2>1, StripsHoldMCURows DEF Sized
    <2>3. s * PerStrip < Down  BY <1>1, <2>1, <2>2, StripsHoldMCURows
    <2>4. coded = Across * (s * PerStrip)  BY <1>1, <1>2, <2>1, <2>3 DEF Counting, Least
    <2>5. CodedMCUs = Across * Least(PerStrip, Down - s * PerStrip)  BY <2>1, MCUsAnnounced
    <2> DEFINE m == s * PerStrip
               l == Least(PerStrip, Down - m)
    <2>6. m \in Nat /\ l \in Nat /\ m + l = Least(m + PerStrip, Down)
      BY <1>1, <1>2, <2>3 DEF Least
    <2>7. m + PerStrip = (s + 1) * PerStrip  BY <1>1, <1>2
    <2> HIDE DEF m, l
    <2>8. Across * m + Across * l = Across * (m + l)  BY <1>2, <2>6
    <2>9. coded' = Across * Least((s + 1) * PerStrip, Down)
      BY <2>1, <2>4, <2>5, <2>6, <2>7, <2>8 DEF m, l
    <2> QED  BY <1>3, <2>1, <2>9 DEF Counting
  <1>8. CASE InvokeAgain
    <2>1. coded' = 0 /\ s' = 0 /\ img' = img  BY <1>8 DEF InvokeAgain
    <2> QED  BY <1>3, <1>4, <2>1 DEF Counting
  <1>9. CASE UNCHANGED vars  BY <1>3, <1>9 DEF Counting, vars
  <1> QED  BY <1>5, <1>6, <1>7, <1>8, <1>9, GeometrySteps

\* Where the announced size is the coded one, a decoder that counts the announced MCUs
\* stands at the first MCU of the next strip's rows after every strip of every image
\* (jpegenc.cpp:178-179, 205-214, jpgheaders.cpp:166).
THEOREM DecoderStaysInStep ==
  ASSUME AnnouncedIsCoded
  PROVE  StripSpec => []DecoderKeepsUp
  <1>1. SInit => Sized /\ Counting  BY SizedInit DEF SInit, Init, Counting
  <1>2. (Sized /\ Counting) /\ [SNext]_<<vars, stripVars>> => (Sized /\ Counting)'
    BY SizedStep, CountingStep
  <1>3. Sized /\ Counting => DecoderKeepsUp
    <2> SUFFICES ASSUME Sized, Counting, pc \in {"strip", "done"}
                 PROVE  coded = Least(s * MCUsPerRow * (BUFLINES \div (DCTSIZE * V[YCCtype])), TotalMCUs)
      BY DEF DecoderKeepsUp
    <2>1. img \in Images /\ YCCtype = Coded /\ s \in Nat  BY DEF Sized
    <2>2. PerStrip \in {1, 2} /\ Across \in Nat \ {0} /\ Down \in Nat \ {0}  BY <2>1, CodedTyped
    <2>3. /\ MCUsPerRow = Across /\ BUFLINES \div (DCTSIZE * V[YCCtype]) = PerStrip
          /\ TotalMCUs = Across * Down
      BY <2>1 DEF MCUsPerRow, TotalMCUs, Across, PerStrip, Down, MCUWidth, MCUHeight
    <2>4. coded = Across * Least(s * PerStrip, Down)  BY DEF Counting
    <2> DEFINE m == s * PerStrip
    <2>5. m \in Nat /\ s * Across * PerStrip = Across * m  BY <2>1, <2>2
    <2> HIDE DEF m
    <2>6. Across * Least(m, Down) = Least(Across * m, Across * Down)
      <3>1. CASE m < Down  BY <2>2, <2>5, <3>1 DEF Least
      <3>2. CASE ~ (m < Down)
        <4>1. ~ (Across * m < Across * Down)  BY <2>2, <2>5, <3>2
        <4> QED  BY <3>2, <4>1 DEF Least
      <3> QED  BY <3>1, <3>2
    <2> QED  BY <2>3, <2>4, <2>5, <2>6 DEF m
  <1> QED  BY <1>1, <1>2, <1>3, PTL DEF StripSpec

-----------------------------------------------------------------------------
(* Restart markers where the header says. *)

Markers(n) == {(Across * PerStrip) * k : k \in 1 .. n}

\* A marker after every strip that another one follows, an interval apart.
Marking ==
  /\ pc \in {"strip", "done"} => interval = IF num_workers > 1 THEN Across * PerStrip ELSE 0
  /\ pc # "construct" =>
       restarts = IF num_workers > 1 THEN Markers(Least(s, num_strips - 1)) ELSE {}

\* Every step keeps the markers written so far after the strips coded so far.
LEMMA MarkingStep ==
  ASSUME AnnouncedIsCoded, Sized, Sized', Counting, Marking, [SNext]_<<vars, stripVars>>
  PROVE  Marking'
  <1>1. img \in Images /\ s \in Nat  BY DEF Sized
  <1>2. PerStrip \in {1, 2} /\ Across \in Nat \ {0} /\ Down \in Nat \ {0}  BY <1>1, CodedTyped
  <1>3. img' = img => Across' = Across /\ PerStrip' = PerStrip
    BY DEF Across, PerStrip, Coded, MCUWidth, MCUHeight
  <1>4. ASSUME img' = img, NEW n  PROVE Markers(n)' = Markers(n)  BY <1>3, <1>4 DEF Markers
  <1>5. Markers(0) = {}  BY DEF Markers
  <1>6. CASE Construct
    <2>1. /\ restarts' = {} /\ s' = 0 /\ img' = img /\ pc' = "header"
      BY <1>6 DEF Sized, Construct
    <2>2. num_strips' \in Nat \ {0}
      <3>1. num_strips' = CeilDiv(img.height, 16)  BY <2>1 DEF Sized, BUFLINES
      <3> QED  BY <1>1, <3>1, ImageTyped, CeilDivPositive
    <2>3. Least(s', num_strips' - 1) = 0  BY <2>1, <2>2, NoneOfSome
    <2>4. Markers(Least(s, num_strips - 1))' = {}  BY <2>3 DEF Markers
    <2> QED  BY <2>1, <2>4 DEF Marking
  <1>7. CASE CreateHeader
    <2>1. /\ UNCHANGED <<img, num_workers, num_strips, restarts, s>> /\ pc # "construct"
          /\ interval' = IF num_workers > 1
                           THEN CeilDiv(img.width, DCTSIZE * H[YCCtype]) * (BUFLINES \div (DCTSIZE * V[YCCtype]))
                           ELSE 0
      BY <1>7 DEF CreateHeader
    <2>2. YCCtype = Coded  BY <2>1 DEF Sized
    <2>3. interval' = IF num_workers > 1 THEN Across * PerStrip ELSE 0
      BY <2>1, <2>2 DEF Across, PerStrip, MCUWidth, MCUHeight
    <2>4. Markers(Least(s, num_strips - 1))' = Markers(Least(s, num_strips - 1))
      BY <1>3, <2>1 DEF Markers
    <2> QED  BY <1>3, <2>1, <2>3, <2>4 DEF Marking
  <1>8. CASE EncodeStrip
    <2>1. /\ pc = "strip" /\ s' = s + 1 /\ coded' = coded + CodedMCUs
          /\ UNCHANGED <<img, num_workers, num_strips, interval>>
          /\ restarts' = IF num_workers > 1 /\ s + 1 < num_strips
                           THEN restarts \cup {coded'} ELSE restarts
      BY <1>8 DEF EncodeStrip
    <2>2. num_strips \in Nat /\ s < num_strips  BY <1>1, <2>1, StripsHoldMCURows DEF Sized
    <2>3. Markers(Least(s, num_strips - 1))' = Markers(Least(s + 1, num_strips - 1))
      BY <1>3, <2>1 DEF Markers
    <2>4. CASE num_workers > 1 /\ s + 1 < num_strips
      <3>1. Least(s, num_strips - 1) = s /\ Least(s + 1, num_strips - 1) = s + 1
        BY <1>1, <2>2, <2>4 DEF Least
      <3>2. coded' = (Across * PerStrip) * (s + 1)
        <4>1. Counting'  BY CountingStep
        <4>2. coded' = Across * Least((s + 1) * PerStrip, Down)
          <5>1. Down' = Down  BY <2>1 DEF Down, Coded, MCUHeight
          <5>2. pc' # "construct"  BY <1>8 DEF EncodeStrip
          <5> QED  BY <1>3, <2>1, <4>1, <5>1, <5>2 DEF Counting
        <4>3. (s + 1) * PerStrip < Down
          <5>1. s + 1 \in 0 .. num_strips - 1  BY <1>1, <2>2, <2>4
          <5> QED  BY <1>1, <2>1, <5>1, StripsHoldMCURows
        <4> DEFINE n == (s + 1) * PerStrip
        <4>4. coded' = Across * n  BY <1>1, <1>2, <4>2, <4>3 DEF Least
        <4>5. Across * n = (Across * PerStrip) * (s + 1)  BY <1>1, <1>2
        <4> QED  BY <4>4, <4>5
      <3>3. Markers(s + 1) = Markers(s) \cup {(Across * PerStrip) * (s + 1)}
        <4>1. 1 .. s + 1 = (1 .. s) \cup {s + 1}  BY <1>1
        <4> QED  BY <4>1 DEF Markers
      <3>4. restarts = Markers(s)  BY <2>1, <2>4, <3>1 DEF Marking
      <3>5. restarts' = Markers(s + 1)  BY <2>1, <2>4, <3>2, <3>3, <3>4
      <3>6. restarts' = Markers(Least(s, num_strips - 1))'  BY <2>3, <3>1, <3>5
      <3>7. interval = Across * PerStrip  BY <2>1, <2>4 DEF Marking
      <3> QED  BY <1>3, <2>1, <2>4, <3>6, <3>7 DEF Marking
    <2>5. CASE ~ (num_workers > 1 /\ s + 1 < num_strips)
      <3>1. s + 1 >= num_strips => Least(s, num_strips - 1) = Least(s + 1, num_strips - 1)
        BY <1>1, <2>2 DEF Least
      <3>2. num_workers \in Nat  BY <2>1, <2>2 DEF Sized
      <3>3. num_workers > 1 => s + 1 >= num_strips  BY <1>1, <2>2, <2>5
      <3>4. restarts' = restarts  BY <2>1, <2>5
      <3> QED  BY <2>1, <2>3, <3>1, <3>3, <3>4, <1>3 DEF Marking
    <2> QED  BY <2>4, <2>5
  <1>9. CASE InvokeAgain
    <2>1. /\ restarts' = {} /\ s' = 0 /\ pc = "done"
          /\ UNCHANGED <<img, num_workers, num_strips, interval>>
      BY <1>9 DEF InvokeAgain
    <2>2. num_strips \in Nat \ {0}  BY <1>1, <2>1, StripsHoldMCURows
    <2>3. Least(s', num_strips' - 1) = 0  BY <2>1, <2>2, NoneOfSome
    <2>4. Markers(Least(s, num_strips - 1))' = {}  BY <2>3 DEF Markers
    <2> QED  BY <1>3, <2>1, <2>4 DEF Marking
  <1>10. CASE UNCHANGED vars
    <2>1. UNCHANGED <<pc, img, num_workers, num_strips, restarts, s, interval>>  BY <1>10 DEF vars
    <2>2. Markers(Least(s, num_strips - 1))' = Markers(Least(s, num_strips - 1))
      BY <1>3, <2>1 DEF Markers
    <2> QED  BY <1>3, <2>1, <2>2 DEF Marking
  <1> QED  BY <1>6, <1>7, <1>8, <1>9, <1>10, GeometrySteps

\* The multiples of an interval that more MCUs follow.
LEMMA MultiplesBelow ==
  ASSUME NEW n \in Nat \ {0}, NEW m \in Nat, NEW t \in Nat,
         n * m < t, t <= n * (m + 1)
  PROVE  {k \in 1 .. t - 1 : k % n = 0} = {n * k : k \in 1 .. m}
  <1>1. ASSUME NEW k \in 1 .. t - 1, k % n = 0  PROVE k \in {n * j : j \in 1 .. m}
    <2> DEFINE j == k \div n
    <2>1. j \in Int /\ k = n * j  BY <1>1
    <2> HIDE DEF j
    <2>2. n * j > 0 /\ n * j < n * (m + 1)  BY <1>1, <2>1
    <2>3. j >= 1
      <3>1. CASE j <= 0
        <4>1. n * j <= 0  BY <2>1, <3>1
        <4> QED  BY <2>1, <2>2, <4>1
      <3> QED  BY <2>1, <3>1
    <2>4. j <= m
      <3>1. CASE j >= m + 1
        <4>1. n * j >= n * (m + 1)  BY <2>1, <3>1
        <4> QED  BY <2>1, <2>2, <4>1
      <3> QED  BY <2>1, <3>1
    <2> QED  BY <2>1, <2>3, <2>4
  <1>2. ASSUME NEW j \in 1 .. m  PROVE n * j \in 1 .. t - 1 /\ (n * j) % n = 0
    <2>1. n * j <= n * m /\ n * j \in Nat /\ n * j >= 1  OBVIOUS
    <2>2. (n * j) % n = 0  OBVIOUS
    <2> QED  BY <2>1, <2>2
  <1> QED  BY <1>1, <1>2

\* Where the announced size is the coded one, the restart markers of every image stand at
\* the multiples of the announced interval that more MCUs follow, and nowhere else
\* (jpegenc.cpp:137-138, jpgheaders.cpp:174-177).
THEOREM MarkersOnInterval ==
  ASSUME AnnouncedIsCoded
  PROVE  StripSpec => []RestartsOnInterval
  <1>1. SInit => Sized /\ Counting /\ Marking  BY SizedInit DEF SInit, Init, Counting, Marking
  <1>2. (Sized /\ Counting /\ Marking) /\ [SNext]_<<vars, stripVars>> => (Sized /\ Counting /\ Marking)'
    BY SizedStep, CountingStep, MarkingStep
  <1>3. Sized /\ Counting /\ Marking => RestartsOnInterval
    <2> SUFFICES ASSUME Sized, Counting, Marking, pc = "done"
                 PROVE  restarts = IF interval = 0 THEN {} ELSE {k \in 1 .. coded - 1 : k % interval = 0}
      BY DEF RestartsOnInterval
    <2>1. img \in Images /\ s = num_strips  BY DEF Sized
    <2>2. PerStrip \in {1, 2} /\ Across \in Nat \ {0} /\ Down \in Nat \ {0}  BY <2>1, CodedTyped
    <2>3. /\ num_strips \in Nat \ {0}
          /\ (num_strips - 1) * PerStrip < Down /\ Down <= num_strips * PerStrip
      BY <2>1, StripsHoldMCURows
    <2>4. interval = IF num_workers > 1 THEN Across * PerStrip ELSE 0  BY DEF Marking
    <2>5. restarts = IF num_workers > 1 THEN Markers(num_strips - 1) ELSE {}
      BY <2>1, <2>3 DEF Marking, Least
    <2>6. coded = Across * Down  BY <2>1, <2>2, <2>3 DEF Counting, Least
    <2> DEFINE n == Across * PerStrip
               m == num_strips - 1
    <2>7. n \in Nat \ {0} /\ m \in Nat  BY <2>2, <2>3
    <2>8. n * m < coded
      <3>1. n * m = Across * (m * PerStrip) /\ m * PerStrip \in Nat  BY <2>2, <2>3
      <3> DEFINE a == m * PerStrip
      <3> HIDE DEF a, n, m
      <3>2. a \in Nat /\ a < Down  BY <2>3, <3>1 DEF a, m
      <3>3. Across * a < Across * Down  BY <2>2, <3>2
      <3> QED  BY <2>6, <3>1, <3>3 DEF a
    <2>9. coded <= n * (m + 1)
      <3>1. n * (m + 1) = Across * (num_strips * PerStrip) /\ num_strips * PerStrip \in Nat  BY <2>2, <2>3
      <3> DEFINE a == num_strips * PerStrip
      <3> HIDE DEF a, n, m
      <3>2. a \in Nat /\ Down <= a  BY <2>3, <3>1 DEF a
      <3>3. Across * Down <= Across * a  BY <2>2, <3>2
      <3> QED  BY <2>6, <3>1, <3>3 DEF a
    <2>10. coded \in Nat  BY <2>2, <2>6
    <2>11. CASE num_workers > 1
      <3>1. interval = n /\ restarts = {n * k : k \in 1 .. m}  BY <2>4, <2>5, <2>11 DEF Markers
      <3> HIDE DEF n, m
      <3>2. {k \in 1 .. coded - 1 : k % n = 0} = {n * k : k \in 1 .. m}
        BY <2>7, <2>8, <2>9, <2>10, MultiplesBelow
      <3> QED  BY <2>7, <3>1, <3>2
    <2>12. CASE ~ (num_workers > 1)  BY <2>4, <2>5, <2>12
    <2> QED  BY <2>11, <2>12
  <1> QED  BY <1>1, <1>2, <1>3, PTL DEF StripSpec

-----------------------------------------------------------------------------
(* Where the samples of a strip belong.  A strip is n rows of q MCUs, each v   *)
(* blocks high and h wide: row r of block (k, j) of MCU (a, c).                *)

LumaOctet(q, h, v, a, c, k, j, r) ==
  Octet(64 * ((q * a + c) * (h * v) + k * h + j) + 8 * r, (a * v + k) * 8 + r, (c * h + j) * 8, 1, 8)
Luma(q, h, v, n) ==
  {LumaOctet(q, h, v, a, c, k, j, r) :
     a \in 0 .. n - 1, c \in 0 .. q - 1, k \in 0 .. v - 1, j \in 0 .. h - 1, r \in BlockRows}

ChromaOctet(q, h, v, a, c, r) ==
  Octet(64 * (q * a + c) + 8 * r, (a * 8 + r) * v, c * 8 * h, v, 8 * h)
Chroma(q, h, v, n) ==
  {ChromaOctet(q, h, v, a, c, r) : a \in 0 .. n - 1, c \in 0 .. q - 1, r \in BlockRows}

\* The columns a converter visits.
LEMMA ColumnsOf ==
  ASSUME NEW t \in Nat, NEW n \in {8, 16, 32}
  PROVE  /\ Steps(n * t, n) = t
         /\ Columns(n * t, n) = {n * c : c \in 0 .. t - 1}
         /\ \A c \in 0 .. t - 1 : (n * c) \div n = c
  <1>1. CASE n = 8  BY <1>1 DEF Steps, Columns
  <1>2. CASE n = 16  BY <1>2 DEF Steps, Columns
  <1>3. CASE n = 32  BY <1>3 DEF Steps, Columns
  <1> QED  BY <1>1, <1>2, <1>3

\* The blocks of a row, in groups of h.
LEMMA InGroups ==
  ASSUME NEW p \in Nat, NEW h \in {1, 2, 4}, NEW d \in 0 .. h * p - 1
  PROVE  \E c \in 0 .. p - 1, e \in 0 .. h - 1 : d = h * c + e
  <1>1. CASE h = 1
    <2>1. d \in 0 .. p - 1 /\ 0 \in 0 .. h - 1 /\ d = h * d + 0  BY <1>1
    <2> QED  BY <2>1
  <1>2. CASE h = 2
    <2> DEFINE c == d \div 2
               e == d % 2
    <2>1. c \in 0 .. p - 1 /\ e \in 0 .. h - 1 /\ d = h * c + e  BY <1>2
    <2> HIDE DEF c, e
    <2> QED  BY <2>1
  <1>3. CASE h = 4
    <2> DEFINE c == d \div 4
               e == d % 4
    <2>1. c \in 0 .. p - 1 /\ e \in 0 .. h - 1 /\ d = h * c + e  BY <1>3
    <2> HIDE DEF c, e
    <2> QED  BY <2>1
  <1> QED  BY <1>1, <1>2, <1>3

\* One octet of a strip.
LEMMA LumaHas ==
  ASSUME NEW q, NEW h, NEW v, NEW n, NEW a \in 0 .. n - 1, NEW c \in 0 .. q - 1, NEW k \in 0 .. v - 1,
         NEW j \in 0 .. h - 1, NEW r \in BlockRows
  PROVE  LumaOctet(q, h, v, a, c, k, j, r) \in Luma(q, h, v, n)
  BY DEF Luma

\* Sixteen pixels of each row of a strip, block after block: 4:4:4, 4:2:2 and gray.
LEMMA GrayLuma ==
  ASSUME NEW p \in Nat
  PROVE  rgb2ycbcr_subsample_gray(16 * p).luma = Luma(p, 2, 1, 2)
  <1> DEFINE w == 16 * p
             at(i, j, r) == 128 * ((i \div 8) * Steps(w, 16) + j \div 16) + 8 * r
  <1>1. rgb2ycbcr_subsample_gray(w).luma =
          UNION {Sixteen(at(i, j, r), 64, i + r, j) : i \in Halves, j \in Columns(w, 16), r \in BlockRows}
    BY DEF rgb2ycbcr_subsample_gray
  <1>2. /\ Steps(w, 16) = p /\ Columns(w, 16) = {16 * c : c \in 0 .. p - 1}
        /\ \A c \in 0 .. p - 1 : (16 * c) \div 16 = c
    BY ColumnsOf
  <1>3. Halves = {8 * a : a \in 0 .. 1} /\ \A a \in 0 .. 1 : (8 * a) \div 8 = a
    BY DEF Halves
  <1>4. ASSUME NEW a \in 0 .. 1, NEW c \in 0 .. p - 1, NEW r \in BlockRows
        PROVE  Sixteen(at(8 * a, 16 * c, r), 64, 8 * a + r, 16 * c) = {LumaOctet(p, 2, 1, a, c, 0, e, r) : e \in 0 .. 1}
    <2>1. at(8 * a, 16 * c, r) = 128 * (a * p + c) + 8 * r  BY <1>2, <1>3
    <2>2. CASE a = 0  BY <2>1, <2>2 DEF Sixteen, LumaOctet, BlockRows
    <2>3. CASE a = 1  BY <2>1, <2>3 DEF Sixteen, LumaOctet, BlockRows
    <2> QED  BY <2>2, <2>3
  <1> HIDE DEF at
  <1>5. ASSUME NEW o \in rgb2ycbcr_subsample_gray(w).luma  PROVE o \in Luma(p, 2, 1, 2)
    <2>1. PICK i \in Halves, j \in Columns(w, 16), r \in BlockRows : o \in Sixteen(at(i, j, r), 64, i + r, j)
      BY <1>1
    <2>2. PICK a \in 0 .. 1, c \in 0 .. p - 1 : i = 8 * a /\ j = 16 * c  BY <1>2, <1>3
    <2>3. PICK e \in 0 .. 1 : o = LumaOctet(p, 2, 1, a, c, 0, e, r)  BY <1>4, <2>1, <2>2
    <2>4. a \in 0 .. 2 - 1 /\ 0 \in 0 .. 1 - 1 /\ e \in 0 .. 2 - 1  OBVIOUS
    <2> QED  BY <2>3, <2>4, LumaHas
  <1>6. ASSUME NEW o \in Luma(p, 2, 1, 2)  PROVE o \in rgb2ycbcr_subsample_gray(w).luma
    <2>1. PICK a \in 0 .. 1, c \in 0 .. p - 1, e \in 0 .. 1, r \in BlockRows : o = LumaOctet(p, 2, 1, a, c, 0, e, r)
      BY DEF Luma
    <2>2. o \in Sixteen(at(8 * a, 16 * c, r), 64, 8 * a + r, 16 * c)  BY <1>4, <2>1
    <2>3. 8 * a \in Halves /\ 16 * c \in Columns(w, 16)  BY <1>2, <1>3
    <2> QED  BY <1>1, <2>2, <2>3
  <1> QED  BY <1>5, <1>6

\* Thirty-two pixels of each row, for 4:1:1.
LEMMA Luma411 ==
  ASSUME NEW p \in Nat
  PROVE  rgb2ycbcr_subsample_411(32 * p).luma = Luma(p, 4, 1, 2)
  <1> DEFINE w == 32 * p
             at(i, j, r) == 256 * ((i \div 8) * Steps(w, 32) + j \div 32) + 8 * r
  <1>1. rgb2ycbcr_subsample_411(w).luma =
          UNION {ThirtyTwo(at(i, j, r), i + r, j) : i \in Halves, j \in Columns(w, 32), r \in BlockRows}
    BY DEF rgb2ycbcr_subsample_411
  <1>2. /\ Steps(w, 32) = p /\ Columns(w, 32) = {32 * c : c \in 0 .. p - 1}
        /\ \A c \in 0 .. p - 1 : (32 * c) \div 32 = c
    BY ColumnsOf
  <1>3. Halves = {8 * a : a \in 0 .. 1} /\ \A a \in 0 .. 1 : (8 * a) \div 8 = a
    BY DEF Halves
  <1>4. ASSUME NEW a \in 0 .. 1, NEW c \in 0 .. p - 1, NEW r \in BlockRows
        PROVE  ThirtyTwo(at(8 * a, 32 * c, r), 8 * a + r, 32 * c) = {LumaOctet(p, 4, 1, a, c, 0, e, r) : e \in 0 .. 3}
    <2>1. at(8 * a, 32 * c, r) = 256 * (a * p + c) + 8 * r  BY <1>2, <1>3
    <2>2. CASE a = 0  BY <2>1, <2>2 DEF Sixteen, ThirtyTwo, LumaOctet, BlockRows
    <2>3. CASE a = 1  BY <2>1, <2>3 DEF Sixteen, ThirtyTwo, LumaOctet, BlockRows
    <2> QED  BY <2>2, <2>3
  <1> HIDE DEF at
  <1>5. ASSUME NEW o \in rgb2ycbcr_subsample_411(w).luma  PROVE o \in Luma(p, 4, 1, 2)
    <2>1. PICK i \in Halves, j \in Columns(w, 32), r \in BlockRows : o \in ThirtyTwo(at(i, j, r), i + r, j)
      BY <1>1
    <2>2. PICK a \in 0 .. 1, c \in 0 .. p - 1 : i = 8 * a /\ j = 32 * c  BY <1>2, <1>3
    <2>3. PICK e \in 0 .. 3 : o = LumaOctet(p, 4, 1, a, c, 0, e, r)  BY <1>4, <2>1, <2>2
    <2>4. a \in 0 .. 2 - 1 /\ 0 \in 0 .. 1 - 1 /\ e \in 0 .. 4 - 1  OBVIOUS
    <2> QED  BY <2>3, <2>4, LumaHas
  <1>6. ASSUME NEW o \in Luma(p, 4, 1, 2)  PROVE o \in rgb2ycbcr_subsample_411(w).luma
    <2>1. PICK a \in 0 .. 1, c \in 0 .. p - 1, e \in 0 .. 3, r \in BlockRows : o = LumaOctet(p, 4, 1, a, c, 0, e, r)
      BY DEF Luma
    <2>2. o \in ThirtyTwo(at(8 * a, 32 * c, r), 8 * a + r, 32 * c)  BY <1>4, <2>1
    <2>3. 8 * a \in Halves /\ 32 * c \in Columns(w, 32)  BY <1>2, <1>3
    <2> QED  BY <1>1, <2>2, <2>3
  <1> QED  BY <1>5, <1>6

\* MCUs two blocks high and two wide, for 4:2:0.
LEMMA Luma420 ==
  ASSUME NEW p \in Nat
  PROVE  rgb2ycbcr_subsample_420(16 * p).luma = Luma(p, 2, 2, 1)
  <1> DEFINE w == 16 * p
             at(i, j, r) == 128 * (2 * (j \div 16) + i \div 8) + 8 * r
  <1>1. rgb2ycbcr_subsample_420(w).luma =
          UNION {Sixteen(at(i, j, r), 64, i + r, j) : i \in Halves, j \in Columns(w, 16), r \in BlockRows}
    BY DEF rgb2ycbcr_subsample_420
  <1>2. /\ Steps(w, 16) = p /\ Columns(w, 16) = {16 * c : c \in 0 .. p - 1}
        /\ \A c \in 0 .. p - 1 : (16 * c) \div 16 = c
    BY ColumnsOf
  <1>3. Halves = {8 * k : k \in 0 .. 1} /\ \A k \in 0 .. 1 : (8 * k) \div 8 = k
    BY DEF Halves
  <1>4. ASSUME NEW k \in 0 .. 1, NEW c \in 0 .. p - 1, NEW r \in BlockRows
        PROVE  Sixteen(at(8 * k, 16 * c, r), 64, 8 * k + r, 16 * c) = {LumaOctet(p, 2, 2, 0, c, k, e, r) : e \in 0 .. 1}
    <2>1. at(8 * k, 16 * c, r) = 128 * (2 * c + k) + 8 * r  BY <1>2, <1>3
    <2> QED  BY <2>1 DEF Sixteen, LumaOctet, BlockRows
  <1> HIDE DEF at
  <1>5. ASSUME NEW o \in rgb2ycbcr_subsample_420(w).luma  PROVE o \in Luma(p, 2, 2, 1)
    <2>1. PICK i \in Halves, j \in Columns(w, 16), r \in BlockRows : o \in Sixteen(at(i, j, r), 64, i + r, j)
      BY <1>1
    <2>2. PICK k \in 0 .. 1, c \in 0 .. p - 1 : i = 8 * k /\ j = 16 * c  BY <1>2, <1>3
    <2>3. PICK e \in 0 .. 1 : o = LumaOctet(p, 2, 2, 0, c, k, e, r)  BY <1>4, <2>1, <2>2
    <2>4. 0 \in 0 .. 1 - 1 /\ k \in 0 .. 2 - 1 /\ e \in 0 .. 2 - 1  OBVIOUS
    <2> QED  BY <2>3, <2>4, LumaHas
  <1>6. ASSUME NEW o \in Luma(p, 2, 2, 1)  PROVE o \in rgb2ycbcr_subsample_420(w).luma
    <2>1. PICK k \in 0 .. 1, c \in 0 .. p - 1, e \in 0 .. 1, r \in BlockRows : o = LumaOctet(p, 2, 2, 0, c, k, e, r)
      BY DEF Luma
    <2>2. o \in Sixteen(at(8 * k, 16 * c, r), 64, 8 * k + r, 16 * c)  BY <1>4, <2>1
    <2>3. 8 * k \in Halves /\ 16 * c \in Columns(w, 16)  BY <1>2, <1>3
    <2> QED  BY <1>1, <2>2, <2>3
  <1> QED  BY <1>5, <1>6

\* MCUs two blocks high and four wide, for 4:1:0.
LEMMA Luma410 ==
  ASSUME NEW p \in Nat
  PROVE  rgb2ycbcr_subsample_410(32 * p).luma = Luma(p, 4, 2, 1)
  <1> DEFINE w == 32 * p
             at(i, j, r) == 256 * (2 * (j \div 32) + i \div 8) + 8 * r
  <1>1. rgb2ycbcr_subsample_410(w).luma =
          UNION {ThirtyTwo(at(i, j, r), i + r, j) : i \in Halves, j \in Columns(w, 32), r \in BlockRows}
    BY DEF rgb2ycbcr_subsample_410
  <1>2. /\ Steps(w, 32) = p /\ Columns(w, 32) = {32 * c : c \in 0 .. p - 1}
        /\ \A c \in 0 .. p - 1 : (32 * c) \div 32 = c
    BY ColumnsOf
  <1>3. Halves = {8 * k : k \in 0 .. 1} /\ \A k \in 0 .. 1 : (8 * k) \div 8 = k
    BY DEF Halves
  <1>4. ASSUME NEW k \in 0 .. 1, NEW c \in 0 .. p - 1, NEW r \in BlockRows
        PROVE  ThirtyTwo(at(8 * k, 32 * c, r), 8 * k + r, 32 * c) = {LumaOctet(p, 4, 2, 0, c, k, e, r) : e \in 0 .. 3}
    <2>1. at(8 * k, 32 * c, r) = 256 * (2 * c + k) + 8 * r  BY <1>2, <1>3
    <2> QED  BY <2>1 DEF Sixteen, ThirtyTwo, LumaOctet, BlockRows
  <1> HIDE DEF at
  <1>5. ASSUME NEW o \in rgb2ycbcr_subsample_410(w).luma  PROVE o \in Luma(p, 4, 2, 1)
    <2>1. PICK i \in Halves, j \in Columns(w, 32), r \in BlockRows : o \in ThirtyTwo(at(i, j, r), i + r, j)
      BY <1>1
    <2>2. PICK k \in 0 .. 1, c \in 0 .. p - 1 : i = 8 * k /\ j = 32 * c  BY <1>2, <1>3
    <2>3. PICK e \in 0 .. 3 : o = LumaOctet(p, 4, 2, 0, c, k, e, r)  BY <1>4, <2>1, <2>2
    <2>4. 0 \in 0 .. 1 - 1 /\ k \in 0 .. 2 - 1 /\ e \in 0 .. 4 - 1  OBVIOUS
    <2> QED  BY <2>3, <2>4, LumaHas
  <1>6. ASSUME NEW o \in Luma(p, 4, 2, 1)  PROVE o \in rgb2ycbcr_subsample_410(w).luma
    <2>1. PICK k \in 0 .. 1, c \in 0 .. p - 1, e \in 0 .. 3, r \in BlockRows : o = LumaOctet(p, 4, 2, 0, c, k, e, r)
      BY DEF Luma
    <2>2. o \in ThirtyTwo(at(8 * k, 32 * c, r), 8 * k + r, 32 * c)  BY <1>4, <2>1
    <2>3. 8 * k \in Halves /\ 32 * c \in Columns(w, 32)  BY <1>2, <1>3
    <2> QED  BY <1>1, <2>2, <2>3
  <1> QED  BY <1>5, <1>6

\* MCUs two blocks high and one wide, for 4:4:0: sixteen pixels are two of them.
LEMMA Luma440 ==
  ASSUME NEW p \in Nat
  PROVE  rgb2ycbcr_subsample_440(16 * p).luma = Luma(2 * p, 1, 2, 1)
  <1> DEFINE w == 16 * p
             at(i, j, r) == 16 * j + 8 * i + 8 * r
  <1>1. rgb2ycbcr_subsample_440(w).luma =
          UNION {Sixteen(at(i, j, r), 128, i + r, j) : i \in Halves, j \in Columns(w, 16), r \in BlockRows}
    BY DEF rgb2ycbcr_subsample_440
  <1>2. /\ Steps(w, 16) = p /\ Columns(w, 16) = {16 * c : c \in 0 .. p - 1}
        /\ \A c \in 0 .. p - 1 : (16 * c) \div 16 = c
    BY ColumnsOf
  <1>3. Halves = {8 * k : k \in 0 .. 1} /\ \A k \in 0 .. 1 : (8 * k) \div 8 = k
    BY DEF Halves
  <1>4. ASSUME NEW k \in 0 .. 1, NEW c \in 0 .. p - 1, NEW r \in BlockRows
        PROVE  Sixteen(at(8 * k, 16 * c, r), 128, 8 * k + r, 16 * c) = {LumaOctet(2 * p, 1, 2, 0, 2 * c + e, k, 0, r) : e \in 0 .. 1}
    <2>1. at(8 * k, 16 * c, r) = 256 * c + 64 * k + 8 * r  BY <1>2, <1>3
    <2> QED  BY <2>1 DEF Sixteen, LumaOctet, BlockRows
  <1> HIDE DEF at
  <1>5. ASSUME NEW o \in rgb2ycbcr_subsample_440(w).luma  PROVE o \in Luma(2 * p, 1, 2, 1)
    <2>1. PICK i \in Halves, j \in Columns(w, 16), r \in BlockRows : o \in Sixteen(at(i, j, r), 128, i + r, j)
      BY <1>1
    <2>2. PICK k \in 0 .. 1, c \in 0 .. p - 1 : i = 8 * k /\ j = 16 * c  BY <1>2, <1>3
    <2>3. PICK e \in 0 .. 1 : o = LumaOctet(2 * p, 1, 2, 0, 2 * c + e, k, 0, r)  BY <1>4, <2>1, <2>2
    <2>4. 0 \in 0 .. 1 - 1 /\ k \in 0 .. 2 - 1 /\ 2 * c + e \in 0 .. 2 * p - 1  OBVIOUS
    <2> QED  BY <2>3, <2>4, LumaHas
  <1>6. ASSUME NEW o \in Luma(2 * p, 1, 2, 1)  PROVE o \in rgb2ycbcr_subsample_440(w).luma
    <2>1. PICK a \in 0 .. 1 - 1, d \in 0 .. 2 * p - 1, k \in 0 .. 2 - 1, j \in 0 .. 1 - 1, r \in BlockRows :
            o = LumaOctet(2 * p, 1, 2, a, d, k, j, r)
      BY DEF Luma
    <2>2. PICK c \in 0 .. p - 1, e \in 0 .. 2 - 1 : d = 2 * c + e  BY InGroups
    <2>3. o = LumaOctet(2 * p, 1, 2, 0, 2 * c + e, k, 0, r) /\ k \in 0 .. 1
      BY <2>1, <2>2
    <2>4. o \in Sixteen(at(8 * k, 16 * c, r), 128, 8 * k + r, 16 * c)  BY <1>4, <2>3
    <2>5. 8 * k \in Halves /\ 16 * c \in Columns(w, 16)  BY <1>2, <1>3
    <2> QED  BY <1>1, <2>4, <2>5
  <1> QED  BY <1>5, <1>6

\* MCUs one block wide and MCUs h blocks wide hold the same octets in a strip two MCUs high.
LEMMA LumaRegrouped ==
  ASSUME NEW p \in Nat, NEW h \in {1, 2, 4}, NEW n \in {1, 2}
  PROVE  Luma(h * p, 1, 1, n) = Luma(p, h, 1, n)
  <1>1. ASSUME NEW a \in 0 .. n - 1, NEW c \in 0 .. p - 1, NEW e \in 0 .. h - 1, NEW r \in BlockRows
        PROVE  LumaOctet(h * p, 1, 1, a, h * c + e, 0, 0, r) = LumaOctet(p, h, 1, a, c, 0, e, r)
    <2>1. CASE h = 1  BY <2>1 DEF LumaOctet, BlockRows
    <2>2. CASE h = 2  BY <2>2 DEF LumaOctet, BlockRows
    <2>3. CASE h = 4  BY <2>3 DEF LumaOctet, BlockRows
    <2> QED  BY <2>1, <2>2, <2>3
  <1>2. ASSUME NEW o \in Luma(h * p, 1, 1, n)  PROVE o \in Luma(p, h, 1, n)
    <2>1. PICK a \in 0 .. n - 1, d \in 0 .. h * p - 1, k \in 0 .. 1 - 1, j \in 0 .. 1 - 1, r \in BlockRows :
            o = LumaOctet(h * p, 1, 1, a, d, k, j, r)
      BY DEF Luma
    <2>2. PICK c \in 0 .. p - 1, e \in 0 .. h - 1 : d = h * c + e
      <3>1. CASE h = 1  BY <3>1, InGroups
      <3>2. CASE h = 2  BY <3>2, InGroups
      <3>3. CASE h = 4  BY <3>3, InGroups
      <3> QED  BY <3>1, <3>2, <3>3
    <2>3. k = 0 /\ j = 0  OBVIOUS
    <2>4. o = LumaOctet(p, h, 1, a, c, 0, e, r)  BY <1>1, <2>1, <2>2, <2>3
    <2> QED  BY <2>3, <2>4, LumaHas
  <1>3. ASSUME NEW o \in Luma(p, h, 1, n)  PROVE o \in Luma(h * p, 1, 1, n)
    <2>1. PICK a \in 0 .. n - 1, c \in 0 .. p - 1, k \in 0 .. 1 - 1, e \in 0 .. h - 1, r \in BlockRows :
            o = LumaOctet(p, h, 1, a, c, k, e, r)
      BY DEF Luma
    <2>2. k = 0 /\ 0 \in 0 .. 1 - 1  OBVIOUS
    <2>3. h * c + e \in 0 .. h * p - 1
      <3>1. CASE h = 1  BY <3>1
      <3>2. CASE h = 2  BY <3>2
      <3>3. CASE h = 4  BY <3>3
      <3> QED  BY <3>1, <3>2, <3>3
    <2>4. o = LumaOctet(h * p, 1, 1, a, h * c + e, 0, 0, r)  BY <1>1, <2>1, <2>2
    <2> QED  BY <2>2, <2>3, <2>4, LumaHas
  <1> QED  BY <1>2, <1>3

\* One octet of a strip's chroma.
LEMMA ChromaHas ==
  ASSUME NEW q, NEW h, NEW v, NEW n, NEW a \in 0 .. n - 1, NEW c \in 0 .. q - 1, NEW r \in BlockRows
  PROVE  ChromaOctet(q, h, v, a, c, r) \in Chroma(q, h, v, n)
  BY DEF Chroma

\* Without subsampling chroma lies as luma does.
LEMMA ChromaAsLuma ==
  ASSUME NEW q \in Nat
  PROVE  Chroma(q, 1, 1, 2) = Luma(q, 1, 1, 2)
  <1>1. ASSUME NEW a \in 0 .. 1, NEW c \in 0 .. q - 1, NEW r \in BlockRows
        PROVE  ChromaOctet(q, 1, 1, a, c, r) = LumaOctet(q, 1, 1, a, c, 0, 0, r)
    <2>1. CASE a = 0  BY <2>1 DEF ChromaOctet, LumaOctet, BlockRows
    <2>2. CASE a = 1  BY <2>2 DEF ChromaOctet, LumaOctet, BlockRows
    <2> QED  BY <2>1, <2>2
  <1>2. ASSUME NEW o \in Chroma(q, 1, 1, 2)  PROVE o \in Luma(q, 1, 1, 2)
    <2>1. PICK a \in 0 .. 2 - 1, c \in 0 .. q - 1, r \in BlockRows : o = ChromaOctet(q, 1, 1, a, c, r)
      BY DEF Chroma
    <2>2. a \in 0 .. 1 /\ 0 \in 0 .. 1 - 1  OBVIOUS
    <2>3. o = LumaOctet(q, 1, 1, a, c, 0, 0, r)  BY <1>1, <2>1, <2>2
    <2> QED  BY <2>2, <2>3, LumaHas
  <1>3. ASSUME NEW o \in Luma(q, 1, 1, 2)  PROVE o \in Chroma(q, 1, 1, 2)
    <2>1. PICK a \in 0 .. 2 - 1, c \in 0 .. q - 1, k \in 0 .. 1 - 1, j \in 0 .. 1 - 1, r \in BlockRows :
            o = LumaOctet(q, 1, 1, a, c, k, j, r)
      BY DEF Luma
    <2>2. a \in 0 .. 1 /\ k = 0 /\ j = 0  OBVIOUS
    <2>3. o = ChromaOctet(q, 1, 1, a, c, r)  BY <1>1, <2>1, <2>2
    <2> QED  BY <2>3, ChromaHas
  <1> QED  BY <1>2, <1>3

\* 4:2:2 has a row of chroma for every row.
LEMMA Chroma422 ==
  ASSUME NEW p \in Nat
  PROVE  rgb2ycbcr_subsample_422(16 * p).chroma = Chroma(p, 2, 1, 2)
  <1> DEFINE w == 16 * p
             at(i, j, r) == 64 * ((i \div 8) * Steps(w, 16) + j \div 16) + 8 * r
             Stored == rgb2ycbcr_subsample_422(w).chroma
  <1>1. Stored = {Octet(at(i, j, r), i + r, j, 1, 16) : i \in Halves, j \in Columns(w, 16), r \in BlockRows}
    BY DEF rgb2ycbcr_subsample_422
  <1>2. /\ Steps(w, 16) = p /\ Columns(w, 16) = {16 * c : c \in 0 .. p - 1}
        /\ \A c \in 0 .. p - 1 : (16 * c) \div 16 = c
    BY ColumnsOf
  <1>3. Halves = {8 * a : a \in 0 .. 2 - 1} /\ \A a \in 0 .. 2 - 1 : (8 * a) \div 8 = a
    BY DEF Halves
  <1>4. ASSUME NEW a \in 0 .. 2 - 1, NEW c \in 0 .. p - 1, NEW r \in BlockRows
        PROVE  Octet(at(8 * a, 16 * c, r), 8 * a + r, 16 * c, 1, 16) = ChromaOctet(p, 2, 1, a, c, r)
    <2>1. at(8 * a, 16 * c, r) = 64 * (a * p + c) + 8 * r  BY <1>2, <1>3
    <2>2. CASE a = 0  BY <2>1, <2>2 DEF ChromaOctet, BlockRows
    <2>3. CASE a = 1  BY <2>1, <2>3 DEF ChromaOctet, BlockRows
    <2> QED  BY <2>2, <2>3
  <1> HIDE DEF at, Stored
  <1>5. ASSUME NEW o \in Stored  PROVE o \in Chroma(p, 2, 1, 2)
    <2>1. PICK i \in Halves, j \in Columns(w, 16), r \in BlockRows : o = Octet(at(i, j, r), i + r, j, 1, 16)
      BY <1>1
    <2>2. PICK a \in 0 .. 2 - 1, c \in 0 .. p - 1 : i = 8 * a /\ j = 16 * c  BY <1>2, <1>3
    <2> QED  BY <1>4, <2>1, <2>2, ChromaHas
  <1>6. ASSUME NEW o \in Chroma(p, 2, 1, 2)  PROVE o \in Stored
    <2>1. PICK a \in 0 .. 2 - 1, c \in 0 .. p - 1, r \in BlockRows : o = ChromaOctet(p, 2, 1, a, c, r)
      BY DEF Chroma
    <2>2. 8 * a \in Halves /\ 16 * c \in Columns(w, 16)  BY <1>2, <1>3
    <2> QED  BY <1>1, <1>4, <2>1, <2>2
  <1> QED  BY <1>5, <1>6 DEF Stored

\* So has 4:1:1.
LEMMA Chroma411 ==
  ASSUME NEW p \in Nat
  PROVE  rgb2ycbcr_subsample_411(32 * p).chroma = Chroma(p, 4, 1, 2)
  <1> DEFINE w == 32 * p
             at(i, j, r) == 64 * ((i \div 8) * Steps(w, 32) + j \div 32) + 8 * r
             Stored == rgb2ycbcr_subsample_411(w).chroma
  <1>1. Stored = {Octet(at(i, j, r), i + r, j, 1, 32) : i \in Halves, j \in Columns(w, 32), r \in BlockRows}
    BY DEF rgb2ycbcr_subsample_411
  <1>2. /\ Steps(w, 32) = p /\ Columns(w, 32) = {32 * c : c \in 0 .. p - 1}
        /\ \A c \in 0 .. p - 1 : (32 * c) \div 32 = c
    BY ColumnsOf
  <1>3. Halves = {8 * a : a \in 0 .. 2 - 1} /\ \A a \in 0 .. 2 - 1 : (8 * a) \div 8 = a
    BY DEF Halves
  <1>4. ASSUME NEW a \in 0 .. 2 - 1, NEW c \in 0 .. p - 1, NEW r \in BlockRows
        PROVE  Octet(at(8 * a, 32 * c, r), 8 * a + r, 32 * c, 1, 32) = ChromaOctet(p, 4, 1, a, c, r)
    <2>1. at(8 * a, 32 * c, r) = 64 * (a * p + c) + 8 * r  BY <1>2, <1>3
    <2>2. CASE a = 0  BY <2>1, <2>2 DEF ChromaOctet, BlockRows
    <2>3. CASE a = 1  BY <2>1, <2>3 DEF ChromaOctet, BlockRows
    <2> QED  BY <2>2, <2>3
  <1> HIDE DEF at, Stored
  <1>5. ASSUME NEW o \in Stored  PROVE o \in Chroma(p, 4, 1, 2)
    <2>1. PICK i \in Halves, j \in Columns(w, 32), r \in BlockRows : o = Octet(at(i, j, r), i + r, j, 1, 32)
      BY <1>1
    <2>2. PICK a \in 0 .. 2 - 1, c \in 0 .. p - 1 : i = 8 * a /\ j = 32 * c  BY <1>2, <1>3
    <2> QED  BY <1>4, <2>1, <2>2, ChromaHas
  <1>6. ASSUME NEW o \in Chroma(p, 4, 1, 2)  PROVE o \in Stored
    <2>1. PICK a \in 0 .. 2 - 1, c \in 0 .. p - 1, r \in BlockRows : o = ChromaOctet(p, 4, 1, a, c, r)
      BY DEF Chroma
    <2>2. 8 * a \in Halves /\ 32 * c \in Columns(w, 32)  BY <1>2, <1>3
    <2> QED  BY <1>1, <1>4, <2>1, <2>2
  <1> QED  BY <1>5, <1>6 DEF Stored

\* The odd rows of the two rows of blocks, each with the row above, are the eight rows
\* of a block of chroma.
LEMMA RowPairs ==
  /\ \A i \in Halves, r \in Odd : \E t \in BlockRows : i + r - 1 = 2 * t /\ 4 * i + 8 * (r \div 2) = 8 * t
  /\ \A t \in BlockRows : \E i \in Halves, r \in Odd : i + r - 1 = 2 * t /\ 4 * i + 8 * (r \div 2) = 8 * t
  <1>1. Odd = {1, 3, 5, 7}  BY DEF Odd, BlockRows
  <1>2. BlockRows = {0, 1, 2, 3, 4, 5, 6, 7}  BY DEF BlockRows
  <1> QED  BY <1>1, <1>2 DEF Halves

\* 4:2:0 has one for every two.
LEMMA Chroma420 ==
  ASSUME NEW p \in Nat
  PROVE  rgb2ycbcr_subsample_420(16 * p).chroma = Chroma(p, 2, 2, 1)
  <1> DEFINE w == 16 * p
             Stored == rgb2ycbcr_subsample_420(w).chroma
             Put(i, j, r) == Octet(4 * j + 4 * i + 8 * (r \div 2), i + r - 1, j, 2, 16)
  <1>1. Stored = {Put(i, j, r) : i \in Halves, j \in Columns(w, 16), r \in Odd}
    BY DEF rgb2ycbcr_subsample_420
  <1>2. Columns(w, 16) = {16 * c : c \in 0 .. p - 1}  BY ColumnsOf
  <1>3. ASSUME NEW i \in Halves, NEW c \in 0 .. p - 1, NEW r \in Odd, NEW t \in BlockRows,
               i + r - 1 = 2 * t, 4 * i + 8 * (r \div 2) = 8 * t
        PROVE  Put(i, 16 * c, r) = ChromaOctet(p, 2, 2, 0, c, t)
    <2>1. 4 * (16 * c) + 4 * i + 8 * (r \div 2) = 64 * (p * 0 + c) + 8 * t
      BY <1>3 DEF Halves, BlockRows, Odd
    <2>2. i + r - 1 = (0 * 8 + t) * 2 /\ 16 * c = c * 8 * 2 /\ 8 * 2 = 16  BY <1>3 DEF BlockRows
    <2> QED  BY <2>1, <2>2 DEF ChromaOctet
  <1> HIDE DEF Put, Stored
  <1>4. ASSUME NEW o \in Stored  PROVE o \in Chroma(p, 2, 2, 1)
    <2>1. PICK i \in Halves, j \in Columns(w, 16), r \in Odd : o = Put(i, j, r)  BY <1>1
    <2>2. PICK c \in 0 .. p - 1 : j = 16 * c  BY <1>2
    <2>3. PICK t \in BlockRows : i + r - 1 = 2 * t /\ 4 * i + 8 * (r \div 2) = 8 * t  BY RowPairs
    <2>4. 0 \in 0 .. 1 - 1  OBVIOUS
    <2> QED  BY <1>3, <2>1, <2>2, <2>3, <2>4, ChromaHas
  <1>5. ASSUME NEW o \in Chroma(p, 2, 2, 1)  PROVE o \in Stored
    <2>1. PICK a \in 0 .. 1 - 1, c \in 0 .. p - 1, t \in BlockRows : o = ChromaOctet(p, 2, 2, a, c, t)
      BY DEF Chroma
    <2>2. PICK i \in Halves, r \in Odd : i + r - 1 = 2 * t /\ 4 * i + 8 * (r \div 2) = 8 * t  BY RowPairs
    <2>3. a = 0 /\ 16 * c \in Columns(w, 16)  BY <1>2
    <2> QED  BY <1>1, <1>3, <2>1, <2>2, <2>3
  <1> QED  BY <1>4, <1>5 DEF Stored

\* So has 4:1:0.
LEMMA Chroma410 ==
  ASSUME NEW p \in Nat
  PROVE  rgb2ycbcr_subsample_410(32 * p).chroma = Chroma(p, 4, 2, 1)
  <1> DEFINE w == 32 * p
             Stored == rgb2ycbcr_subsample_410(w).chroma
             Put(i, j, r) == Octet(2 * j + 4 * i + 8 * (r \div 2), i + r - 1, j, 2, 32)
  <1>1. Stored = {Put(i, j, r) : i \in Halves, j \in Columns(w, 32), r \in Odd}
    BY DEF rgb2ycbcr_subsample_410
  <1>2. Columns(w, 32) = {32 * c : c \in 0 .. p - 1}  BY ColumnsOf
  <1>3. ASSUME NEW i \in Halves, NEW c \in 0 .. p - 1, NEW r \in Odd, NEW t \in BlockRows,
               i + r - 1 = 2 * t, 4 * i + 8 * (r \div 2) = 8 * t
        PROVE  Put(i, 32 * c, r) = ChromaOctet(p, 4, 2, 0, c, t)
    <2>1. 2 * (32 * c) + 4 * i + 8 * (r \div 2) = 64 * (p * 0 + c) + 8 * t
      BY <1>3 DEF Halves, BlockRows, Odd
    <2>2. i + r - 1 = (0 * 8 + t) * 2 /\ 32 * c = c * 8 * 4 /\ 8 * 4 = 32  BY <1>3 DEF BlockRows
    <2> QED  BY <2>1, <2>2 DEF ChromaOctet
  <1> HIDE DEF Put, Stored
  <1>4. ASSUME NEW o \in Stored  PROVE o \in Chroma(p, 4, 2, 1)
    <2>1. PICK i \in Halves, j \in Columns(w, 32), r \in Odd : o = Put(i, j, r)  BY <1>1
    <2>2. PICK c \in 0 .. p - 1 : j = 32 * c  BY <1>2
    <2>3. PICK t \in BlockRows : i + r - 1 = 2 * t /\ 4 * i + 8 * (r \div 2) = 8 * t  BY RowPairs
    <2>4. 0 \in 0 .. 1 - 1  OBVIOUS
    <2> QED  BY <1>3, <2>1, <2>2, <2>3, <2>4, ChromaHas
  <1>5. ASSUME NEW o \in Chroma(p, 4, 2, 1)  PROVE o \in Stored
    <2>1. PICK a \in 0 .. 1 - 1, c \in 0 .. p - 1, t \in BlockRows : o = ChromaOctet(p, 4, 2, a, c, t)
      BY DEF Chroma
    <2>2. PICK i \in Halves, r \in Odd : i + r - 1 = 2 * t /\ 4 * i + 8 * (r \div 2) = 8 * t  BY RowPairs
    <2>3. a = 0 /\ 32 * c \in Columns(w, 32)  BY <1>2
    <2> QED  BY <1>1, <1>3, <2>1, <2>2, <2>3
  <1> QED  BY <1>4, <1>5 DEF Stored

\* 4:4:0 has two octets of chroma where 4:2:0 has one.
LEMMA Chroma440 ==
  ASSUME NEW p \in Nat
  PROVE  rgb2ycbcr_subsample_440(16 * p).chroma = Chroma(2 * p, 1, 2, 1)
  <1> DEFINE w == 16 * p
             Stored == rgb2ycbcr_subsample_440(w).chroma
             Put(i, j, r) == {Octet(8 * j + 4 * i + 8 * (r \div 2), i + r - 1, j, 2, 8),
                              Octet(8 * j + 4 * i + 8 * (r \div 2) + 64, i + r - 1, j + 8, 2, 8)}
  <1>1. Stored = UNION {Put(i, j, r) : i \in Halves, j \in Columns(w, 16), r \in Odd}
    BY DEF rgb2ycbcr_subsample_440
  <1>2. Columns(w, 16) = {16 * c : c \in 0 .. p - 1}  BY ColumnsOf
  <1>3. ASSUME NEW i \in Halves, NEW c \in 0 .. p - 1, NEW r \in Odd, NEW t \in BlockRows,
               i + r - 1 = 2 * t, 4 * i + 8 * (r \div 2) = 8 * t
        PROVE  Put(i, 16 * c, r) = {ChromaOctet(2 * p, 1, 2, 0, 2 * c + e, t) : e \in 0 .. 1}
    <2>1. 8 * (16 * c) + 4 * i + 8 * (r \div 2) = 128 * c + 8 * t
      BY <1>3 DEF Halves, BlockRows, Odd
    <2>2. i + r - 1 = (0 * 8 + t) * 2  BY <1>3 DEF BlockRows
    <2>3. Put(i, 16 * c, r) = {Octet(128 * c + 8 * t, (0 * 8 + t) * 2, 16 * c, 2, 8),
                               Octet(128 * c + 8 * t + 64, (0 * 8 + t) * 2, 16 * c + 8, 2, 8)}
      BY <2>1, <2>2
    <2>4. /\ 64 * (2 * p * 0 + (2 * c + 0)) + 8 * t = 128 * c + 8 * t /\ (2 * c + 0) * 8 * 1 = 16 * c
          /\ 64 * (2 * p * 0 + (2 * c + 1)) + 8 * t = 128 * c + 8 * t + 64 /\ (2 * c + 1) * 8 * 1 = 16 * c + 8
          /\ 8 * 1 = 8
      BY DEF BlockRows
    <2>5. /\ ChromaOctet(2 * p, 1, 2, 0, 2 * c + 0, t) = Octet(128 * c + 8 * t, (0 * 8 + t) * 2, 16 * c, 2, 8)
          /\ ChromaOctet(2 * p, 1, 2, 0, 2 * c + 1, t) = Octet(128 * c + 8 * t + 64, (0 * 8 + t) * 2, 16 * c + 8, 2, 8)
      BY <2>4 DEF ChromaOctet
    <2>6. {ChromaOctet(2 * p, 1, 2, 0, 2 * c + e, t) : e \in 0 .. 1}
          = {ChromaOctet(2 * p, 1, 2, 0, 2 * c + 0, t), ChromaOctet(2 * p, 1, 2, 0, 2 * c + 1, t)}
      <3> 0 .. 1 = {0, 1}  OBVIOUS
      <3> QED  OBVIOUS
    <2> HIDE DEF Put
    <2> QED  BY <2>3, <2>5, <2>6
  <1> HIDE DEF Put, Stored
  <1>4. ASSUME NEW o \in Stored  PROVE o \in Chroma(2 * p, 1, 2, 1)
    <2>1. PICK i \in Halves, j \in Columns(w, 16), r \in Odd : o \in Put(i, j, r)  BY <1>1
    <2>2. PICK c \in 0 .. p - 1 : j = 16 * c  BY <1>2
    <2>3. PICK t \in BlockRows : i + r - 1 = 2 * t /\ 4 * i + 8 * (r \div 2) = 8 * t  BY RowPairs
    <2>4. PICK e \in 0 .. 1 : o = ChromaOctet(2 * p, 1, 2, 0, 2 * c + e, t)  BY <1>3, <2>1, <2>2, <2>3
    <2>5. 0 \in 0 .. 1 - 1 /\ 2 * c + e \in 0 .. 2 * p - 1  OBVIOUS
    <2> QED  BY <2>4, <2>5, ChromaHas
  <1>5. ASSUME NEW o \in Chroma(2 * p, 1, 2, 1)  PROVE o \in Stored
    <2>1. PICK a \in 0 .. 1 - 1, d \in 0 .. 2 * p - 1, t \in BlockRows : o = ChromaOctet(2 * p, 1, 2, a, d, t)
      BY DEF Chroma
    <2>2. PICK c \in 0 .. p - 1, e \in 0 .. 2 - 1 : d = 2 * c + e  BY InGroups
    <2>3. PICK i \in Halves, r \in Odd : i + r - 1 = 2 * t /\ 4 * i + 8 * (r \div 2) = 8 * t  BY RowPairs
    <2>4. a = 0 /\ e \in 0 .. 1 /\ 16 * c \in Columns(w, 16)  BY <1>2
    <2>5. o \in Put(i, 16 * c, r)  BY <1>3, <2>1, <2>2, <2>3, <2>4
    <2> QED  BY <1>1, <2>4, <2>5
  <1> QED  BY <1>4, <1>5 DEF Stored

-----------------------------------------------------------------------------
(* The fused converters and the two passes. *)

\* Two adjacent blocks, row by row.
LEMMA BlocksByRows ==
  ASSUME NEW at \in Int, NEW gap \in Int, NEW y \in Int, NEW x \in Int
  PROVE  TwoBlocks(at, gap, y, x) = UNION {Sixteen(at + 8 * r, gap, y + r, x) : r \in BlockRows}
  <1>1. \A r \in BlockRows : at + gap + 8 * r = at + 8 * r + gap  BY DEF BlockRows
  <1>2. ASSUME NEW o \in TwoBlocks(at, gap, y, x)
        PROVE  \E r \in BlockRows : o \in Sixteen(at + 8 * r, gap, y + r, x)
    BY <1>1 DEF TwoBlocks, Block, Sixteen
  <1>3. ASSUME NEW r \in BlockRows, NEW o \in Sixteen(at + 8 * r, gap, y + r, x)
        PROVE  o \in TwoBlocks(at, gap, y, x)
    BY <1>1 DEF TwoBlocks, Block, Sixteen
  <1> QED  BY <1>2, <1>3

\* Gray.
LEMMA GrayMirrors ==
  ASSUME NEW w \in Nat
  PROVE  rgb2ycbcr_subsample_gray(w).luma = subsample_GRAY(w).luma
  <1> DEFINE at(i, j) == 128 * ((i \div 8) * Steps(w, 16) + j \div 16)
  <1>1. /\ rgb2ycbcr_subsample_gray(w).luma =
             UNION {Sixteen(at(i, j) + 8 * r, 64, i + r, j) : i \in Halves, j \in Columns(w, 16), r \in BlockRows}
        /\ subsample_GRAY(w).luma = UNION {TwoBlocks(at(i, j), 64, i, j) : i \in Halves, j \in Columns(w, 16)}
    BY DEF rgb2ycbcr_subsample_gray, subsample_GRAY
  <1>2. ASSUME NEW i \in Halves, NEW j \in Columns(w, 16)
        PROVE  TwoBlocks(at(i, j), 64, i, j) = UNION {Sixteen(at(i, j) + 8 * r, 64, i + r, j) : r \in BlockRows}
    <2>1. i \in Int /\ j \in Int /\ Steps(w, 16) \in Int  BY DEF Halves, Columns, Steps
    <2>2. at(i, j) \in Int  BY <2>1
    <2> QED  BY <2>1, <2>2, BlocksByRows
  <1> HIDE DEF at
  <1> QED  BY <1>1, <1>2

\* The k-th odd row, and the row above it.
LEMMA OddRows == Odd = {2 * k + 1 : k \in 0 .. 3} /\ \A k \in 0 .. 3 : (2 * k + 1) \div 2 = k
  <1>1. Odd = {1, 3, 5, 7}  BY DEF Odd, BlockRows
  <1>2. \A k \in 0 .. 3 : k \in {0, 1, 2, 3}  OBVIOUS
  <1>3. {2 * k + 1 : k \in 0 .. 3} = {1, 3, 5, 7}  BY <1>2
  <1> QED  BY <1>1, <1>3

\* 4:4:0.
LEMMA Mirrors440 ==
  ASSUME NEW w \in Nat
  PROVE  rgb2ycbcr_subsample_440(w) = subsample_440(w)
  <1> DEFINE at(i, j) == 16 * j + 8 * i
             Pair(i, j, k) == {Octet(8 * j + 4 * i + 8 * k, i + 2 * k, j, 2, 8),
                               Octet(8 * j + 4 * i + 8 * k + 64, i + 2 * k, j + 8, 2, 8)}
  <1>1. ASSUME NEW i \in Halves, NEW j \in Columns(w, 16)
        PROVE  i \in Int /\ j \in Int
    BY DEF Halves, Columns
  <1>2. rgb2ycbcr_subsample_440(w).luma = subsample_440(w).luma
    <2>1. /\ rgb2ycbcr_subsample_440(w).luma =
               UNION {Sixteen(at(i, j) + 8 * r, 128, i + r, j) : i \in Halves, j \in Columns(w, 16), r \in BlockRows}
          /\ subsample_440(w).luma = UNION {TwoBlocks(at(i, j), 128, i, j) : i \in Halves, j \in Columns(w, 16)}
      BY DEF rgb2ycbcr_subsample_440, subsample_440
    <2>2. ASSUME NEW i \in Halves, NEW j \in Columns(w, 16)
          PROVE  TwoBlocks(at(i, j), 128, i, j) = UNION {Sixteen(at(i, j) + 8 * r, 128, i + r, j) : r \in BlockRows}
      BY <1>1, BlocksByRows
    <2> HIDE DEF at
    <2> QED  BY <2>1, <2>2
  <1>3. rgb2ycbcr_subsample_440(w).chroma = UNION {Pair(i, j, k) : i \in Halves, j \in Columns(w, 16), k \in 0 .. 3}
    <2> DEFINE Put(i, j, r) == {Octet(8 * j + 4 * i + 8 * (r \div 2), i + r - 1, j, 2, 8),
                                Octet(8 * j + 4 * i + 8 * (r \div 2) + 64, i + r - 1, j + 8, 2, 8)}
    <2>1. rgb2ycbcr_subsample_440(w).chroma = UNION {Put(i, j, r) : i \in Halves, j \in Columns(w, 16), r \in Odd}
      BY DEF rgb2ycbcr_subsample_440
    <2>2. ASSUME NEW i \in Halves, NEW j \in Columns(w, 16), NEW k \in 0 .. 3
          PROVE  Put(i, j, 2 * k + 1) = Pair(i, j, k)
      <3>1. (2 * k + 1) \div 2 = k /\ i + (2 * k + 1) - 1 = i + 2 * k  BY <1>1
      <3> QED  BY <3>1
    <2> HIDE DEF Put, Pair
    <2> QED  BY <2>1, <2>2, OddRows
  <1>4. subsample_440(w).chroma = UNION {Pair(i, j, k) : i \in Halves, j \in Columns(w, 16), k \in 0 .. 3}
    <2> DEFINE Put(i, j, k) == {Octet(8 * j + 4 * i + 8 * k, i + 2 * k, j, 2, 8),
                                Octet(8 * j + 4 * i + 8 * (8 + k), i + 2 * k, j + 8, 2, 8)}
    <2>1. subsample_440(w).chroma = UNION {Put(i, j, k) : i \in Halves, j \in Columns(w, 16), k \in 0 .. 3}
      BY DEF subsample_440
    <2>2. ASSUME NEW i \in Halves, NEW j \in Columns(w, 16), NEW k \in 0 .. 3
          PROVE  Put(i, j, k) = Pair(i, j, k)
      <3>1. 8 * j + 4 * i + 8 * (8 + k) = 8 * j + 4 * i + 8 * k + 64  BY <1>1
      <3> QED  BY <3>1
    <2> HIDE DEF Put, Pair
    <2> QED  BY <2>1, <2>2
  <1>5. /\ rgb2ycbcr_subsample_440(w) = [luma |-> rgb2ycbcr_subsample_440(w).luma, chroma |-> rgb2ycbcr_subsample_440(w).chroma]
        /\ subsample_440(w) = [luma |-> subsample_440(w).luma, chroma |-> subsample_440(w).chroma]
    BY DEF rgb2ycbcr_subsample_440, subsample_440
  <1> HIDE DEF Pair
  <1>6. rgb2ycbcr_subsample_440(w).chroma = subsample_440(w).chroma  BY <1>3, <1>4
  <1> QED  BY <1>2, <1>5, <1>6

\* 4:2:0.
LEMMA Mirrors420 ==
  ASSUME NEW w \in Nat
  PROVE  rgb2ycbcr_subsample_420(w) = subsample_420(w)
  <1> DEFINE at(i, j) == 128 * (2 * (j \div 16) + i \div 8)
             One(i, j, k) == Octet(4 * j + 4 * i + 8 * k, i + 2 * k, j, 2, 16)
  <1>1. ASSUME NEW i \in Halves, NEW j \in Columns(w, 16)
        PROVE  i \in Int /\ j \in Int
    BY DEF Halves, Columns
  <1>2. rgb2ycbcr_subsample_420(w).luma = subsample_420(w).luma
    <2>1. /\ rgb2ycbcr_subsample_420(w).luma =
               UNION {Sixteen(at(i, j) + 8 * r, 64, i + r, j) : i \in Halves, j \in Columns(w, 16), r \in BlockRows}
          /\ subsample_420(w).luma = UNION {TwoBlocks(at(i, j), 64, i, j) : i \in Halves, j \in Columns(w, 16)}
      BY DEF rgb2ycbcr_subsample_420, subsample_420
    <2>2. ASSUME NEW i \in Halves, NEW j \in Columns(w, 16)
          PROVE  TwoBlocks(at(i, j), 64, i, j) = UNION {Sixteen(at(i, j) + 8 * r, 64, i + r, j) : r \in BlockRows}
      BY <1>1, BlocksByRows
    <2> HIDE DEF at
    <2> QED  BY <2>1, <2>2
  <1>3. rgb2ycbcr_subsample_420(w).chroma = {One(i, j, k) : i \in Halves, j \in Columns(w, 16), k \in 0 .. 3}
    <2> DEFINE Put(i, j, r) == Octet(4 * j + 4 * i + 8 * (r \div 2), i + r - 1, j, 2, 16)
    <2>1. rgb2ycbcr_subsample_420(w).chroma = {Put(i, j, r) : i \in Halves, j \in Columns(w, 16), r \in Odd}
      BY DEF rgb2ycbcr_subsample_420
    <2>2. ASSUME NEW i \in Halves, NEW j \in Columns(w, 16), NEW k \in 0 .. 3
          PROVE  Put(i, j, 2 * k + 1) = One(i, j, k)
      <3>1. (2 * k + 1) \div 2 = k /\ i + (2 * k + 1) - 1 = i + 2 * k  BY <1>1
      <3> QED  BY <3>1
    <2> HIDE DEF Put, One
    <2> QED  BY <2>1, <2>2, OddRows
  <1>4. subsample_420(w).chroma = {One(i, j, k) : i \in Halves, j \in Columns(w, 16), k \in 0 .. 3}
    BY DEF subsample_420
  <1>5. /\ rgb2ycbcr_subsample_420(w) = [luma |-> rgb2ycbcr_subsample_420(w).luma, chroma |-> rgb2ycbcr_subsample_420(w).chroma]
        /\ subsample_420(w) = [luma |-> subsample_420(w).luma, chroma |-> subsample_420(w).chroma]
    BY DEF rgb2ycbcr_subsample_420, subsample_420
  <1> HIDE DEF One
  <1>6. rgb2ycbcr_subsample_420(w).chroma = subsample_420(w).chroma  BY <1>3, <1>4
  <1> QED  BY <1>2, <1>5, <1>6

\* 4:1:0.
LEMMA Mirrors410 ==
  ASSUME NEW w \in Nat
  PROVE  rgb2ycbcr_subsample_410(w) = subsample_410(w)
  <1> DEFINE Fused(i, j, r) == Octet(2 * j + 4 * i + 8 * (r \div 2), i + r - 1, j, 2, 32)
             Second(i, j, r) == Octet(2 * j + 4 * i + 4 * (r - 1), i + r - 1, j, 2, 32)
  <1>1. ASSUME NEW i \in Halves, NEW j \in Columns(w, 32), NEW r \in Odd
        PROVE  Fused(i, j, r) = Second(i, j, r)
    <2>1. PICK k \in 0 .. 3 : r = 2 * k + 1  BY OddRows
    <2>2. 8 * (r \div 2) = 4 * (r - 1)  BY <2>1
    <2> QED  BY <2>2
  <1>2. /\ rgb2ycbcr_subsample_410(w).chroma = {Fused(i, j, r) : i \in Halves, j \in Columns(w, 32), r \in Odd}
        /\ subsample_410(w).chroma = {Second(i, j, r) : i \in Halves, j \in Columns(w, 32), r \in Odd}
    BY DEF rgb2ycbcr_subsample_410, subsample_410, Fused, Second
  <1>3. rgb2ycbcr_subsample_410(w).luma = subsample_410(w).luma  BY DEF rgb2ycbcr_subsample_410, subsample_410
  <1>4. /\ rgb2ycbcr_subsample_410(w) = [luma |-> rgb2ycbcr_subsample_410(w).luma, chroma |-> rgb2ycbcr_subsample_410(w).chroma]
        /\ subsample_410(w) = [luma |-> subsample_410(w).luma, chroma |-> subsample_410(w).chroma]
    BY DEF rgb2ycbcr_subsample_410, subsample_410
  <1> HIDE DEF Fused, Second
  <1>5. rgb2ycbcr_subsample_410(w).chroma = subsample_410(w).chroma  BY <1>1, <1>2
  <1> QED  BY <1>3, <1>4, <1>5

\* Every format: the fused converter stores what the two passes stored.
LEMMA Mirrors ==
  ASSUME NEW ycc \in YCC, NEW w \in Nat
  PROVE  rgb2ycbcr_subsample(ycc, w) = subsample(ycc, w)
  <1>1. CASE ycc = "YUV444"
    <2>1. rgb2ycbcr_subsample_444(w).luma = rgb2ycbcr_subsample_gray(w).luma /\ subsample_444(w).luma = subsample_GRAY(w).luma
      BY DEF rgb2ycbcr_subsample_444, rgb2ycbcr_subsample_gray, subsample_444, subsample_GRAY
    <2>2. rgb2ycbcr_subsample_444(w).luma = subsample_444(w).luma  BY <2>1, GrayMirrors
    <2>3. /\ rgb2ycbcr_subsample_444(w) = [luma |-> rgb2ycbcr_subsample_444(w).luma, chroma |-> rgb2ycbcr_subsample_444(w).luma]
          /\ subsample_444(w) = [luma |-> subsample_444(w).luma, chroma |-> subsample_444(w).luma]
      BY DEF rgb2ycbcr_subsample_444, subsample_444
    <2> QED  BY <1>1, <2>2, <2>3 DEF rgb2ycbcr_subsample, subsample
  <1>2. CASE ycc = "YUV422"
    <2>1. rgb2ycbcr_subsample_422(w).luma = rgb2ycbcr_subsample_gray(w).luma /\ subsample_422(w).luma = subsample_GRAY(w).luma
      BY DEF rgb2ycbcr_subsample_422, rgb2ycbcr_subsample_gray, subsample_422, subsample_GRAY
    <2>2. rgb2ycbcr_subsample_422(w).luma = subsample_422(w).luma  BY <2>1, GrayMirrors
    <2>3. rgb2ycbcr_subsample_422(w).chroma = subsample_422(w).chroma
      BY DEF rgb2ycbcr_subsample_422, subsample_422
    <2>4. /\ rgb2ycbcr_subsample_422(w) = [luma |-> rgb2ycbcr_subsample_422(w).luma, chroma |-> rgb2ycbcr_subsample_422(w).chroma]
          /\ subsample_422(w) = [luma |-> subsample_422(w).luma, chroma |-> subsample_422(w).chroma]
      BY DEF rgb2ycbcr_subsample_422, subsample_422
    <2> QED  BY <1>2, <2>2, <2>3, <2>4 DEF rgb2ycbcr_subsample, subsample
  <1>3. CASE ycc = "YUV411"
    <2>1. rgb2ycbcr_subsample_411(w) = subsample_411(w)  BY DEF rgb2ycbcr_subsample_411, subsample_411
    <2> QED  BY <1>3, <2>1 DEF rgb2ycbcr_subsample, subsample
  <1>4. CASE ycc = "YUV440"  BY <1>4, Mirrors440 DEF rgb2ycbcr_subsample, subsample
  <1>5. CASE ycc = "YUV420"  BY <1>5, Mirrors420 DEF rgb2ycbcr_subsample, subsample
  <1>6. CASE ycc = "YUV410"  BY <1>6, Mirrors410 DEF rgb2ycbcr_subsample, subsample
  <1>7. rgb2ycbcr_subsample_gray(w) = subsample_GRAY(w) /\ subsample_GRAY2(w) = subsample_GRAY(w)
    <2>1. rgb2ycbcr_subsample_gray(w).luma = subsample_GRAY(w).luma  BY GrayMirrors
    <2>2. /\ rgb2ycbcr_subsample_gray(w) = [luma |-> rgb2ycbcr_subsample_gray(w).luma, chroma |-> NoChroma]
          /\ subsample_GRAY(w) = [luma |-> subsample_GRAY(w).luma, chroma |-> NoChroma]
      BY DEF rgb2ycbcr_subsample_gray, subsample_GRAY
    <2>3. subsample_GRAY2(w) = subsample_GRAY(w)  BY DEF subsample_GRAY, subsample_GRAY2
    <2> QED  BY <2>1, <2>2, <2>3
  <1>8. CASE ycc = "GRAY"  BY <1>7, <1>8 DEF rgb2ycbcr_subsample, subsample
  <1>9. CASE ycc = "GRAY2"  BY <1>7, <1>9 DEF rgb2ycbcr_subsample, subsample
  <1> QED  BY <1>1, <1>2, <1>3, <1>4, <1>5, <1>6, <1>8, <1>9 DEF YCC

-----------------------------------------------------------------------------
(* Every converter puts a strip's octets where they belong. *)

\* How the scalar converter walks over a strip.
LEMMA ScalarWalk ==
  ASSUME NEW q \in Nat, NEW h \in {1, 2, 4}
  PROVE  /\ Steps(8 * h * q, 8 * h) = q
         /\ Columns(8 * h * q, 8 * h) = {8 * h * c : c \in 0 .. q - 1}
         /\ \A c \in 0 .. q - 1 : (8 * h * c) \div (8 * h) = c
         /\ Columns(8 * h, 8) = {8 * e : e \in 0 .. h - 1}
  <1>1. CASE h = 1  BY <1>1 DEF Steps, Columns
  <1>2. CASE h = 2  BY <1>2 DEF Steps, Columns
  <1>3. CASE h = 4  BY <1>3 DEF Steps, Columns
  <1> QED  BY <1>1, <1>2, <1>3

\* Luma where MCUs are two blocks high.
LEMMA ScalarTall ==
  ASSUME NEW q \in Nat, NEW h \in {1, 2, 4}, NEW ycc \in {"YUV440", "YUV420", "YUV410"}
  PROVE  scalar_luma(ycc, 8 * h * q, h, 2) = Luma(q, h, 2, 1)
  <1> DEFINE w == 8 * h * q
             Top == {n \in {0, 8} : n % (8 * 2) = 0}
             Put(i, j, y, x, r) == Octet(64 * (((i \div (8 * 2)) * Steps(w, 8 * h) + j \div (8 * h)) * h * 2
                                               + (y \div 8) * h + x \div 8) + 8 * r, i + y + r, j + x, 1, 8)
  <1>1. scalar_luma(ycc, w, h, 2) =
          {Put(i, j, y, x, r) : i \in Top, j \in Columns(w, 8 * h), y \in Columns(8 * 2, 8),
             x \in Columns(8 * h, 8), r \in BlockRows}
    BY DEF scalar_luma
  <1>2. /\ Steps(w, 8 * h) = q /\ Columns(w, 8 * h) = {8 * h * c : c \in 0 .. q - 1}
        /\ \A c \in 0 .. q - 1 : (8 * h * c) \div (8 * h) = c
        /\ Columns(8 * h, 8) = {8 * e : e \in 0 .. h - 1}
    BY ScalarWalk
  <1>3. Top = {0} /\ Columns(8 * 2, 8) = {8 * k : k \in 0 .. 2 - 1}  BY DEF Columns
  <1>4. ASSUME NEW c \in 0 .. q - 1, NEW k \in 0 .. 2 - 1, NEW e \in 0 .. h - 1, NEW r \in BlockRows
        PROVE  Put(0, 8 * h * c, 8 * k, 8 * e, r) = LumaOctet(q, h, 2, 0, c, k, e, r)
    <2>1. (8 * h * c) \div (8 * h) = c /\ (8 * k) \div 8 = k /\ (8 * e) \div 8 = e /\ 0 \div (8 * 2) = 0
      BY <1>2
    <2>2. Put(0, 8 * h * c, 8 * k, 8 * e, r)
          = Octet(64 * ((0 * q + c) * h * 2 + k * h + e) + 8 * r, 0 + 8 * k + r, 8 * h * c + 8 * e, 1, 8)
      BY <1>2, <2>1
    <2>3. /\ (0 * q + c) * h * 2 + k * h + e = (q * 0 + c) * (h * 2) + k * h + e
          /\ 0 + 8 * k + r = (0 * 2 + k) * 8 + r
          /\ 8 * h * c + 8 * e = (c * h + e) * 8
      BY DEF BlockRows
    <2> QED  BY <2>2, <2>3 DEF LumaOctet
  <1> HIDE DEF w, Top, Put
  <1>5. ASSUME NEW o \in scalar_luma(ycc, w, h, 2)  PROVE o \in Luma(q, h, 2, 1)
    <2>1. PICK i \in Top, j \in Columns(w, 8 * h), y \in Columns(8 * 2, 8), x \in Columns(8 * h, 8), r \in BlockRows :
            o = Put(i, j, y, x, r)
      BY <1>1
    <2>2. PICK c \in 0 .. q - 1, k \in 0 .. 2 - 1, e \in 0 .. h - 1 : j = 8 * h * c /\ y = 8 * k /\ x = 8 * e
      BY <1>2, <1>3
    <2>3. i = 0 /\ 0 \in 0 .. 1 - 1  BY <1>3
    <2>4. o = LumaOctet(q, h, 2, 0, c, k, e, r)  BY <1>4, <2>1, <2>2, <2>3
    <2> QED  BY <2>3, <2>4, LumaHas
  <1>6. ASSUME NEW o \in Luma(q, h, 2, 1)  PROVE o \in scalar_luma(ycc, w, h, 2)
    <2>1. PICK a \in 0 .. 1 - 1, c \in 0 .. q - 1, k \in 0 .. 2 - 1, e \in 0 .. h - 1, r \in BlockRows :
            o = LumaOctet(q, h, 2, a, c, k, e, r)
      BY DEF Luma
    <2>2. a = 0 /\ 0 \in Top  BY <1>3
    <2>3. 8 * h * c \in Columns(w, 8 * h) /\ 8 * k \in Columns(8 * 2, 8) /\ 8 * e \in Columns(8 * h, 8)
      BY <1>2, <1>3
    <2> QED  BY <1>1, <1>4, <2>1, <2>2, <2>3
  <1> QED  BY <1>5, <1>6 DEF w

\* Luma where they are one block high: block by block, whatever their width.
LEMMA ScalarFlat ==
  ASSUME NEW t \in Nat, NEW ycc \in YCC \ {"YUV440", "YUV420", "YUV410"}, NEW h
  PROVE  scalar_luma(ycc, 8 * t, h, 1) = Luma(t, 1, 1, 2)
  <1> DEFINE w == 8 * t
             Put(i, j, r) == Octet(64 * ((i \div 8) * Steps(w, 8) + j \div 8) + 8 * r, i + r, j, 1, 8)
  <1>1. scalar_luma(ycc, w, h, 1) = {Put(i, j, r) : i \in Halves, j \in Columns(w, 8), r \in BlockRows}
    BY DEF scalar_luma
  <1>2. /\ Steps(w, 8) = t /\ Columns(w, 8) = {8 * c : c \in 0 .. t - 1}
        /\ \A c \in 0 .. t - 1 : (8 * c) \div 8 = c
    BY ColumnsOf
  <1>3. Halves = {8 * a : a \in 0 .. 2 - 1} /\ \A a \in 0 .. 2 - 1 : (8 * a) \div 8 = a  BY DEF Halves
  <1>4. ASSUME NEW a \in 0 .. 2 - 1, NEW c \in 0 .. t - 1, NEW r \in BlockRows
        PROVE  Put(8 * a, 8 * c, r) = LumaOctet(t, 1, 1, a, c, 0, 0, r)
    <2>1. 64 * (((8 * a) \div 8) * Steps(w, 8) + (8 * c) \div 8) + 8 * r = 64 * (a * t + c) + 8 * r
      BY <1>2, <1>3
    <2>2. CASE a = 0  BY <2>1, <2>2 DEF LumaOctet, BlockRows
    <2>3. CASE a = 1  BY <2>1, <2>3 DEF LumaOctet, BlockRows
    <2> QED  BY <2>2, <2>3
  <1> HIDE DEF w, Put
  <1>5. ASSUME NEW o \in scalar_luma(ycc, w, h, 1)  PROVE o \in Luma(t, 1, 1, 2)
    <2>1. PICK i \in Halves, j \in Columns(w, 8), r \in BlockRows : o = Put(i, j, r)  BY <1>1
    <2>2. PICK a \in 0 .. 2 - 1, c \in 0 .. t - 1 : i = 8 * a /\ j = 8 * c  BY <1>2, <1>3
    <2>3. 0 \in 0 .. 1 - 1  OBVIOUS
    <2>4. o = LumaOctet(t, 1, 1, a, c, 0, 0, r)  BY <1>4, <2>1, <2>2
    <2> QED  BY <2>3, <2>4, LumaHas
  <1>6. ASSUME NEW o \in Luma(t, 1, 1, 2)  PROVE o \in scalar_luma(ycc, w, h, 1)
    <2>1. PICK a \in 0 .. 2 - 1, c \in 0 .. t - 1, k \in 0 .. 1 - 1, e \in 0 .. 1 - 1, r \in BlockRows :
            o = LumaOctet(t, 1, 1, a, c, k, e, r)
      BY DEF Luma
    <2>2. k = 0 /\ e = 0  OBVIOUS
    <2>3. 8 * a \in Halves /\ 8 * c \in Columns(w, 8)  BY <1>2, <1>3
    <2> QED  BY <1>1, <1>4, <2>1, <2>2, <2>3
  <1> QED  BY <1>5, <1>6 DEF w

\* Chroma: every v-th row, the mean of h by v pixels.
LEMMA ScalarChroma ==
  ASSUME NEW q \in Nat, NEW h \in {1, 2, 4}, NEW v \in {1, 2}
  PROVE  scalar_chroma(8 * h * q, h, v) = Chroma(q, h, v, 2 \div v)
  <1> DEFINE w == 8 * h * q
             Tops == {n \in {0, 8} : n % (8 * v) = 0}
             Put(i, j, y) == Octet(64 * ((i \div (8 * v)) * Steps(w, 8 * h) + j \div (8 * h)) + 8 * (y \div v),
                                   i + y, j, v, 8 * h)
  <1>1. scalar_chroma(w, h, v) = {Put(i, j, y) : i \in Tops, j \in Columns(w, 8 * h), y \in Columns(8 * v, v)}
    BY DEF scalar_chroma
  <1>2. /\ Steps(w, 8 * h) = q /\ Columns(w, 8 * h) = {8 * h * c : c \in 0 .. q - 1}
        /\ \A c \in 0 .. q - 1 : (8 * h * c) \div (8 * h) = c
    BY ScalarWalk
  <1>3. /\ Tops = {8 * a : a \in 0 .. (2 \div v) - 1} /\ \A a \in 0 .. (2 \div v) - 1 : (8 * a) \div (8 * v) = a
        /\ Columns(8 * v, v) = {v * r : r \in BlockRows} /\ \A r \in BlockRows : (v * r) \div v = r
    <2>1. CASE v = 1  BY <2>1 DEF Columns, BlockRows
    <2>2. CASE v = 2  BY <2>2 DEF Columns, BlockRows
    <2> QED  BY <2>1, <2>2
  <1>4. ASSUME NEW a \in 0 .. (2 \div v) - 1, NEW c \in 0 .. q - 1, NEW r \in BlockRows
        PROVE  Put(8 * a, 8 * h * c, v * r) = ChromaOctet(q, h, v, a, c, r)
    <2>1. Put(8 * a, 8 * h * c, v * r) = Octet(64 * (a * q + c) + 8 * r, 8 * a + v * r, 8 * h * c, v, 8 * h)
      BY <1>2, <1>3
    <2>2. a * q = q * a /\ 8 * h * c = c * 8 * h /\ 8 * a + v * r = (a * 8 + r) * v
      <3>1. CASE v = 1  BY <3>1 DEF BlockRows
      <3>2. CASE v = 2  BY <3>2 DEF BlockRows
      <3> QED  BY <3>1, <3>2
    <2> QED  BY <2>1, <2>2 DEF ChromaOctet
  <1> HIDE DEF w, Tops, Put
  <1>5. ASSUME NEW o \in scalar_chroma(w, h, v)  PROVE o \in Chroma(q, h, v, 2 \div v)
    <2>1. PICK i \in Tops, j \in Columns(w, 8 * h), y \in Columns(8 * v, v) : o = Put(i, j, y)  BY <1>1
    <2>2. PICK a \in 0 .. (2 \div v) - 1 : i = 8 * a  BY <1>3
    <2>3. PICK c \in 0 .. q - 1 : j = 8 * h * c  BY <1>2
    <2>4. PICK r \in BlockRows : y = v * r  BY <1>3
    <2>5. o = ChromaOctet(q, h, v, a, c, r)  BY <1>4, <2>1, <2>2, <2>3, <2>4
    <2> QED  BY <2>5, ChromaHas
  <1>6. ASSUME NEW o \in Chroma(q, h, v, 2 \div v)  PROVE o \in scalar_chroma(w, h, v)
    <2>1. PICK a \in 0 .. (2 \div v) - 1, c \in 0 .. q - 1, r \in BlockRows : o = ChromaOctet(q, h, v, a, c, r)
      BY DEF Chroma
    <2>2. 8 * a \in Tops /\ 8 * h * c \in Columns(w, 8 * h) /\ v * r \in Columns(8 * v, v)  BY <1>2, <1>3
    <2> QED  BY <1>1, <1>4, <2>1, <2>2
  <1> QED  BY <1>5, <1>6 DEF w

\* The octets of a strip of w pixels a row in format ycc, all of them in their places.
InOrder(o, ycc, w) ==
  LET q == w \div (8 * H[ycc])
  IN /\ o.luma = Luma(q, H[ycc], V[ycc], 2 \div V[ycc])
     /\ ycc \notin {"GRAY", "GRAY2"} => o.chroma = Chroma(q, H[ycc], V[ycc], 2 \div V[ycc])

\* The converters of builds with vectors.
LEMMA VectorInOrder ==
  ASSUME NEW ycc \in YCC, NEW p \in Nat, NEW q \in Nat, 16 * p = 8 * H[ycc] * q
  PROVE  InOrder(rgb2ycbcr_subsample(ycc, 16 * p), ycc, 16 * p)
  <1> DEFINE w == 16 * p
             h == H[ycc]
             v == V[ycc]
  <1>1. CASE ycc \in {"YUV444", "YUV422", "GRAY", "GRAY2"}
    <2>1. h \in {1, 2} /\ v = 1 /\ 2 \div 1 = 2  BY <1>1 DEF H, V, YCC
    <2>2. w \div (8 * h) = q /\ h * q = 2 * p
      <3>1. CASE h = 1  BY <3>1
      <3>2. CASE h = 2  BY <3>2
      <3> QED  BY <2>1, <3>1, <3>2
    <2>3. Luma(p, 2, 1, 2) = Luma(2 * p, 1, 1, 2)  BY LumaRegrouped
    <2>4. Luma(p, 2, 1, 2) = Luma(q, h, 1, 2)
      <3>1. Luma(h * q, 1, 1, 2) = Luma(q, h, 1, 2)  BY <2>1, LumaRegrouped
      <3> QED  BY <2>2, <2>3, <3>1
    <2> HIDE DEF w, h, v
    <2>5. rgb2ycbcr_subsample_gray(w).luma = Luma(q, h, 1, 2)  BY <2>4, GrayLuma DEF w
    <2>6. CASE ycc \in {"GRAY", "GRAY2"}
      <3>1. rgb2ycbcr_subsample(ycc, w) = rgb2ycbcr_subsample_gray(w)
        BY <2>6 DEF rgb2ycbcr_subsample
      <3> QED  BY <2>1, <2>2, <2>5, <2>6, <3>1 DEF InOrder, h, v, w
    <2>7. CASE ycc = "YUV444"
      <3>1. rgb2ycbcr_subsample(ycc, w) = rgb2ycbcr_subsample_444(w)  BY <2>7 DEF rgb2ycbcr_subsample
      <3>2. /\ rgb2ycbcr_subsample_444(w).luma = rgb2ycbcr_subsample_gray(w).luma
            /\ rgb2ycbcr_subsample_444(w).chroma = rgb2ycbcr_subsample_444(w).luma
        BY DEF rgb2ycbcr_subsample_444, rgb2ycbcr_subsample_gray
      <3>3. h = 1  BY <2>7 DEF h, H, YCC
      <3>4. Chroma(q, h, 1, 2) = Luma(q, h, 1, 2)  BY <3>3, ChromaAsLuma
      <3> QED  BY <2>1, <2>2, <2>5, <3>1, <3>2, <3>4 DEF InOrder, h, v, w
    <2>8. CASE ycc = "YUV422"
      <3>1. rgb2ycbcr_subsample(ycc, w) = rgb2ycbcr_subsample_422(w)  BY <2>8 DEF rgb2ycbcr_subsample
      <3>2. rgb2ycbcr_subsample_422(w).luma = rgb2ycbcr_subsample_gray(w).luma
        BY DEF rgb2ycbcr_subsample_422, rgb2ycbcr_subsample_gray
      <3>3. h = 2  BY <2>8 DEF h, H, YCC
      <3>4. q = p  BY <2>2, <3>3
      <3>5. rgb2ycbcr_subsample_422(w).chroma = Chroma(q, h, 1, 2)  BY <3>3, <3>4, Chroma422 DEF w
      <3> QED  BY <2>1, <2>2, <2>5, <3>1, <3>2, <3>5 DEF InOrder, h, v, w
    <2> QED  BY <1>1, <2>6, <2>7, <2>8
  <1>2. CASE ycc = "YUV420"
    <2>1. h = 2 /\ v = 2 /\ 2 \div 2 = 1  BY <1>2 DEF H, V, YCC
    <2>2. q = p /\ w \div (8 * h) = q  BY <2>1
    <2> HIDE DEF w, h, v
    <2>3. rgb2ycbcr_subsample(ycc, w) = rgb2ycbcr_subsample_420(w)  BY <1>2 DEF rgb2ycbcr_subsample
    <2> QED  BY <2>1, <2>2, <2>3, Luma420, Chroma420 DEF InOrder, h, v, w
  <1>3. CASE ycc = "YUV440"
    <2>1. h = 1 /\ v = 2 /\ 2 \div 2 = 1  BY <1>3 DEF H, V, YCC
    <2>2. q = 2 * p /\ w \div (8 * h) = q  BY <2>1
    <2> HIDE DEF w, h, v
    <2>3. rgb2ycbcr_subsample(ycc, w) = rgb2ycbcr_subsample_440(w)  BY <1>3 DEF rgb2ycbcr_subsample
    <2> QED  BY <2>1, <2>2, <2>3, Luma440, Chroma440 DEF InOrder, h, v, w
  <1>4. CASE ycc = "YUV411"
    <2>1. h = 4 /\ v = 1 /\ 2 \div 1 = 2  BY <1>4 DEF H, V, YCC
    <2>2. w = 32 * q /\ w \div (8 * h) = q  BY <2>1
    <2> HIDE DEF w, h, v
    <2>3. rgb2ycbcr_subsample(ycc, w) = rgb2ycbcr_subsample_411(w)  BY <1>4 DEF rgb2ycbcr_subsample
    <2>4. rgb2ycbcr_subsample_411(w).luma = Luma(q, 4, 1, 2) /\ rgb2ycbcr_subsample_411(w).chroma = Chroma(q, 4, 1, 2)
      BY <2>2, Luma411, Chroma411
    <2> QED  BY <2>1, <2>2, <2>3, <2>4 DEF InOrder, h, v, w
  <1>5. CASE ycc = "YUV410"
    <2>1. h = 4 /\ v = 2 /\ 2 \div 2 = 1  BY <1>5 DEF H, V, YCC
    <2>2. w = 32 * q /\ w \div (8 * h) = q  BY <2>1
    <2> HIDE DEF w, h, v
    <2>3. rgb2ycbcr_subsample(ycc, w) = rgb2ycbcr_subsample_410(w)  BY <1>5 DEF rgb2ycbcr_subsample
    <2>4. rgb2ycbcr_subsample_410(w).luma = Luma(q, 4, 2, 1) /\ rgb2ycbcr_subsample_410(w).chroma = Chroma(q, 4, 2, 1)
      BY <2>2, Luma410, Chroma410
    <2> QED  BY <2>1, <2>2, <2>3, <2>4 DEF InOrder, h, v, w
  <1> QED  BY <1>1, <1>2, <1>3, <1>4, <1>5 DEF YCC

\* The converter of builds without.
LEMMA ScalarInOrder ==
  ASSUME NEW ycc \in YCC, NEW q \in Nat
  PROVE  InOrder(subsample_scalar(ycc, 8 * H[ycc] * q, H[ycc], V[ycc]), ycc, 8 * H[ycc] * q)
  <1> DEFINE h == H[ycc]
             v == V[ycc]
             w == 8 * h * q
  <1>1. h \in {1, 2, 4} /\ v \in {1, 2} /\ (v = 2 <=> ycc \in {"YUV440", "YUV420", "YUV410"})
    BY DEF H, V, YCC
  <1>2. w \div (8 * h) = q
    <2>1. CASE h = 1  BY <2>1
    <2>2. CASE h = 2  BY <2>2
    <2>3. CASE h = 4  BY <2>3
    <2> QED  BY <1>1, <2>1, <2>2, <2>3
  <1> HIDE DEF h, v, w
  <1>3. scalar_luma(ycc, w, h, v) = Luma(q, h, v, 2 \div v)
    <2>1. CASE v = 2
      <3>1. 2 \div 2 = 1  OBVIOUS
      <3> QED  BY <1>1, <2>1, <3>1, ScalarTall DEF w
    <2>2. CASE v = 1
      <3>1. 2 \div 1 = 2  OBVIOUS
      <3> DEFINE t == h * q
      <3>2. t \in Nat /\ w = 8 * t  BY <1>1 DEF w
      <3> HIDE DEF t
      <3>3. scalar_luma(ycc, w, h, 1) = Luma(t, 1, 1, 2)  BY <1>1, <2>2, <3>2, ScalarFlat
      <3>4. Luma(t, 1, 1, 2) = Luma(q, h, 1, 2)  BY <1>1, LumaRegrouped DEF t
      <3> QED  BY <2>2, <3>1, <3>3, <3>4
    <2> QED  BY <1>1, <2>1, <2>2
  <1>4. scalar_chroma(w, h, v) = Chroma(q, h, v, 2 \div v)  BY <1>1, ScalarChroma DEF w
  <1>5. subsample_scalar(ycc, w, h, v).luma = scalar_luma(ycc, w, h, v)
        /\ (ycc # "GRAY" => subsample_scalar(ycc, w, h, v).chroma = scalar_chroma(w, h, v))
    BY DEF subsample_scalar
  <1> QED  BY <1>2, <1>3, <1>4, <1>5 DEF InOrder, h, v, w

-----------------------------------------------------------------------------
(* What encode_mcus() takes of a strip. *)

\* The MCUs before the n-th row of them are the first q * n.
LEMMA RowsOfMCUs ==
  ASSUME NEW q \in Nat \ {0}, NEW r \in {1, 2}, NEW a \in {0, 1}, NEW c \in 0 .. q - 1
  PROVE  /\ q * a + c \in Nat
         /\ a < r <=> q * a + c < q * r
         /\ (q * a + c) \div q = a /\ (q * a + c) % q = c
  <1>1. CASE a = 0
    <2>1. q * a + c = c /\ c \div q = 0 /\ c % q = c  BY <1>1
    <2>2. q <= q * r  OBVIOUS
    <2> QED  BY <1>1, <2>1, <2>2
  <1>2. CASE a = 1
    <2>1. q * a + c = q + c /\ (q + c) \div q = 1 /\ (q + c) % q = c  BY <1>2
    <2>2. CASE r = 1  BY <1>2, <2>1, <2>2
    <2>3. CASE r = 2  BY <1>2, <2>1, <2>3
    <2> QED  BY <2>2, <2>3
  <1> QED  BY <1>1, <1>2

\* And every one of the first q * r lies in one of r rows.
LEMMA MCUInRow ==
  ASSUME NEW q \in Nat \ {0}, NEW r \in {1, 2}, NEW m \in 0 .. q * r - 1
  PROVE  \E a \in 0 .. r - 1, c \in 0 .. q - 1 : m = q * a + c
  <1>1. CASE m < q
    <2>1. 0 \in 0 .. r - 1 /\ m \in 0 .. q - 1 /\ m = q * 0 + m  BY <1>1
    <2> QED  BY <2>1
  <1>2. CASE m >= q
    <2>1. r = 2 /\ m - q \in 0 .. q - 1 /\ m = q * 1 + (m - q)
      <3>1. r # 1  BY <1>2
      <3>2. r = 2  BY <3>1
      <3>3. q * r = q + q  BY <3>2
      <3> QED  BY <1>2, <3>2, <3>3
    <2>2. 1 \in 0 .. r - 1  BY <2>1
    <2> QED  BY <2>1, <2>2
  <1> QED  BY <1>1, <1>2

\* The blocks of an MCU.
LEMMA BlocksOfMCU ==
  ASSUME NEW h \in {1, 2, 4}, NEW v \in {1, 2}, NEW k \in 0 .. v - 1, NEW j \in 0 .. h - 1
  PROVE  h * v \in {1, 2, 4, 8} /\ k * h + j \in 0 .. h * v - 1
  <1>1. CASE v = 1  BY <1>1
  <1>2. CASE v = 2 /\ k = 0  BY <1>2
  <1>3. CASE v = 2 /\ k = 1  BY <1>3
  <1> QED  BY <1>1, <1>2, <1>3

\* The first MCUs of the buffers are those of the first rows of MCUs.
LEMMA LumaTaken ==
  ASSUME NEW q \in Nat \ {0}, NEW h \in {1, 2, 4}, NEW v \in {1, 2}, NEW r \in {1, 2}, r <= 2 \div v
  PROVE  {o \in Luma(q, h, v, 2 \div v) : o.at < 64 * (q * r) * (h * v)} = Luma(q, h, v, r)
  <1> DEFINE n == 2 \div v
  <1>1. n \in {1, 2} /\ r <= n
    <2>1. CASE v = 1  BY <2>1
    <2>2. CASE v = 2  BY <2>2
    <2> QED  BY <2>1, <2>2
  <1> HIDE DEF n
  <1>2. ASSUME NEW a \in 0 .. n - 1, NEW c \in 0 .. q - 1, NEW k \in 0 .. v - 1, NEW j \in 0 .. h - 1, NEW e \in BlockRows
        PROVE  LumaOctet(q, h, v, a, c, k, j, e).at < 64 * (q * r) * (h * v) <=> a \in 0 .. r - 1
    <2>1. a \in {0, 1}  BY <1>1
    <2>2. q * a + c \in Nat /\ (a < r <=> q * a + c < q * r)  BY <2>1, RowsOfMCUs
    <2> DEFINE m == q * a + c
               t == q * r
               d == h * v
               x == k * h + j
    <2>3. m \in Nat /\ t \in Nat /\ d \in {1, 2, 4, 8} /\ x \in 0 .. d - 1  BY <2>2, BlocksOfMCU
    <2>4. LumaOctet(q, h, v, a, c, k, j, e).at = 64 * (m * d + k * h + j) + 8 * e  BY DEF LumaOctet, Octet
    <2> HIDE DEF m, t, d
    <2>5. m * d + k * h + j = m * d + x
      <3>1. m * d \in Nat /\ k * h \in Nat  BY <2>3
      <3> QED  BY <3>1
    <2> HIDE DEF x
    <2>6. 64 * (m * d + x) + 8 * e < 64 * t * d <=> m < t
      <3>1. e \in Nat /\ e <= 7  BY DEF BlockRows
      <3>2. CASE d = 1  BY <2>3, <3>1, <3>2
      <3>3. CASE d = 2  BY <2>3, <3>1, <3>3
      <3>4. CASE d = 4  BY <2>3, <3>1, <3>4
      <3>5. CASE d = 8  BY <2>3, <3>1, <3>5
      <3> QED  BY <2>3, <3>2, <3>3, <3>4, <3>5
    <2> QED  BY <2>1, <2>2, <2>4, <2>5, <2>6 DEF m, t, d
  <1>3. ASSUME NEW o \in Luma(q, h, v, n), o.at < 64 * (q * r) * (h * v)  PROVE o \in Luma(q, h, v, r)
    <2>1. PICK a \in 0 .. n - 1, c \in 0 .. q - 1, k \in 0 .. v - 1, j \in 0 .. h - 1, e \in BlockRows :
            o = LumaOctet(q, h, v, a, c, k, j, e)
      BY DEF Luma
    <2>2. a \in 0 .. r - 1  BY <1>2, <1>3, <2>1
    <2> QED  BY <2>1, <2>2, LumaHas
  <1>4. ASSUME NEW o \in Luma(q, h, v, r)  PROVE o \in Luma(q, h, v, n) /\ o.at < 64 * (q * r) * (h * v)
    <2>1. PICK a \in 0 .. r - 1, c \in 0 .. q - 1, k \in 0 .. v - 1, j \in 0 .. h - 1, e \in BlockRows :
            o = LumaOctet(q, h, v, a, c, k, j, e)
      BY DEF Luma
    <2>2. a \in 0 .. n - 1  BY <1>1
    <2>3. o.at < 64 * (q * r) * (h * v)  BY <1>2, <2>1, <2>2
    <2> QED  BY <2>1, <2>2, <2>3, LumaHas
  <1> QED  BY <1>3, <1>4 DEF n

\* So with chroma, one block to an MCU.
LEMMA ChromaTaken ==
  ASSUME NEW q \in Nat \ {0}, NEW h \in {1, 2, 4}, NEW v \in {1, 2}, NEW r \in {1, 2}, r <= 2 \div v
  PROVE  {o \in Chroma(q, h, v, 2 \div v) : o.at < 64 * (q * r)} = Chroma(q, h, v, r)
  <1> DEFINE n == 2 \div v
  <1>1. n \in {1, 2} /\ r <= n
    <2>1. CASE v = 1  BY <2>1
    <2>2. CASE v = 2  BY <2>2
    <2> QED  BY <2>1, <2>2
  <1> HIDE DEF n
  <1>2. ASSUME NEW a \in 0 .. n - 1, NEW c \in 0 .. q - 1, NEW e \in BlockRows
        PROVE  ChromaOctet(q, h, v, a, c, e).at < 64 * (q * r) <=> a \in 0 .. r - 1
    <2>1. a \in {0, 1}  BY <1>1
    <2>2. q * a + c \in Nat /\ (a < r <=> q * a + c < q * r)  BY <2>1, RowsOfMCUs
    <2>3. ChromaOctet(q, h, v, a, c, e).at = 64 * (q * a + c) + 8 * e  BY DEF ChromaOctet, Octet
    <2>4. q * r \in Nat /\ e \in Nat /\ e <= 7  BY DEF BlockRows
    <2> DEFINE m == q * a + c
               t == q * r
    <2> HIDE DEF m, t
    <2>5. 64 * m + 8 * e < 64 * t <=> m < t  BY <2>2, <2>4 DEF m, t
    <2> QED  BY <2>1, <2>2, <2>3, <2>5 DEF m, t
  <1>3. ASSUME NEW o \in Chroma(q, h, v, n), o.at < 64 * (q * r)  PROVE o \in Chroma(q, h, v, r)
    <2>1. PICK a \in 0 .. n - 1, c \in 0 .. q - 1, e \in BlockRows : o = ChromaOctet(q, h, v, a, c, e)
      BY DEF Chroma
    <2>2. a \in 0 .. r - 1  BY <1>2, <1>3, <2>1
    <2> QED  BY <2>1, <2>2, ChromaHas
  <1>4. ASSUME NEW o \in Chroma(q, h, v, r)  PROVE o \in Chroma(q, h, v, n) /\ o.at < 64 * (q * r)
    <2>1. PICK a \in 0 .. r - 1, c \in 0 .. q - 1, e \in BlockRows : o = ChromaOctet(q, h, v, a, c, e)
      BY DEF Chroma
    <2>2. a \in 0 .. n - 1  BY <1>1
    <2>3. o.at < 64 * (q * r)  BY <1>2, <2>1, <2>2
    <2> QED  BY <2>1, <2>2, <2>3, ChromaHas
  <1> QED  BY <1>3, <1>4 DEF n

\* The octets a decoder expects.
LEMMA OctetsExpected ==
  ASSUME NEW q \in Nat \ {0}, NEW r \in {1, 2}, PerRow = q, CodedMCUs = q * r, YCCtype \in YCC
  PROVE  /\ LumaOctets = Luma(q, H[YCCtype], V[YCCtype], r)
         /\ ChromaOctets = Chroma(q, H[YCCtype], V[YCCtype], r)
  <1> DEFINE h == H[YCCtype]
             v == V[YCCtype]
             Y(m, k, j, e) == Octet(64 * (m * (h * v) + k * h + j) + 8 * e, ((m \div q) * v + k) * 8 + e,
                                    ((m % q) * h + j) * 8, 1, 8)
             C(m, e) == Octet(64 * m + 8 * e, ((m \div q) * 8 + e) * v, (m % q) * 8 * h, v, 8 * h)
  <1>1. /\ LumaOctets = {Y(m, k, j, e) : m \in 0 .. q * r - 1, k \in 0 .. v - 1, j \in 0 .. h - 1, e \in 0 .. 7}
        /\ ChromaOctets = {C(m, e) : m \in 0 .. q * r - 1, e \in 0 .. 7}
    BY DEF LumaOctets, ChromaOctets, MCUSkip
  <1>2. ASSUME NEW a \in 0 .. r - 1, NEW c \in 0 .. q - 1
        PROVE  /\ q * a + c \in 0 .. q * r - 1
               /\ \A e : C(q * a + c, e) = ChromaOctet(q, h, v, a, c, e)
               /\ \A k, j, e : Y(q * a + c, k, j, e) = LumaOctet(q, h, v, a, c, k, j, e)
    <2>1. a \in {0, 1} /\ a < r  OBVIOUS
    <2>2. /\ q * a + c \in Nat /\ (a < r <=> q * a + c < q * r)
          /\ (q * a + c) \div q = a /\ (q * a + c) % q = c
      BY <2>1, RowsOfMCUs
    <2>3. q * r \in Nat  OBVIOUS
    <2>4. q * a + c \in 0 .. q * r - 1
      <3> DEFINE m == q * a + c
                 t == q * r
      <3> HIDE DEF m, t
      <3>1. m \in 0 .. t - 1  BY <2>1, <2>2, <2>3 DEF m, t
      <3> QED  BY <3>1 DEF m, t
    <2> QED  BY <2>2, <2>4 DEF ChromaOctet, LumaOctet
  <1> HIDE DEF h, v, Y, C
  <1>3. LumaOctets = Luma(q, h, v, r)
    <2>1. ASSUME NEW o \in LumaOctets  PROVE o \in Luma(q, h, v, r)
      <3>1. PICK m \in 0 .. q * r - 1, k \in 0 .. v - 1, j \in 0 .. h - 1, e \in 0 .. 7 : o = Y(m, k, j, e)  BY <1>1
      <3>2. PICK a \in 0 .. r - 1, c \in 0 .. q - 1 : m = q * a + c  BY MCUInRow
      <3>3. o = LumaOctet(q, h, v, a, c, k, j, e) /\ e \in BlockRows  BY <1>2, <3>1, <3>2 DEF BlockRows
      <3> QED  BY <3>3, LumaHas
    <2>2. ASSUME NEW o \in Luma(q, h, v, r)  PROVE o \in LumaOctets
      <3>1. PICK a \in 0 .. r - 1, c \in 0 .. q - 1, k \in 0 .. v - 1, j \in 0 .. h - 1, e \in BlockRows :
              o = LumaOctet(q, h, v, a, c, k, j, e)
        BY DEF Luma
      <3>2. o = Y(q * a + c, k, j, e) /\ q * a + c \in 0 .. q * r - 1 /\ e \in 0 .. 7
        BY <1>2, <3>1 DEF BlockRows
      <3> QED  BY <1>1, <3>2
    <2> QED  BY <2>1, <2>2
  <1>4. ChromaOctets = Chroma(q, h, v, r)
    <2>1. ASSUME NEW o \in ChromaOctets  PROVE o \in Chroma(q, h, v, r)
      <3>1. PICK m \in 0 .. q * r - 1, e \in 0 .. 7 : o = C(m, e)  BY <1>1
      <3>2. PICK a \in 0 .. r - 1, c \in 0 .. q - 1 : m = q * a + c  BY MCUInRow
      <3>3. o = ChromaOctet(q, h, v, a, c, e) /\ e \in BlockRows  BY <1>2, <3>1, <3>2 DEF BlockRows
      <3> QED  BY <3>3, ChromaHas
    <2>2. ASSUME NEW o \in Chroma(q, h, v, r)  PROVE o \in ChromaOctets
      <3>1. PICK a \in 0 .. r - 1, c \in 0 .. q - 1, e \in BlockRows : o = ChromaOctet(q, h, v, a, c, e)
        BY DEF Chroma
      <3>2. o = C(q * a + c, e) /\ q * a + c \in 0 .. q * r - 1 /\ e \in 0 .. 7
        BY <1>2, <3>1 DEF BlockRows
      <3> QED  BY <1>1, <3>2
    <2> QED  BY <2>1, <2>2
  <1> QED  BY <1>3, <1>4 DEF h, v

\* One gray block more than a row of them is the first of the row below.
LEMMA OneMoreTaken ==
  ASSUME NEW q \in Nat \ {0}, PerRow = q, CodedMCUs = q + 1, H[YCCtype] = 1, V[YCCtype] = 1
  PROVE  {o \in Luma(q, 1, 1, 2) : o.at < 64 * (q + 1)} = LumaOctets
  <1> DEFINE Y(m, e) == Octet(64 * m + 8 * e, (m \div q) * 8 + e, (m % q) * 8, 1, 8)
  <1>1. LumaOctets = {Y(m, e) : m \in 0 .. q, e \in 0 .. 7}
    <2>1. 0 .. CodedMCUs - 1 = 0 .. q /\ 0 .. V[YCCtype] - 1 = {0} /\ 0 .. H[YCCtype] - 1 = {0}
      OBVIOUS
    <2>2. ASSUME NEW m \in 0 .. q, NEW e \in 0 .. 7
          PROVE  Y(m, e) = Octet(64 * (m * MCUSkip + 0 * H[YCCtype] + 0) + 8 * e,
                                 ((m \div PerRow) * V[YCCtype] + 0) * 8 + e,
                                 ((m % PerRow) * H[YCCtype] + 0) * 8, 1, 8)
      <3>1. MCUSkip = 1  BY DEF MCUSkip
      <3>2. m \div q \in Int /\ m % q \in Int  OBVIOUS
      <3>3. /\ 64 * (m * MCUSkip + 0 * H[YCCtype] + 0) + 8 * e = 64 * m + 8 * e
            /\ ((m \div PerRow) * V[YCCtype] + 0) * 8 + e = (m \div q) * 8 + e
            /\ ((m % PerRow) * H[YCCtype] + 0) * 8 = (m % q) * 8
        BY <3>1, <3>2
      <3> QED  BY <3>3
    <2> DEFINE L(m, k, j, e) == Octet(64 * (m * MCUSkip + k * H[YCCtype] + j) + 8 * e,
                                      ((m \div PerRow) * V[YCCtype] + k) * 8 + e,
                                      ((m % PerRow) * H[YCCtype] + j) * 8, 1, 8)
    <2>3. LumaOctets = {L(m, k, j, e) : m \in 0 .. CodedMCUs - 1, k \in 0 .. V[YCCtype] - 1,
                                        j \in 0 .. H[YCCtype] - 1, e \in 0 .. 7}
      BY DEF LumaOctets
    <2>4. \A m \in 0 .. q, e \in 0 .. 7 : Y(m, e) = L(m, 0, 0, e)  BY <2>2
    <2> HIDE DEF Y, L
    <2>5. LumaOctets = {L(m, k, j, e) : m \in 0 .. q, k \in {0}, j \in {0}, e \in 0 .. 7}
      BY <2>1, <2>3
    <2> QED  BY <2>4, <2>5
  <1>2. ASSUME NEW a \in 0 .. 1, NEW c \in 0 .. q - 1, NEW e \in 0 .. 7
        PROVE  /\ Y(q * a + c, e) = LumaOctet(q, 1, 1, a, c, 0, 0, e)
               /\ LumaOctet(q, 1, 1, a, c, 0, 0, e).at < 64 * (q + 1) <=> q * a + c \in 0 .. q
    <2>1. a \in {0, 1}  OBVIOUS
    <2>2. q * a + c \in Nat /\ (q * a + c) \div q = a /\ (q * a + c) % q = c  BY <2>1, RowsOfMCUs
    <2> DEFINE m == q * a + c
    <2>3. LumaOctet(q, 1, 1, a, c, 0, 0, e) = Octet(64 * (m * (1 * 1) + 0 * 1 + 0) + 8 * e,
                                                    (a * 1 + 0) * 8 + e, (c * 1 + 0) * 8, 1, 8)
      BY DEF LumaOctet
    <2>4. 64 * (m * (1 * 1) + 0 * 1 + 0) + 8 * e = 64 * m + 8 * e /\ (a * 1 + 0) * 8 + e = a * 8 + e
          /\ (c * 1 + 0) * 8 = c * 8
      BY <2>2
    <2>5. LumaOctet(q, 1, 1, a, c, 0, 0, e).at = 64 * m + 8 * e  BY <2>3, <2>4 DEF Octet
    <2> HIDE DEF m
    <2>6. 64 * m + 8 * e < 64 * (q + 1) <=> m \in 0 .. q  BY <2>2 DEF m
    <2> QED  BY <2>2, <2>3, <2>4, <2>5, <2>6 DEF m
  <1> HIDE DEF Y
  <1>3. ASSUME NEW o \in Luma(q, 1, 1, 2), o.at < 64 * (q + 1)  PROVE o \in LumaOctets
    <2>1. PICK a \in 0 .. 2 - 1, c \in 0 .. q - 1, k \in 0 .. 1 - 1, j \in 0 .. 1 - 1, e \in BlockRows :
            o = LumaOctet(q, 1, 1, a, c, k, j, e)
      BY DEF Luma
    <2>2. a \in 0 .. 1 /\ k = 0 /\ j = 0 /\ e \in 0 .. 7  BY DEF BlockRows
    <2>3. o = Y(q * a + c, e) /\ q * a + c \in 0 .. q  BY <1>2, <1>3, <2>1, <2>2
    <2> QED  BY <1>1, <2>2, <2>3
  <1>4. ASSUME NEW o \in LumaOctets  PROVE o \in Luma(q, 1, 1, 2) /\ o.at < 64 * (q + 1)
    <2>1. PICK m \in 0 .. q, e \in 0 .. 7 : o = Y(m, e)  BY <1>1
    <2>2. PICK a \in 0 .. 1, c \in 0 .. q - 1 : m = q * a + c
      <3>1. CASE m < q
        <4>1. 0 \in 0 .. 1 /\ m \in 0 .. q - 1 /\ m = q * 0 + m  BY <3>1
        <4> QED  BY <4>1
      <3>2. CASE m = q
        <4>1. 1 \in 0 .. 1 /\ 0 \in 0 .. q - 1 /\ m = q * 1 + 0  BY <3>2
        <4> QED  BY <4>1
      <3> QED  BY <3>1, <3>2
    <2>3. o = LumaOctet(q, 1, 1, a, c, 0, 0, e) /\ o.at < 64 * (q + 1)  BY <1>2, <2>1, <2>2
    <2>4. a \in 0 .. 2 - 1 /\ 0 \in 0 .. 1 - 1 /\ e \in BlockRows  BY DEF BlockRows
    <2> QED  BY <2>3, <2>4, LumaHas
  <1> QED  BY <1>3, <1>4

\* What the converter of the build stores of a strip is in order.
LEMMA ConvertedInOrder ==
  ASSUME Sized, pc = "strip", target \in Targets, target = "scalar" <=> img.vector = 8
  PROVE  InOrder(Converted, YCCtype, rounded_width)
  <1>1. img \in Images /\ YCCtype = Coded /\ target \in {"vector", "scalar"}
    BY StripPathAssumption DEF Sized
  <1>2. YCCtype \in YCC /\ img.ncomp \in {1, 3} /\ img.ycc \in YCC  BY <1>1, CodedTyped, ImageTyped
  <1>4. PICK q \in Nat : rounded_width = 8 * H[YCCtype] * q
    <2>1. PICK q \in Nat : rounded_width = MCUWidth * q  BY RoundedWidth
    <2> QED  BY <1>1, <2>1 DEF MCUWidth, DCTSIZE
  <1>5. CASE target = "scalar"  BY <1>2, <1>4, <1>5, ScalarInOrder DEF Converted
  <1>6. CASE target = "vector"
    <2>0. PICK p \in Nat : rounded_width = 16 * p  BY <1>6, RoundedWidth
    <2>1. InOrder(rgb2ycbcr_subsample(YCCtype, rounded_width), YCCtype, rounded_width)
      BY <1>2, <1>4, <2>0, VectorInOrder
    <2>2. rounded_width \in Nat  BY <2>0
    <2>3. subsample(YCCtype, rounded_width) = rgb2ycbcr_subsample(YCCtype, rounded_width)
      BY <1>2, <2>2, Mirrors
    <2>4. Converted = rgb2ycbcr_subsample(YCCtype, rounded_width)
      BY <1>2, <1>6, <2>3 DEF Converted
    <2> QED  BY <2>1, <2>4
  <1> QED  BY <1>1, <1>5, <1>6

\* The octets in the buffers while a strip is encoded.
Stored ==
  /\ target \in Targets /\ (target = "scalar" <=> img.vector = 8)
  /\ stage = "encode" => pc = "strip" /\ yuv1 = Converted

\* Nothing is stored at the start.
LEMMA StoredInit == SInit => Stored
  BY DEF SInit, Stored

\* Only a conversion stores octets, and its strip is encoded next.
LEMMA StoredStep ==
  ASSUME Stored, [SNext]_<<vars, stripVars>>
  PROVE  Stored'
  <1>1. CASE SConstruct  BY <1>1 DEF Stored, SConstruct, Construct
  <1>2. CASE SCreateHeader  BY <1>2 DEF Stored, SCreateHeader, CreateHeader
  <1>3. CASE ImageInit  BY <1>3 DEF Stored, ImageInit, vars
  <1>4. CASE ReadStrip  BY <1>4 DEF Stored, ReadStrip, vars
  <1>5. CASE ConvertStrip
    <2>1. target' = target /\ img' = img /\ yuv1' = Converted /\ pc' = "strip"  BY <1>5 DEF ConvertStrip, vars
    <2>2. Converted' = Converted
      <3>1. img' = img /\ YCCtype' = YCCtype /\ rounded_width' = rounded_width  BY <1>5 DEF ConvertStrip, vars
      <3> QED  BY <2>1, <3>1 DEF Converted
    <2> QED  BY <2>1, <2>2 DEF Stored
  <1>6. CASE SEncodeStrip  BY <1>6 DEF Stored, SEncodeStrip, EncodeStrip
  <1>7. CASE InvokeAgain  BY <1>7 DEF Stored, InvokeAgain
  <1>8. CASE UNCHANGED <<vars, stripVars>>
    <2>1. UNCHANGED <<pc, img, YCCtype, rounded_width, target, stage, yuv1>>  BY <1>8 DEF vars, stripVars
    <2>2. Converted' = Converted  BY <2>1 DEF Converted
    <2> QED  BY <2>1, <2>2 DEF Stored
  <1>9. CASE SDone  BY <1>8, <1>9 DEF SDone, Done
  <1> QED  BY <1>1, <1>2, <1>3, <1>4, <1>5, <1>6, <1>7, <1>8, <1>9 DEF SNext

\* The fused converters store what the two passes they replaced stored, for every format
\* and every width (color.cpp:680-681).
THEOREM FusedAsTwoPass == StripSpec => []FusedMirrorsTwoPass
  <1>1. SInit => Sized /\ Stored  BY SizedInit, StoredInit
  <1>2. (Sized /\ Stored) /\ [SNext]_<<vars, stripVars>> => (Sized /\ Stored)'  BY SizedStep, StoredStep
  <1>3. Sized /\ Stored => FusedMirrorsTwoPass
    <2> SUFFICES ASSUME Sized, Stored, stage = "encode", target = "vector", img.ncomp = 3
                 PROVE  yuv1 = subsample(YCCtype, rounded_width)
      BY DEF FusedMirrorsTwoPass
    <2>1. pc = "strip" /\ yuv1 = rgb2ycbcr_subsample(YCCtype, rounded_width)  BY DEF Stored, Converted
    <2>2. YCCtype \in YCC  BY <2>1, CodedTyped DEF Sized
    <2>3. PICK p \in Nat : rounded_width = 16 * p  BY <2>1, RoundedWidth DEF Stored
    <2>4. rounded_width \in Nat  BY <2>3
    <2> QED  BY <2>1, <2>2, <2>4, Mirrors
  <1> QED  BY <1>1, <1>2, <1>3, PTL DEF StripSpec

\* Every block encode_mcus() takes holds the pixels of its place in the strip, for every
\* image, format, vector length and converter (color.cpp:684-1138 and 1349-1467,
\* block_coding.cpp:90-126).
THEOREM BlocksInPlace == StripSpec => []MCUsInPlace
  <1>1. SInit => Sized /\ Stored  BY SizedInit, StoredInit
  <1>2. (Sized /\ Stored) /\ [SNext]_<<vars, stripVars>> => (Sized /\ Stored)'  BY SizedStep, StoredStep
  <1>3. Sized /\ Stored => MCUsInPlace
    <2> DEFINE h == H[YCCtype]
               v == V[YCCtype]
    <2> SUFFICES ASSUME Sized, Stored, stage = "encode"
                 PROVE  /\ {o \in yuv1.luma : o.at < 64 * CodedMCUs * MCUSkip} = LumaOctets
                        /\ YCCtype \notin {"GRAY", "GRAY2"} =>
                             {o \in yuv1.chroma : o.at < 64 * CodedMCUs} = ChromaOctets
      BY DEF MCUsInPlace
    <2>1. /\ pc = "strip" /\ yuv1 = Converted /\ target \in Targets
          /\ target = "scalar" <=> img.vector = 8
      BY DEF Stored
    <2>2. img \in Images /\ YCCtype = Coded /\ YCCtype \in YCC  BY <2>1, CodedTyped DEF Sized
    <2>3. h \in {1, 2, 4} /\ v \in {1, 2} /\ MCUSkip = h * v  BY <2>2, CodedTyped DEF MCUSkip
    <2>4. PICK q \in Nat \ {0}, r \in {1, 2} :
            rounded_width = MCUWidth * q /\ (CodedMCUs = q * r \/ OneMore(q, r)) /\ r <= PerStrip
      BY <2>1, MCUsOfStrip
    <2>7. rounded_width = (8 * h) * q /\ r <= 2 \div v
      <3>1. PerStrip = 16 \div (8 * v)  BY <2>2 DEF PerStrip, MCUHeight, BUFLINES, DCTSIZE
      <3>2. CASE v = 1  BY <2>2, <2>4, <3>1, <3>2 DEF MCUWidth, DCTSIZE
      <3>3. CASE v = 2  BY <2>2, <2>4, <3>1, <3>3 DEF MCUWidth, DCTSIZE
      <3> QED  BY <2>3, <3>2, <3>3
    <2>8. rounded_width \div (8 * h) = q
      <3>1. CASE h = 1  BY <2>7, <3>1
      <3>2. CASE h = 2  BY <2>7, <3>2
      <3>3. CASE h = 4  BY <2>7, <3>3
      <3> QED  BY <2>3, <3>1, <3>2, <3>3
    <2>9. PerRow = q  BY <2>8 DEF PerRow, DCTSIZE
    <2>10. /\ yuv1.luma = Luma(q, h, v, 2 \div v)
           /\ YCCtype \notin {"GRAY", "GRAY2"} => yuv1.chroma = Chroma(q, h, v, 2 \div v)
      <3>1. InOrder(yuv1, YCCtype, rounded_width)  BY <2>1, ConvertedInOrder
      <3> QED  BY <2>8, <3>1 DEF InOrder
    <2> HIDE DEF h, v
    <2>11. CASE CodedMCUs = q * r
      <3>1. LumaOctets = Luma(q, h, v, r) /\ ChromaOctets = Chroma(q, h, v, r)
        BY <2>2, <2>9, <2>11, OctetsExpected DEF h, v
      <3>2. {o \in yuv1.luma : o.at < 64 * CodedMCUs * MCUSkip} = LumaOctets
        <4>1. 64 * CodedMCUs * MCUSkip = 64 * (q * r) * (h * v)  BY <2>3, <2>11
        <4> QED  BY <2>3, <2>7, <2>10, <3>1, <4>1, LumaTaken
      <3>3. YCCtype \notin {"GRAY", "GRAY2"} => {o \in yuv1.chroma : o.at < 64 * CodedMCUs} = ChromaOctets
        BY <2>3, <2>7, <2>10, <2>11, <3>1, ChromaTaken
      <3> QED  BY <3>2, <3>3
    <2>12. CASE OneMore(q, r)
      <3>1. YCCtype \in {"GRAY", "GRAY2"} /\ CodedMCUs = q + 1  BY <2>2, <2>12 DEF OneMore
      <3>2. h = 1 /\ v = 1 /\ MCUSkip = 1  BY <2>2, <2>3, <3>1, CodedTyped DEF h, v
      <3>3. yuv1.luma = Luma(q, 1, 1, 2)  BY <2>10, <3>2
      <3>4. 64 * CodedMCUs * MCUSkip = 64 * (q + 1)  BY <3>1, <3>2
      <3> QED  BY <2>9, <3>1, <3>2, <3>3, <3>4, OneMoreTaken DEF h, v
    <2> QED  BY <2>4, <2>11, <2>12
  <1> QED  BY <1>1, <1>2, <1>3, PTL DEF StripSpec

-----------------------------------------------------------------------------
(* The types. *)

\* Geometry's variables.
LEMMA GeometryTyped ==
  ASSUME Sized, Sized', MarkersCounted', TypeOK, [SNext]_<<vars, stripVars>>
  PROVE  TypeOK'
  <1>1. img \in Images /\ Coded \in YCC /\ img.width \in Nat \ {0} /\ img.height \in Nat \ {0} /\ img.ycc \in YCC
    BY CodedTyped, ImageTyped DEF Sized
  <1>2. coded' \in Nat /\ restarts' \subseteq Nat  BY DEF MarkersCounted
  <1>3. CASE Construct
    <2>1. img' = img /\ YCCtype' = Coded /\ pc' = "header" /\ s' = 0 /\ interval' = interval
      BY <1>3 DEF Construct, Coded, Sized
    <2>2. num_strips' \in Nat \ {0} /\ num_workers' \in Nat
      <3>1. num_strips' = CeilDiv(img.height, 16) /\ num_workers' \in 1 .. num_strips'  BY <2>1 DEF Sized, BUFLINES
      <3> QED  BY <1>1, <3>1, CeilDivPositive
    <2>3. rounded_width' \in Nat /\ rounded_height' \in Nat
      <3> DEFINE m == Most(DCTSIZE * H[img.ycc], img.vector)
                 n == DCTSIZE * V[img.ycc]
      <3>1. m \in {8, 16, 32, 64} /\ n \in {8, 16}  BY <1>1, CodedTyped DEF Most, DCTSIZE
      <3>2. rounded_width' = m * CeilDiv(img.width, m) /\ rounded_height' = n * CeilDiv(img.height, n)
        BY <1>3 DEF Construct, round_up
      <3> HIDE DEF m, n
      <3>3. CeilDiv(img.width, m) \in Nat /\ CeilDiv(img.height, n) \in Nat  BY <1>1, <3>1, CeilDivPositive
      <3> QED  BY <3>1, <3>2, <3>3
    <2> QED  BY <1>1, <1>2, <2>1, <2>2, <2>3 DEF TypeOK
  <1>4. CASE CreateHeader
    <2>1. /\ pc' = "strip"
          /\ UNCHANGED <<img, YCCtype, rounded_width, rounded_height, num_strips, num_workers, s>>
          /\ interval' = IF num_workers > 1
                           THEN CeilDiv(img.width, DCTSIZE * H[YCCtype]) * (BUFLINES \div (DCTSIZE * V[YCCtype]))
                           ELSE 0
      BY <1>4 DEF CreateHeader
    <2>2. YCCtype = Coded  BY <1>4 DEF Sized, CreateHeader
    <2>3. interval' \in Nat
      <3>1. Across \in Nat /\ PerStrip \in {1, 2}  BY <1>1, CodedTyped
      <3>2. interval' = IF num_workers > 1 THEN Across * PerStrip ELSE 0
        BY <2>1, <2>2 DEF Across, PerStrip, MCUWidth, MCUHeight
      <3> QED  BY <3>1, <3>2
    <2> QED  BY <1>2, <2>1, <2>3 DEF TypeOK
  <1>5. CASE EncodeStrip
    <2>1. /\ s' = s + 1 /\ pc = "strip" /\ pc' \in {"strip", "done"}
          /\ UNCHANGED <<img, YCCtype, rounded_width, rounded_height, num_strips, num_workers, interval>>
      BY <1>5 DEF EncodeStrip
    <2>2. s < num_strips /\ num_strips \in Nat /\ s \in Nat  BY <2>1 DEF Sized, TypeOK
    <2> QED  BY <1>2, <2>1, <2>2 DEF TypeOK
  <1>6. CASE InvokeAgain  BY <1>2, <1>6 DEF TypeOK, InvokeAgain
  <1>7. CASE UNCHANGED vars  BY <1>7 DEF TypeOK, vars
  <1> QED  BY <1>3, <1>4, <1>5, <1>6, <1>7, GeometrySteps

\* The reader's variables.
Row == [0 .. BUFLINES - 1 -> Nat]
ReaderTyped ==
  /\ calls \in 0 .. MaxCalls
  /\ held \in 1 .. img.height /\ filepos \in Nat /\ expected_pos \in Nat
  /\ DOMAIN wbufs = (IF pc = "construct" THEN {} ELSE 0 .. num_workers - 1)
  /\ b \in {0} \cup DOMAIN wbufs
  /\ buf_tmp \in Row
  /\ \A n \in DOMAIN wbufs : wbufs[n] \in Row

\* A buffer nothing was read into.
LEMMA BlankRow == Blank \in Row
  BY DEF Blank, Row, Unwritten, BUFLINES

\* The rows of a strip after reading it.
LEMMA ReadTyped ==
  ASSUME Sized, TypeOK, ReaderTyped, ReadStrip
  PROVE  ReaderTyped'
  <1> DEFINE w == in_width
             n == s * BUFLINES
             rows == num_rows(n)
             want == Origin + n * w
             from == IF want # expected_pos THEN want ELSE filepos
             direct == in_width = out_width
             old == IF direct THEN wbufs[b'] ELSE buf_tmp
             sp == fread(old, from, rows)
             left == RowsLeft(from)
  <1>1. /\ pc = "strip" /\ pc' = "strip" /\ img' = img /\ held' = held /\ calls' = calls
        /\ num_workers' = num_workers
        /\ b' \in (IF held = img.height THEN {0} ELSE 0 .. num_workers - 1) /\ get_lines_from(n, b')
    BY DEF ReadStrip, vars
  <1>2. img \in Images /\ s \in Nat /\ num_workers \in Nat /\ num_workers >= 1
        /\ s < CeilDiv(img.height, BUFLINES)
    BY <1>1 DEF Sized, TypeOK
  <1>3. w \in Nat \ {0} /\ img.height \in Nat \ {0}  BY <1>2, ImageTyped
  <1>4. b' \in 0 .. num_workers - 1
    <2>1. 0 \in 0 .. num_workers - 1  BY <1>2
    <2> QED  BY <1>1, <2>1
  <1>5. DOMAIN wbufs = 0 .. num_workers - 1  BY <1>1 DEF ReaderTyped
  <1>6. n \in Nat /\ n < img.height /\ rows \in 1 .. BUFLINES
    <2> DEFINE h == img.height
    <2>1. n \in Nat /\ n < h  BY <1>2, <1>3, StripInImage DEF BUFLINES
    <2>2. n + BUFLINES > h => h % BUFLINES = h - n  BY <1>2, <1>3, StripInImage
    <2>3. rows = IF n + BUFLINES > h THEN h % BUFLINES ELSE BUFLINES  BY DEF num_rows
    <2>4. h \in Nat  BY <1>3
    <2> HIDE DEF h, n, rows
    <2>5. rows \in 1 .. BUFLINES  BY <2>1, <2>2, <2>3, <2>4 DEF BUFLINES
    <2> QED  BY <2>1, <2>5 DEF h
  <1>7. from \in Nat /\ want \in Nat  BY <1>3, <1>6 DEF Origin, ReaderTyped
  <1>8. left \in Nat
    <2> DEFINE d == Most(0, Origin + held * w - from)
    <2>1. held \in Nat  BY <1>3 DEF ReaderTyped
    <2>2. d \in Nat  BY <1>3, <1>7, <2>1 DEF Most, Origin
    <2> HIDE DEF d
    <2>3. d \div w \in Nat  BY <1>3, <2>2
    <2> QED  BY <2>3 DEF RowsLeft, d
  <1>9. old \in Row  BY <1>4, <1>5 DEF ReaderTyped
  <1>10. /\ wbufs' = [wbufs EXCEPT ![b'] = [i \in 0 .. BUFLINES - 1 |-> sp[Least(i, rows - 1)]]]
         /\ buf_tmp' = IF direct THEN buf_tmp ELSE sp
         /\ filepos' = from + Least(rows, left) * w
         /\ expected_pos' = want + rows * w
    BY <1>1 DEF get_lines_from
  <1> HIDE DEF n, rows, want, from, left, old, direct, w
  <1>11. sp \in Row
    <2>1. \A i \in 0 .. BUFLINES - 1 : from + i * w \in Nat /\ old[i] \in Nat
      BY <1>3, <1>7, <1>9 DEF BUFLINES, Row
    <2> QED  BY <2>1 DEF fread, Row, w
  <1>12. [i \in 0 .. BUFLINES - 1 |-> sp[Least(i, rows - 1)]] \in Row
    <2>1. \A i \in 0 .. BUFLINES - 1 : Least(i, rows - 1) \in 0 .. BUFLINES - 1
      BY <1>6 DEF Least, BUFLINES
    <2> QED  BY <1>11, <2>1 DEF Row
  <1>13. Least(rows, left) * w \in Nat /\ rows * w \in Nat
    <2>1. Least(rows, left) \in Nat /\ rows \in Nat  BY <1>6, <1>8 DEF Least, BUFLINES
    <2> QED  BY <1>3, <2>1
  <1>14. filepos' \in Nat /\ expected_pos' \in Nat  BY <1>7, <1>10, <1>13
  <1>15. buf_tmp' \in Row  BY <1>10, <1>11 DEF ReaderTyped
  <1>16. DOMAIN wbufs' = DOMAIN wbufs /\ \A m \in DOMAIN wbufs' : wbufs'[m] \in Row
    BY <1>4, <1>5, <1>10, <1>12 DEF ReaderTyped
  <1> QED  BY <1>1, <1>4, <1>5, <1>14, <1>15, <1>16 DEF ReaderTyped

\* The other steps keep the types of the reader's variables.
LEMMA ReaderStep ==
  ASSUME Sized, TypeOK, ReaderTyped, [SNext]_<<vars, stripVars>>
  PROVE  ReaderTyped'
  <1>1. CASE SConstruct
    <2>1. /\ wbufs' = [n \in 0 .. num_workers' - 1 |-> Blank] /\ pc' = "header"
          /\ UNCHANGED <<img, calls, held, filepos, expected_pos, b, buf_tmp>> /\ pc = "construct"
      BY <1>1 DEF SConstruct, Construct
    <2>2. b = 0  BY <2>1 DEF ReaderTyped
    <2> QED  BY <2>1, <2>2, BlankRow DEF ReaderTyped
  <1>2. CASE SCreateHeader
    <2>1. /\ calls' = 1 /\ pc = "header" /\ pc' = "strip"
          /\ UNCHANGED <<img, num_workers, held, filepos, expected_pos, wbufs, b, buf_tmp>>
      BY <1>2 DEF SCreateHeader, CreateHeader
    <2>2. 1 \in 0 .. MaxCalls  BY StripPathAssumption
    <2> QED  BY <2>1, <2>2 DEF ReaderTyped
  <1>3. CASE ImageInit
    <2>1. /\ filepos' = Origin /\ expected_pos' = Origin
          /\ UNCHANGED <<pc, img, num_workers, calls, held, wbufs, b, buf_tmp>>
      BY <1>3 DEF ImageInit, vars
    <2> QED  BY <2>1 DEF ReaderTyped, Origin
  <1>4. CASE ReadStrip  BY <1>4, ReadTyped
  <1>5. CASE ConvertStrip  BY <1>5 DEF ReaderTyped, ConvertStrip, vars
  <1>6. CASE SEncodeStrip
    <2>1. /\ pc = "strip" /\ pc' \in {"strip", "done"}
          /\ UNCHANGED <<img, num_workers, calls, held, filepos, expected_pos, wbufs, b, buf_tmp>>
      BY <1>6 DEF SEncodeStrip, EncodeStrip
    <2> QED  BY <2>1 DEF ReaderTyped
  <1>7. CASE InvokeAgain
    <2>1. /\ pc = "done" /\ pc' = "strip" /\ calls' = calls + 1 /\ calls < MaxCalls /\ filepos' \in Positions
          /\ UNCHANGED <<img, num_workers, held, expected_pos, wbufs, b, buf_tmp>>
      BY <1>7 DEF InvokeAgain
    <2>2. calls' \in 0 .. MaxCalls  BY <2>1, StripPathAssumption DEF ReaderTyped
    <2>3. filepos' \in Nat  BY <2>1, StripPathAssumption
    <2> QED  BY <2>1, <2>2, <2>3 DEF ReaderTyped
  <1>8. CASE UNCHANGED <<vars, stripVars>>  BY <1>8 DEF ReaderTyped, vars, stripVars
  <1>9. CASE SDone  BY <1>8, <1>9 DEF SDone, Done
  <1> QED  BY <1>1, <1>2, <1>3, <1>4, <1>5, <1>6, <1>7, <1>8, <1>9 DEF SNext

\* An octet that lies in the strip.
Within(o, w) == o.at \in Nat /\ o.x \in 0 .. w - 1 /\ o.y \in 0 .. BUFLINES - 1

\* Octets of luma in their places do.
LEMMA LumaWithin ==
  ASSUME NEW q \in Nat, NEW h \in {1, 2, 4}, NEW v \in {1, 2}, NEW o \in Luma(q, h, v, 2 \div v)
  PROVE  Within(o, 8 * h * q)
  <1>1. PICK a \in 0 .. (2 \div v) - 1, c \in 0 .. q - 1, k \in 0 .. v - 1, j \in 0 .. h - 1, r \in BlockRows :
          o = LumaOctet(q, h, v, a, c, k, j, r)
    BY DEF Luma
  <1>2. r \in 0 .. 7  BY DEF BlockRows
  <1>3. a * v + k \in {0, 1} /\ a \in {0, 1}
    <2>1. CASE v = 1  BY <2>1
    <2>2. CASE v = 2  BY <2>2
    <2> QED  BY <2>1, <2>2
  <1>4. o.y \in 0 .. 15
    <2>1. o.y = (a * v + k) * 8 + r  BY <1>1 DEF LumaOctet, Octet
    <2> QED  BY <1>2, <1>3, <2>1
  <1>5. o.x \in 0 .. 8 * h * q - 1
    <2>1. o.x = (c * h + j) * 8  BY <1>1 DEF LumaOctet, Octet
    <2>2. CASE h = 1  BY <2>1, <2>2
    <2>3. CASE h = 2  BY <2>1, <2>3
    <2>4. CASE h = 4  BY <2>1, <2>4
    <2> QED  BY <2>2, <2>3, <2>4
  <1>6. o.at \in Nat
    <2>1. o.at = 64 * ((q * a + c) * (h * v) + k * h + j) + 8 * r  BY <1>1 DEF LumaOctet, Octet
    <2>2. q * a + c \in Nat /\ h * v \in Nat /\ k * h \in Nat  BY <1>3
    <2> DEFINE m == q * a + c
               d == h * v
               e == k * h
    <2> HIDE DEF m, d, e
    <2>3. (m * d + e + j) \in Nat  BY <2>2 DEF m, d, e
    <2> QED  BY <1>2, <2>1, <2>3 DEF m, d, e
  <1> QED  BY <1>4, <1>5, <1>6 DEF Within, BUFLINES

\* So do those of chroma.
LEMMA ChromaWithin ==
  ASSUME NEW q \in Nat, NEW h \in {1, 2, 4}, NEW v \in {1, 2}, NEW o \in Chroma(q, h, v, 2 \div v)
  PROVE  Within(o, 8 * h * q)
  <1>1. PICK a \in 0 .. (2 \div v) - 1, c \in 0 .. q - 1, r \in BlockRows : o = ChromaOctet(q, h, v, a, c, r)
    BY DEF Chroma
  <1>2. r \in 0 .. 7  BY DEF BlockRows
  <1>3. a \in {0, 1} /\ (v = 2 => a = 0)
    <2>1. CASE v = 1  BY <2>1
    <2>2. CASE v = 2  BY <2>2
    <2> QED  BY <2>1, <2>2
  <1>4. o.y \in 0 .. 15
    <2>1. o.y = (a * 8 + r) * v  BY <1>1 DEF ChromaOctet, Octet
    <2>2. CASE v = 1  BY <1>2, <1>3, <2>1, <2>2
    <2>3. CASE v = 2  BY <1>2, <1>3, <2>1, <2>3
    <2> QED  BY <2>2, <2>3
  <1>5. o.x \in 0 .. 8 * h * q - 1
    <2>1. o.x = c * 8 * h  BY <1>1 DEF ChromaOctet, Octet
    <2>2. CASE h = 1  BY <2>1, <2>2
    <2>3. CASE h = 2  BY <2>1, <2>3
    <2>4. CASE h = 4  BY <2>1, <2>4
    <2> QED  BY <2>2, <2>3, <2>4
  <1>6. o.at \in Nat
    <2>1. o.at = 64 * (q * a + c) + 8 * r  BY <1>1 DEF ChromaOctet, Octet
    <2>2. q * a + c \in Nat  BY <1>3
    <2> QED  BY <1>2, <2>1, <2>2
  <1> QED  BY <1>4, <1>5, <1>6 DEF Within, BUFLINES

\* The octets stored, of this strip or an earlier one; none before the encoder is made.
OctetsTyped ==
  /\ target = "scalar" => img.ycc # "GRAY2" \/ img.ncomp = 1
  /\ \A o \in yuv1.luma \cup yuv1.chroma : pc # "construct" /\ Within(o, rounded_width)

\* A conversion stores octets of the strip.
LEMMA ConvertedTyped ==
  ASSUME Sized, Stored, OctetsTyped, pc = "strip", NEW o \in Converted.luma \cup Converted.chroma
  PROVE  Within(o, rounded_width)
  <1> DEFINE h == H[YCCtype]
             v == V[YCCtype]
  <1>1. img \in Images /\ YCCtype = Coded /\ YCCtype \in YCC /\ img.ncomp \in {1, 3}
    BY CodedTyped, ImageTyped DEF Sized
  <1>2. h \in {1, 2, 4} /\ v \in {1, 2}  BY <1>1, CodedTyped
  <1>3. PICK q \in Nat : rounded_width = 8 * h * q
    <2>1. PICK q \in Nat : rounded_width = MCUWidth * q  BY RoundedWidth
    <2> QED  BY <1>1, <2>1 DEF MCUWidth, DCTSIZE
  <1>4. rounded_width \div (8 * h) = q
    <2>1. CASE h = 1  BY <1>3, <2>1
    <2>2. CASE h = 2  BY <1>3, <2>2
    <2>3. CASE h = 4  BY <1>3, <2>3
    <2> QED  BY <1>2, <2>1, <2>2, <2>3
  <1>5. InOrder(Converted, YCCtype, rounded_width)  BY ConvertedInOrder DEF Stored
  <1>6. CASE o \in Converted.luma
    <2>1. o \in Luma(q, h, v, 2 \div v)  BY <1>4, <1>5, <1>6 DEF InOrder
    <2> QED  BY <1>2, <1>3, <2>1, LumaWithin
  <1>7. CASE o \in Converted.chroma /\ YCCtype \notin {"GRAY", "GRAY2"}
    <2>1. o \in Chroma(q, h, v, 2 \div v)  BY <1>4, <1>5, <1>7 DEF InOrder
    <2> QED  BY <1>2, <1>3, <2>1, ChromaWithin
  <1>8. ASSUME YCCtype \in {"GRAY", "GRAY2"}  PROVE Converted.chroma = {}
    <2>1. target \in {"vector", "scalar"}  BY StripPathAssumption DEF Stored
    <2>2. target = "scalar" => YCCtype = "GRAY"
      BY <1>1, <1>8 DEF OctetsTyped, Coded, compute_ncomp_out
    <2>3. CASE target = "scalar"  BY <2>2, <2>3 DEF Converted, subsample_scalar, NoChroma
    <2>4. CASE target = "vector"
      <3>1. rgb2ycbcr_subsample(YCCtype, rounded_width) = rgb2ycbcr_subsample_gray(rounded_width)
        BY <1>8 DEF rgb2ycbcr_subsample
      <3>2. rounded_width \in Nat  BY <1>2, <1>3
      <3>3. subsample(YCCtype, rounded_width) = rgb2ycbcr_subsample_gray(rounded_width)
        BY <1>1, <3>1, <3>2, Mirrors
      <3>4. Converted = rgb2ycbcr_subsample_gray(rounded_width)  BY <1>1, <2>4, <3>1, <3>3 DEF Converted
      <3> QED  BY <3>4 DEF rgb2ycbcr_subsample_gray, NoChroma
    <2> QED  BY <2>1, <2>3, <2>4
  <1> QED  BY <1>6, <1>7, <1>8

\* Every step keeps the octets in the strip.
LEMMA OctetsStep ==
  ASSUME Sized, Stored, OctetsTyped, [SNext]_<<vars, stripVars>>
  PROVE  OctetsTyped'
  <1>1. CASE SConstruct
    <2>1. UNCHANGED <<target, img, yuv1>> /\ pc = "construct"  BY <1>1 DEF SConstruct, Construct
    <2> QED  BY <2>1 DEF OctetsTyped
  <1>2. CASE SCreateHeader
    <2>1. UNCHANGED <<target, img, yuv1, rounded_width>> /\ pc' = "strip"  BY <1>2 DEF SCreateHeader, CreateHeader
    <2> QED  BY <2>1 DEF OctetsTyped, Within
  <1>3. CASE ImageInit  BY <1>3 DEF OctetsTyped, Within, ImageInit, vars
  <1>4. CASE ReadStrip  BY <1>4 DEF OctetsTyped, Within, ReadStrip, vars
  <1>5. CASE ConvertStrip
    <2>1. UNCHANGED <<target, img, rounded_width>> /\ pc' = "strip" /\ pc = "strip" /\ yuv1' = Converted
      BY <1>5 DEF ConvertStrip, vars
    <2>2. \A o \in Converted.luma \cup Converted.chroma : Within(o, rounded_width)
      BY <2>1, ConvertedTyped
    <2> QED  BY <2>1, <2>2 DEF OctetsTyped, Within
  <1>6. CASE SEncodeStrip
    <2>1. UNCHANGED <<target, img, yuv1, rounded_width>> /\ pc' # "construct"  BY <1>6 DEF SEncodeStrip, EncodeStrip
    <2> QED  BY <2>1 DEF OctetsTyped, Within
  <1>7. CASE InvokeAgain  BY <1>7 DEF OctetsTyped, Within, InvokeAgain
  <1>8. CASE UNCHANGED <<vars, stripVars>>  BY <1>8 DEF OctetsTyped, Within, vars, stripVars
  <1>9. CASE SDone  BY <1>8, <1>9 DEF SDone, Done
  <1> QED  BY <1>1, <1>2, <1>3, <1>4, <1>5, <1>6, <1>7, <1>8, <1>9 DEF SNext

\* Which stage the strip is in.
StageTyped == stage \in {"init", "read", "convert", "encode"}

\* A strip is always in one of the stages.
LEMMA StageStep == StageTyped /\ [SNext]_<<vars, stripVars>> => StageTyped'
  BY DEF StageTyped, SNext, SConstruct, SCreateHeader, ImageInit, ReadStrip, ConvertStrip, SEncodeStrip,
         InvokeAgain, SDone, stripVars

TypesInv ==
  Sized /\ MarkersCounted /\ Stored /\ TypeOK /\ ReaderTyped /\ OctetsTyped /\ StageTyped

\* The variables have their types at the start.
LEMMA TypesInit == SInit => TypesInv
  <1> SUFFICES ASSUME SInit PROVE TypesInv  OBVIOUS
  <1>1. Sized /\ MarkersCounted /\ Stored  BY SizedInit, MarkersInit, StoredInit
  <1>2. img \in Images /\ img.height \in Nat \ {0} /\ img.ycc \in YCC  BY <1>1, ImageTyped DEF Sized
  <1>3. TypeOK  BY <1>2 DEF SInit, Init, TypeOK
  <1>4. ReaderTyped
    <2>1. held \in 1 .. img.height  BY <1>2, StripPathAssumption DEF SInit
    <2>2. wbufs = <<>> /\ b = 0 /\ buf_tmp = Blank /\ pc = "construct" /\ calls = 0 /\ expected_pos = 0
          /\ filepos = Origin
      BY DEF SInit, Init
    <2>3. DOMAIN wbufs = {}  BY <2>2
    <2>4. 0 \in 0 .. MaxCalls  BY StripPathAssumption
    <2> QED  BY <2>1, <2>2, <2>3, <2>4, BlankRow DEF ReaderTyped, Origin
  <1>5. OctetsTyped  BY DEF SInit, OctetsTyped
  <1>6. StageTyped  BY DEF SInit, StageTyped
  <1> QED  BY <1>1, <1>3, <1>4, <1>5, <1>6 DEF TypesInv

\* Every step keeps the types, and what they rest on.
LEMMA TypesStep == TypesInv /\ [SNext]_<<vars, stripVars>> => TypesInv'
  <1> SUFFICES ASSUME TypesInv, [SNext]_<<vars, stripVars>>  PROVE TypesInv'  OBVIOUS
  <1> USE DEF TypesInv
  <1>1. Sized'  BY SizedStep
  <1>2. MarkersCounted'  BY <1>1, MarkersStep
  <1>3. Stored'  BY StoredStep
  <1>4. TypeOK'  BY <1>1, <1>2, GeometryTyped
  <1>5. ReaderTyped'  BY ReaderStep
  <1>6. OctetsTyped'  BY OctetsStep
  <1>7. StageTyped'  BY StageStep
  <1> QED  BY <1>1, <1>2, <1>3, <1>4, <1>5, <1>6, <1>7

\* The variables keep their types; the octets stored lie in the strip (image_chunk.hpp:37-82,
\* color.cpp:684-1138 and 1349-1467).
THEOREM StripTyped == StripSpec => []STypeOK
  <1>1. SInit => TypesInv  BY TypesInit
  <1>2. TypesInv /\ [SNext]_<<vars, stripVars>> => TypesInv'  BY TypesStep
  <1>3. TypesInv => STypeOK
    <2> SUFFICES ASSUME TypesInv PROVE STypeOK  OBVIOUS
    <2>1. TypeOK /\ target \in Targets /\ stage \in {"init", "read", "convert", "encode"}
      BY DEF TypesInv, Stored, StageTyped
    <2>2. /\ calls \in 0 .. MaxCalls /\ held \in 1 .. img.height /\ filepos \in Nat /\ expected_pos \in Nat
          /\ DOMAIN wbufs = (IF pc = "construct" THEN {} ELSE 0 .. num_workers - 1)
          /\ b \in {0} \cup DOMAIN wbufs
          /\ \A rows \in {buf_tmp} \cup {wbufs[n] : n \in DOMAIN wbufs} : rows \in [0 .. BUFLINES - 1 -> Nat]
      BY DEF TypesInv, ReaderTyped, Row
    <2>3. \A o \in yuv1.luma \cup yuv1.chroma :
            o.at \in Nat /\ o.x \in 0 .. rounded_width - 1 /\ o.y \in 0 .. BUFLINES - 1
      BY DEF TypesInv, OctetsTyped, Within
    <2> QED  BY <2>1, <2>2, <2>3 DEF STypeOK
  <1> QED  BY <1>1, <1>2, <1>3, PTL DEF StripSpec
=============================================================================
