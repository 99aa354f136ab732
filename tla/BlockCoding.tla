---------------------------- MODULE BlockCoding -----------------------------
(***************************************************************************)
(* encode_mcus(): from the pixels of a strip to the calls of put_bits().   *)
(* MCU by MCU the blocks are transformed and quantised in place, and then  *)
(* Huffman-coded one by one, the DC of a block as the difference to the    *)
(* block of its component before it.  Convert puts the colour conversion   *)
(* in front: luma sample by sample, chroma as the mean of an area.  Where  *)
(* a strip's blocks go is McuLayout's subject; here they are in place.     *)
(*                                                                         *)
(* A job is a build's target, a format, a quality and the MCUs of one      *)
(* strip.  It starts at the pixels, at the samples, or with the samples of *)
(* one MCU already transformed (`at`).                                     *)
(***************************************************************************)
EXTENDS Dct, Zigzag, HuffmanTables, Formats

CONSTANTS Jobs,
          ClzOfZero   \* what JPEGENC_CLZ32(0) may be: __builtin_clz leaves it undefined

Grayscale == {"GRAY", "GRAY2"}
Sample == -(2^7) .. 2^7 - 1
Word16 == -(2^15) .. 2^15 - 1
Block(Value) == [1 .. 64 -> Value]
Octet == 0 .. 2^8 - 1

\* A strip has as many blocks of one chroma as of the other, and of luma as many times
\* more as the format says; without chroma, an even number.
ASSUME BlockCodingAssumption ==
  /\ ClzOfZero \subseteq 0 .. 32
  /\ \A j \in Jobs :
       /\ j.target \in Targets /\ j.ycc \in YCC /\ j.QF \in 0 .. 100 /\ j.at \in {"pixels", "mcu", "block"}
       /\ j.at = "pixels" =>
            /\ j.in \in Seq([1 .. 64 * H[j.ycc] * V[j.ycc] -> Octet \X Octet \X Octet])
            /\ j.ycc \in Grayscale => Len(j.in) % 2 = 0
       /\ j.at # "pixels" =>
            /\ j.in \in [1 .. 3 -> Seq(Block(IF j.at = "mcu" THEN Sample ELSE Word16))]
            /\ j.ycc \in Grayscale => Len(j.in[1]) % 2 = 0
            /\ j.ycc \notin Grayscale => Len(j.in[2]) = Len(j.in[3]) /\ Len(j.in[1]) = H[j.ycc] * V[j.ycc] * Len(j.in[2])
       /\ j.at = "block" => IF j.ycc \in Grayscale THEN Len(j.in[1]) = 2 ELSE Len(j.in[2]) = 1

VARIABLES job,
          data,      \* in[0], in[1], in[2] as sequences of blocks
          pc,        \* "pixels", "mcu" (transform the next), "block" (code the next), "ac", "done"
          k,         \* luma blocks of the MCUs before this one
          unit,      \* the block of this MCU being coded
          prev_dc,
          dp,        \* that block in zigzag order, its DC a difference
          count,     \* coefficients of it coded or skipped
          puts,      \* put_bits() calls for it: <<value, length>>
          \* kept for the properties only:
          source,    \* the samples of the strip
          block,     \* the block being coded, as dct2_core() has left it, and its component
          dcs        \* for each component, the DC coefficients of the blocks so far

codingVars == <<job, data, pc, k, unit, prev_dc, dp, count, puts, source, block, dcs>>

Scalar == job.target = "scalar"
nc == IF job.ycc \in Grayscale THEN 1 ELSE 3
mcu_skip == CASE job.ycc \in {"YUV444", "GRAY", "GRAY2"} -> 1 [] job.ycc \in {"YUV422", "YUV440"} -> 2
              [] job.ycc \in {"YUV411", "YUV420"} -> 4 [] job.ycc = "YUV410" -> 8
num_mcus == Len(data[1])   \* counts luma blocks

\* An iteration takes mcu_skip luma blocks and one of each chroma, or two of luma.
LumaUnits == IF nc = 3 THEN mcu_skip ELSE 2 * mcu_skip
Units == IF nc = 3 THEN mcu_skip + 2 ELSE LumaUnits
Comp(u) == IF u <= LumaUnits THEN 1 ELSE 1 + u - LumaUnits
Index(u) == IF u <= LumaUnits THEN k + u ELSE 1 + (k \div mcu_skip)
Table(u) == IF Comp(u) = 1 THEN 0 ELSE 1   \* tab_Y, tab_C

CodingInit ==
  /\ job \in Jobs
  /\ pc = job.at
  /\ data = IF job.at = "pixels" THEN <<<<>>, <<>>, <<>>>> ELSE job.in
  /\ k = 0 /\ unit = 1 /\ prev_dc = <<0, 0, 0>>
  /\ dp = <<>> /\ count = 0 /\ puts = <<>>
  /\ source = data /\ block = [comp |-> 1, coefs |-> <<>>] /\ dcs = <<<<>>, <<>>, <<>>>>

-----------------------------------------------------------------------------
(* Colour conversion of one pixel, to samples around zero.                  *)

\* The coefficients that are 0.5 or more do without: green is added whole and
\* halved again, blue and red are averaged with the rest.
rgb2ycbcr_vector_noGreen(r, g, b) ==   \* mutant: forgets the 32768 taken off green's coefficient
  LET M(x, c) == MulFixedPoint15(x, c)
  IN <<((M(r, 19595) + M(g, 38470 - 32768) + M(b, 7471)) \div 2) - 128,
       ((b + (256 - M(r, 11059) - M(g, 21709)) + 1) \div 2) - 128,
       ((r + (256 - M(g, 27439) - M(b, 5329)) + 1) \div 2) - 128>>

rgb2ycbcr_vector(r, g, b) ==
  LET M(x, c) == MulFixedPoint15(x, c)
  IN <<((M(r, 19595) + M(g, 38470 - 32768) + M(b, 7471) + g) \div 2) - 128,
       ((b + (256 - M(r, 11059) - M(g, 21709)) + 1) \div 2) - 128,
       ((r + (256 - M(g, 27439) - M(b, 5329)) + 1) \div 2) - 128>>

\* Through bytes: a chroma of 256 comes back as 0.
rgb2ycbcr_scalar(r, g, b) ==
  LET Rounded(x) == (x + 2^14) \div 2^15
      Byte(x) == x % 256
  IN <<Byte(Rounded(9798 * r + 19235 * g + 3736 * b)) - 128,
       Byte(Rounded(16384 * b - 5528 * r - 10856 * g) + 128) - 128,
       Byte(Rounded(16384 * r - 13720 * g - 2664 * b) + 128) - 128>>

rgb2ycbcr(p) == IF Scalar THEN rgb2ycbcr_scalar(p[1], p[2], p[3]) ELSE rgb2ycbcr_vector(p[1], p[2], p[3])

\* An MCU of pixels has 8 V rows of 8 H each.
HorizontalFactor == H[job.ycc]
VerticalFactor == V[job.ycc]
Pixel(mcu, y, x) == mcu[8 * HorizontalFactor * y + x + 1]

LumaBlock(mcu, h, v) ==
  [i \in 1 .. 64 |-> rgb2ycbcr(Pixel(mcu, 8 * v + ((i-1) \div 8), 8 * h + ((i-1) % 8)))[1]]

\* The pixels that share sample i of the chroma.
Area(mcu, i) ==
  [n \in 0 .. HorizontalFactor * VerticalFactor - 1 |->
     Pixel(mcu, VerticalFactor * ((i-1) \div 8) + (n \div HorizontalFactor),
                HorizontalFactor * ((i-1) % 8) + (n % HorizontalFactor))]
SumOver(values) ==
  LET f[n \in 0 .. Cardinality(DOMAIN values)] == IF n = 0 THEN 0 ELSE f[n-1] + values[n-1]
  IN f[Cardinality(DOMAIN values)]

\* The vector converters shift the sum of the samples around zero, which rounds down;
\* the scalar one adds a half to the sum of the bytes first.
Mean(sum, n) == IF Scalar THEN (sum + n \div 2) \div n ELSE sum \div n
ChromaBlock(mcu, c) ==
  [i \in 1 .. 64 |-> LET area == Area(mcu, i) IN
     Mean(SumOver([n \in DOMAIN area |-> rgb2ycbcr(area[n])[c]]), HorizontalFactor * VerticalFactor)]

Converted ==
  LET luma == HorizontalFactor * VerticalFactor   \* blocks of an MCU
      chroma(c) == IF nc = 1 THEN <<>> ELSE [n \in 1 .. Len(job.in) |-> ChromaBlock(job.in[n], c)]
  IN <<[u \in 1 .. luma * Len(job.in) |->
          LumaBlock(job.in[1 + (u-1) \div luma], (u-1) % HorizontalFactor, ((u-1) % luma) \div HorizontalFactor)],
       chroma(2), chroma(3)>>

Convert ==
  /\ pc = "pixels"
  /\ data' = Converted
  /\ source' = data'
  /\ pc' = "mcu"
  /\ UNCHANGED <<job, k, unit, prev_dc, dp, count, puts, block, dcs>>

-----------------------------------------------------------------------------
(* encode_mcus(). *)

dct2_core(c, d) ==
  LET qtable == create_scaled_qtable(IF c = 1 THEN 1 ELSE 2, job.QF)
  IN IF Scalar THEN dct2_core_scalar(d, qtable) ELSE dct2_core_vector(d, qtable)

TransformMCU ==
  /\ pc = "mcu" /\ k < num_mcus
  /\ data' = [c \in 1 .. 3 |-> [n \in 1 .. Len(data[c]) |->
                IF \E u \in 1 .. Units : Comp(u) = c /\ Index(u) = n THEN dct2_core(c, data[c][n]) ELSE data[c][n]]]
  /\ pc' = "block" /\ unit' = 1
  /\ UNCHANGED <<job, k, prev_dc, dp, count, puts, source, block, dcs>>

LastMCU ==
  /\ pc = "mcu" /\ k >= num_mcus
  /\ pc' = "done"
  /\ UNCHANGED <<job, data, k, unit, prev_dc, dp, count, puts, source, block, dcs>>

Magnitude(v) == IF v < 0 THEN -v ELSE v
\* Bits of n > 0: 32 (or 16) less its leading zeros.
BitLength(n) == CHOOSE b \in 1 .. 16 : 2^(b-1) <= n /\ n < 2^b
\* Negative values are the one's complement of their magnitude.
\* Vector: the magnitude xor a mask of its width.  Scalar: one less, masked.
DiffBits(v, nbits) == IF v < 0 THEN (v - 1) % 2^nbits ELSE v

\* encode_block() up to the DC: reorder, take the difference, code its size and bits.
EncodeDC_shared ==   \* mutant: one predictor for all components
  /\ pc = "block"
  /\ LET c == Comp(unit)
         sp == data[c][Index(unit)]
         diff == wrap16(sp[1] - prev_dc[1])
     IN \E nbits \in IF diff = 0 THEN {0} ELSE {BitLength(Magnitude(diff))} :
          /\ dp' = [i \in 1 .. 64 |-> IF i = 1 THEN diff ELSE sp[zigzag(job.target)[i] + 1]]
          /\ puts' = <<<<DC_cwd(Table(unit), nbits), DC_len(Table(unit), nbits)>>>>
                     \o (IF nbits = 0 THEN <<>> ELSE <<<<DiffBits(diff, nbits), nbits>>>>)
          /\ prev_dc' = [prev_dc EXCEPT ![1] = sp[1]]
          /\ block' = [comp |-> c, coefs |-> sp]
          /\ dcs' = [dcs EXCEPT ![c] = Append(@, sp[1])]
          /\ data' = data
  /\ count' = 1 /\ pc' = "ac"
  /\ UNCHANGED <<job, k, unit, source>>

EncodeDC ==
  /\ pc = "block"
  /\ LET c == Comp(unit)
         sp == data[c][Index(unit)]
         diff == wrap16(sp[1] - prev_dc[c])
         order == zigzag(job.target)
         sizes == IF diff # 0 THEN {BitLength(Magnitude(diff))}
                    ELSE IF Scalar THEN {32 - z : z \in ClzOfZero} ELSE {0}
     IN \E nbits \in sizes :
          /\ dp' = [i \in 1 .. 64 |-> IF i = 1 THEN diff ELSE IF order[i] = None THEN 0 ELSE sp[order[i] + 1]]
          /\ puts' = <<<<DC_cwd(Table(unit), nbits), DC_len(Table(unit), nbits)>>>>
                     \o (IF nbits = 0 THEN <<>> ELSE <<<<DiffBits(diff, nbits), nbits>>>>)
          /\ prev_dc' = [prev_dc EXCEPT ![c] = sp[1]]
          /\ block' = [comp |-> c, coefs |-> sp]
          /\ dcs' = [dcs EXCEPT ![c] = Append(@, sp[1])]
          \* The scalar code stores the difference in the block itself.
          /\ data' = IF Scalar THEN [data EXCEPT ![c][Index(unit)][1] = diff] ELSE data
  /\ count' = 1 /\ pc' = "ac"
  /\ UNCHANGED <<job, k, unit, source>>

\* How each target makes the 64-bit word with a bit for every coefficient that is not
\* zero.  A word is the set of its bits, a register the sequence of its bytes, each the
\* set of its bits.  bitmap_mask leaves a lane of a row one bit of its byte.
Shl(bits, n) == {bit + n : bit \in bits} \cap 0 .. 63
RowBytes(r) == [l \in 1 .. 8 |-> IF dp[8 * r + l] # 0 THEN {8 - l} ELSE {}]
SumOf8(r) == UNION {RowBytes(r)[l] : l \in 1 .. 8}
Pairs(v) == [n \in 1 .. Len(v) \div 2 |-> v[2 * n - 1] \cup v[2 * n]]
PairwiseOrU8(v2, v1) == Pairs(v2) \o Pairs(v1)

word_scalar ==
  LET f[i \in 0 .. 64] == IF i = 0 THEN {} ELSE Shl(f[i-1] \cup (IF dp[i] # 0 THEN {0} ELSE {}), 1) IN f[64]

word_512 == UNION {Shl(SumOf8(r), 56 - 8 * r) : r \in 0 .. 7}

word_256 == Shl(UNION {Shl(SumOf8(r), 24 - 8 * r) : r \in 0 .. 3}, 32)
            \cup UNION {Shl(SumOf8(4 + r), 24 - 8 * r) : r \in 0 .. 3}

word_128 ==
  LET rows(lower, upper) == RowBytes(lower) \o RowBytes(upper)   \* OrderedTruncate2To
      bytes == Pairs(PairwiseOrU8(PairwiseOrU8(rows(7, 6), rows(5, 4)), PairwiseOrU8(rows(3, 2), rows(1, 0))))
  IN UNION {Shl(bytes[n], 8 * (n-1)) : n \in 1 .. 8}

\* Once the DC's bit is shifted out, as the scalar loop's last shift does; then every run
\* and every coefficient coded shifts `count` on.  The places that are left:
bitmap ==
  LET word == CASE Scalar -> word_scalar
                [] job.target = "avx3" -> Shl(word_512, 1)
                [] job.target = "avx2" -> Shl(word_256, 1)
                [] OTHER -> Shl(word_128, 1)
  IN {p \in count .. 63 : 64 - p \in word}
ZRL == <<AC_cwd(Table(unit), 16 * 15), AC_len(Table(unit), 16 * 15)>>
EOB == <<AC_cwd(Table(unit), 0), AC_len(Table(unit), 0)>>

\* The next coefficient: a ZRL for every sixteen zeros before it, then code and bits
\* in one call.
EncodeAC_unmasked ==   \* mutant: a negative coefficient goes out as it is, less one
  /\ pc = "ac" /\ bitmap # {}
  /\ LET places == bitmap
         p == CHOOSE q \in places : \A r \in places : q <= r
         run == p - count
         nbits == BitLength(Magnitude(dp[p + 1]))
         RS == 16 * (run % 16) + nbits
         bits == IF dp[p + 1] < 0 THEN dp[p + 1] - 1 ELSE dp[p + 1]
     IN /\ puts' = puts \o [n \in 1 .. run \div 16 |-> ZRL]
                   \o <<<<AC_cwd(Table(unit), RS) * 2^nbits + bits, AC_len(Table(unit), RS) + nbits>>>>
        /\ count' = p + 1
  /\ UNCHANGED <<job, data, pc, k, unit, prev_dc, dp, source, block, dcs>>

EncodeAC ==
  /\ pc = "ac" /\ bitmap # {}
  /\ LET places == bitmap
         p == CHOOSE q \in places : \A r \in places : q <= r
         run == p - count
         nbits == BitLength(Magnitude(dp[p + 1]))
         RS == 16 * (run % 16) + nbits
     IN /\ puts' = puts \o [n \in 1 .. run \div 16 |-> ZRL]
                   \o <<<<AC_cwd(Table(unit), RS) * 2^nbits + DiffBits(dp[p + 1], nbits),
                          AC_len(Table(unit), RS) + nbits>>>>
        /\ count' = p + 1
  /\ UNCHANGED <<job, data, pc, k, unit, prev_dc, dp, source, block, dcs>>

\* The end of a block, and with the last of its MCU the step to the next MCU.
EndBlock_stay ==   \* mutant: never moves on to the next MCU
  /\ pc = "ac" /\ bitmap = {}
  /\ puts' = IF count # 64 THEN Append(puts, EOB) ELSE puts
  /\ pc' = "block" /\ unit' = unit + 1
  /\ UNCHANGED <<job, data, k, prev_dc, dp, count, source, block, dcs>>

EndBlock ==
  /\ pc = "ac" /\ bitmap = {}
  /\ puts' = IF count # 64 THEN Append(puts, EOB) ELSE puts
  /\ IF unit = Units THEN pc' = "mcu" /\ k' = k + LumaUnits /\ UNCHANGED unit
                     ELSE pc' = "block" /\ unit' = unit + 1 /\ UNCHANGED k
  /\ UNCHANGED <<job, data, prev_dc, dp, count, source, block, dcs>>

Finished == pc = "done" /\ UNCHANGED codingVars

CodingNext == Convert \/ TransformMCU \/ LastMCU \/ EncodeDC \/ EncodeAC \/ EndBlock \/ Finished

CodingSpec == CodingInit /\ [][CodingNext]_codingVars
-----------------------------------------------------------------------------
(* A decoder that knows the DHT segments and the standard, nothing else. *)

Bits ==
  LET f[n \in 0 .. Len(puts)] ==
        IF n = 0 THEN <<>>
          ELSE f[n-1] \o [i \in 1 .. puts[n][2] |-> (puts[n][1] \div 2^(puts[n][2] - i)) % 2]
  IN f[Len(puts)]

\* The number the l bits after the first q make.
Number(bits, q, l) ==
  LET f[n \in 0 .. l] == IF n = 0 THEN 0 ELSE 2 * f[n-1] + bits[q + n] IN f[l]

\* Negative numbers have a zero in front.
Extend(v, size) == IF size > 0 /\ v < 2^(size-1) THEN (v - 2^size) + 1 ELSE v

\* The lengths of the codes that stand after the first q bits: one, in a good stream.
CodesAt(bits, q, IsCode(_, _)) ==
  {l \in 1 .. 16 : q + l <= Len(bits) /\ IsCode(l, Number(bits, q, l))}

Failed == [at |-> 0, p |-> 64, ok |-> FALSE, zz |-> <<>>]

\* After the DC: where in the stream, the next coefficient, those found so far.
DecodeDC(bits, t) ==
  LET ls == CodesAt(bits, 0, LAMBDA l, code : IsDCCode(t, l, code))
      l == CHOOSE x \in ls : TRUE
      size == DCSymbol(t, l, Number(bits, 0, l))
  IN IF ls = {} \/ l + size > Len(bits) THEN Failed
       ELSE [at |-> l + size, p |-> 1, ok |-> TRUE,
             zz |-> [i \in 1 .. 64 |-> IF i = 1 THEN Extend(Number(bits, l, size), size) ELSE 0]]

DecodeAC(bits, t, d) ==
  LET ls == CodesAt(bits, d.at, LAMBDA l, code : IsACCode(t, l, code))
      l == CHOOSE x \in ls : TRUE
      rs == ACSymbol(t, l, Number(bits, d.at, l))
      run == rs \div 16
      size == rs % 16
      at == d.at + l
  IN IF ls = {} \/ at + size > Len(bits) \/ (rs # 0 /\ d.p + run > 63) THEN Failed
       ELSE IF rs = 0 THEN [d EXCEPT !.at = at, !.p = 64]
       ELSE [d EXCEPT !.at = at + size, !.p = @ + run + 1,
                      !.zz[d.p + run + 1] = Extend(Number(bits, at, size), size)]

Decode(bits, t) ==
  LET f[n \in 0 .. Len(puts)] ==
        IF n = 0 THEN DecodeDC(bits, t)
          ELSE LET d == f[n-1] IN IF d.p = 64 THEN d ELSE DecodeAC(bits, t, d)
  IN f[Len(puts)]

\* The exact transform: half of cos((2x+1) u pi/16), less for u = 0, times 2^13.
Basis == <<
  << 2896,  2896,  2896,  2896,  2896,  2896,  2896,  2896>>,
  << 4017,  3406,  2276,   799,  -799, -2276, -3406, -4017>>,
  << 3784,  1567, -1567, -3784, -3784, -1567,  1567,  3784>>,
  << 3406,  -799, -4017, -2276,  2276,  4017,   799, -3406>>,
  << 2896, -2896, -2896,  2896,  2896, -2896, -2896,  2896>>,
  << 2276, -4017,   799,  3406, -3406,  -799,  4017, -2276>>,
  << 1567, -3784,  3784, -1567, -1567,  3784, -3784,  1567>>,
  <<  799, -2276,  3406, -4017,  4017, -3406,  2276,  -799>>>>

\* Coefficient i of samples d, times 2^18.
ExactDCT(d) ==
  LET row(y, u) == (Basis[u][1] * d[8*y+1] + Basis[u][2] * d[8*y+2] + Basis[u][3] * d[8*y+3] + Basis[u][4] * d[8*y+4]
                    + Basis[u][5] * d[8*y+5] + Basis[u][6] * d[8*y+6] + Basis[u][7] * d[8*y+7] + Basis[u][8] * d[8*y+8]) \div 2^8
      rows(u) == <<row(0, u), row(1, u), row(2, u), row(3, u), row(4, u), row(5, u), row(6, u), row(7, u)>>
      R == <<rows(1), rows(2), rows(3), rows(4), rows(5), rows(6), rows(7), rows(8)>>
      at(v, r) == Basis[v][1] * r[1] + Basis[v][2] * r[2] + Basis[v][3] * r[3] + Basis[v][4] * r[4]
                  + Basis[v][5] * r[5] + Basis[v][6] * r[6] + Basis[v][7] * r[7] + Basis[v][8] * r[8]
  IN [i \in 1 .. 64 |-> at(((i-1) \div 8) + 1, R[((i-1) % 8) + 1])]

-----------------------------------------------------------------------------
(* Properties. *)

\* The types of the variables.
CodingTypeOK ==
  /\ job \in Jobs
  /\ data \in [1 .. 3 -> Seq(Block(Word16))] /\ source \in [1 .. 3 -> Seq(Block(Word16))]
  /\ pc \in {"pixels", "mcu", "block", "ac", "done"}
  /\ k \in 0 .. num_mcus /\ unit \in 1 .. Units /\ count \in 0 .. 64
  /\ prev_dc \in [1 .. 3 -> Word16] /\ dcs \in [1 .. 3 -> Seq(Word16)]

\* Every luma sample is within 5/4 of its pixel's exact luma, and every chroma sample of
\* its area's exact mean blue or red difference, but for what a shift of the sum cuts off
\* (color.cpp:690-1318, 1325-1436): whatever the format, in the vector converters and in
\* the scalar one.
Exact(p) ==
  <<299 * p[1] + 587 * p[2] + 114 * p[3] - 128000,
    (500000 * p[3] - 168736 * p[1] - 331264 * p[2]) \div 1000,
    (500000 * p[1] - 418688 * p[2] - 81312 * p[3]) \div 1000>>
ExactSum(mcu, i, c) == LET area == Area(mcu, i) IN SumOver([n \in DOMAIN area |-> Exact(area[n])[c]])
ColourClose ==
  job.at = "pixels" /\ pc = "mcu" /\ k = 0 =>
    LET area == HorizontalFactor * VerticalFactor
    IN \A n \in 1 .. Len(job.in) :
         /\ \A y \in 0 .. 8 * VerticalFactor - 1, x \in 0 .. 8 * HorizontalFactor - 1 :
              LET b == area * (n-1) + HorizontalFactor * (y \div 8) + (x \div 8) + 1
              IN Magnitude(1000 * data[1][b][8 * (y % 8) + (x % 8) + 1] - Exact(Pixel(job.in[n], y, x))[1]) <= 1250
         /\ \A c \in 2 .. nc : \A i \in 1 .. 64 :
              Magnitude(1000 * area * data[c][n][i] - ExactSum(job.in[n], i, c)) <= 1250 * area + 1000 * (area - 1)

AtMCU == pc = "block" /\ unit = 1 /\ job.at # "block"

\* A block of this MCU, dequantised with the steps the header announces, is the exact
\* transform of its samples but for half a step and the fast DCT's own error, 2.5.
BlockReconstructed ==
  AtMCU => \A u \in 1 .. Units :
    LET c == Comp(u)
        exact == ExactDCT(source[c][Index(u)])
        step == announced_qtable(Table(u) + 1, job.QF)
        found == data[c][Index(u)]
    IN \A i \in 1 .. 64 :
         Magnitude(found[i] * step[i] * 2^6 - (exact[i] \div 2^12)) <= 32 * step[i] + 160

\* Whatever the target, the same coefficients: no lane of the vectors overflows where
\* the scalar code has 32 bits (dct.cpp:350).
TargetsAgree ==
  AtMCU => \A u \in 1 .. Units :
    LET d == source[Comp(u)][Index(u)]
        qtable == create_scaled_qtable(Table(u) + 1, job.QF)
    IN dct2_core_vector(d, qtable) = dct2_core_scalar(d, qtable)

\* What put_bits() requires of its caller (bitstream.hpp:180-193): no bit above the
\* length, and no call for a symbol that has no code.
CodesFit ==
  \A n \in 1 .. Len(puts) : puts[n][2] \in 1 .. 26 /\ puts[n][1] \in 0 .. 2^puts[n][2] - 1

\* The bits of a block, all of them and no more, give a decoder the coefficients that
\* dct2_core() left, the DC from the block of the same component before it, in every
\* target's own reordering.
BlockDecodes ==
  pc \in {"block", "mcu"} /\ puts # <<>> =>
    LET bits == Bits
        t == IF block.comp = 1 THEN 0 ELSE 1
        d == Decode(bits, t)
        dc == dcs[block.comp]
        before == IF Len(dc) = 1 THEN 0 ELSE dc[Len(dc) - 1]
    IN /\ d.ok /\ d.p = 64 /\ d.at = Len(bits)
       /\ before + d.zz[1] = block.coefs[1]
       /\ \A i \in 1 .. 63 : d.zz[ZigzagRank[i] + 1] = block.coefs[i + 1]
=============================================================================
