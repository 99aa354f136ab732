--------------------------- MODULE MCBlockCoding ----------------------------
(* BlockCoding on jobs that reach every code, every position and the extremes. *)
EXTENDS BlockCoding

Repeat(v) == [i \in 1 .. 64 |-> v]

-----------------------------------------------------------------------------
(* MCUs already transformed. *)

\* The block with value f[p] at place p of the zigzag order, and the DC dc.
Coefs(dc, f) == [i \in 1 .. 64 |-> LET p == ZigzagRank[i-1] IN
                   IF p = 0 THEN dc ELSE IF p \in DOMAIN f THEN f[p] ELSE 0]

\* The smallest and the largest number of a size, and their negatives.
OfSize(size, kind) ==
  CASE kind = 0 -> 2^size - 1 [] kind = 1 -> 2^(size-1) [] kind = 2 -> 1 - 2^size [] kind = 3 -> -(2^(size-1))

\* Coefficients `run` zeros apart, of sizes that follow each other.
Runs(run, n) ==
  LET m == 63 \div (run + 1)
      places == {(run + 1) * j : j \in 1 .. m}
  IN Coefs(n, [p \in places |-> LET j == (p \div (run + 1)) + m * n IN OfSize((j % 10) + 1, (j \div 10) % 4)])

\* One coefficient at place p.
Single(p) == Coefs(0, [q \in {p} |-> OfSize((p % 10) + 1, p % 4)])

\* In 4:4:4 the same block for luma and both chromas; an MCU of 4:1:0 has eight in a row.
Thrice(b) == <<<<b>>, <<b>>, <<b>>>>
Coded(target, ycc, in) == [target |-> target, ycc |-> ycc, QF |-> 75, in |-> in, at |-> "block"]

DCs == {<<0, 1, -1, 3, -5, 11, -21, 43>>, <<-85, 171, -341, 683, -1024, 1016, 0, 0>>,
        <<128, 0, 255, 0, -511, 512, -512, 1>>, <<1016, -1024, 1016, 1, 2, 6, 14, 30>>}

CodedJobs ==
  {Coded(t, "YUV444", Thrice(Runs(run, n))) : t \in Targets, run \in 0 .. 15, n \in 0 .. 3}
  \cup {Coded(t, "YUV444", Thrice(Single(p))) : t \in Targets, p \in 1 .. 63}
  \cup {Coded(t, "YUV410", <<[n \in 1 .. 8 |-> Coefs(dc[n], [p \in {63} |-> n])],
                              <<Coefs(dc[8], <<>>)>>, <<Coefs(dc[5], <<>>)>>>>) : t \in Targets, dc \in DCs}

-----------------------------------------------------------------------------
(* Samples. *)

Impulse(i, v) == [j \in 1 .. 64 |-> IF i = j THEN v ELSE 0]
\* The extremes a coefficient can reach: samples with the signs of its basis function.
Signs(i, sign) == [j \in 1 .. 64 |->
  IF sign * Basis[((i-1) \div 8) + 1][((j-1) \div 8) + 1] * Basis[((i-1) % 8) + 1][((j-1) % 8) + 1] > 0 THEN 127 ELSE -128]
\* No pattern at all.
Noise(n) == [j \in 1 .. 64 |-> ((j * j * 37 + j * n * 101 + n * 59) % 256) - 128]

Sampled(target, ycc, QF, in) == [target |-> target, ycc |-> ycc, QF |-> QF, in |-> in, at |-> "mcu"]
Builds == {"scalar", "avx2"}

SampledJobs ==
  {Sampled(t, "YUV444", QF, Thrice(Signs(i, s))) : t \in Builds, QF \in {99}, i \in 1 .. 64, s \in {1}}
  \cup {Sampled(t, "YUV444", QF, <<<<Signs(i, -1)>>, <<Signs(65 - i, 1)>>, <<Signs(i, 1)>>>>) :
          t \in Builds, QF \in {0, 1, 25, 49, 50, 75, 95}, i \in {1, 2, 10, 28, 37, 61, 64}}
  \cup {Sampled(t, "YUV444", 90, <<<<Impulse(i, -128)>>, <<Impulse(i, 127)>>, <<Noise(i)>>>>) :
          t \in Builds, i \in {1, 2, 8, 19, 36, 46, 57, 63, 64}}
  \* Two MCUs and more, so that predictors pass from one to the next.
  \cup {Sampled(t, "YUV420", 97, <<[n \in 1 .. 8 |-> Repeat(IF n % 3 = 0 THEN -128 ELSE 127)],
                                    <<Repeat(-128), Repeat(127)>>, <<Repeat(127), Noise(3)>>>>) : t \in Builds}
  \cup {Sampled(t, "YUV422", 60, <<[n \in 1 .. 4 |-> Noise(n)], <<Noise(5), Repeat(0)>>, <<Repeat(100), Noise(6)>>>>) :
          t \in Builds}
  \cup {Sampled(t, y, 97, <<<<Repeat(-128), Repeat(127), Noise(1), Repeat(0)>>, <<>>, <<>>>>) :
          t \in Builds, y \in {"GRAY", "GRAY2"}}

-----------------------------------------------------------------------------
(* Pixels: a grid over the colours, its corners and edges. *)

Level == <<0, 1, 64, 127, 128, 191, 254, 255>>
\* Left out for the scalar build: pure blue and pure red, whose chroma of 256 becomes 0.
\* The whole grid, neighbours far apart, in as many MCUs as it fills.
Scattered(n) == LET c == (n * 203) % 512 IN <<Level[(c \div 64) + 1], Level[((c \div 8) % 8) + 1], Level[(c % 8) + 1]>>
MCU(ycc, n) == LET size == 64 * H[ycc] * V[ycc] IN [i \in 1 .. size |-> Scattered(n * size + i)]
\* Both ends of a chroma component in every MCU, flat and by turns.
Flat(ycc, p, q) == [i \in 1 .. 64 * H[ycc] * V[ycc] |-> IF i % 3 = 0 THEN p ELSE q]
Tamed(mcu) == [i \in DOMAIN mcu |-> CASE mcu[i] = <<255, 0, 0>> -> <<254, 0, 0>>
                                          [] mcu[i] = <<0, 0, 255>> -> <<0, 0, 254>> [] OTHER -> mcu[i]]
MCUs(ycc) ==
  {<<MCU(ycc, n)>> : n \in 0 .. (8 \div (H[ycc] * V[ycc])) - 1}
  \cup {<<Flat(ycc, <<255, 0, 0>>, <<0, 255, 255>>)>>, <<Flat(ycc, <<0, 0, 255>>, <<255, 255, 0>>)>>}
PixelJobs ==
  UNION {{[target |-> t, ycc |-> y, QF |-> 80, at |-> "pixels",
           in |-> IF t = "scalar" THEN [n \in DOMAIN in |-> Tamed(in[n])] ELSE in] : t \in Builds, in \in MCUs(y)} :
           y \in {"YUV444", "YUV422", "YUV411", "YUV440", "YUV420", "YUV410"}}
  \cup {[target |-> t, ycc |-> "GRAY", QF |-> 80, at |-> "pixels", in |-> <<MCU("GRAY", 2), MCU("GRAY", 5)>>] : t \in Builds}

Passing == CodedJobs \cup SampledJobs \cup PixelJobs

\* The highest quality the command line takes.
Hundred == {Sampled(t, "YUV444", 100, Thrice(b)) : t \in Builds, b \in {Signs(64, 1), Noise(1), Impulse(1, 127)}}
=============================================================================
