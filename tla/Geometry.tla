------------------------------ MODULE Geometry ------------------------------
(***************************************************************************)
(* The arithmetic that must agree between the constructor (how the image   *)
(* is rounded up, cut into strips and shared out to workers), the header   *)
(* (what size and restart interval a decoder is told) and encode_mcus()    *)
(* (how many MCUs are really coded, from how large a buffer).  The state   *)
(* is one encoder, from its constructor through one invoke(); a decoder    *)
(* counts along.                                                           *)
(***************************************************************************)
EXTENDS Formats, FiniteSets

CONSTANT Images   \* the images and settings an encoder is constructed with

\* vector is HWY_MAX_BYTES of the build, 8 in one without vectors; cores is the machine's
\* hardware_concurrency().
Image == [width : Nat \ {0}, height : Nat \ {0}, ncomp : {1, 3}, ycc : YCC,
          threads : Int, vector : {8, 16, 32, 64}, cores : Nat]

ASSUME ImagesAssumption == Images \subseteq Image

VARIABLES img,             \* the constructor's arguments
          pc,              \* "construct", "header", "strip" or "done"
          YCCtype, rounded_width, rounded_height, num_strips, num_workers,
          interval,        \* the restart interval of DRI, 0 without one
          s,               \* strips coded
          coded,           \* MCUs coded
          restarts         \* the counts of MCUs after which a marker was put

vars == <<img, pc, YCCtype, rounded_width, rounded_height, num_strips, num_workers,
          interval, s, coded, restarts>>

-----------------------------------------------------------------------------
Init ==
  /\ img \in Images
  /\ pc = "construct"
  /\ YCCtype = img.ycc
  /\ rounded_width = 0 /\ rounded_height = 0
  /\ num_strips = 0 /\ num_workers = 0
  /\ interval = 0 /\ s = 0 /\ coded = 0 /\ restarts = {}

\* The member initialisers, in their order: the sizes are rounded for the chroma
\* format that was asked for, and only then a one-component image becomes GRAY.
Construct ==
  /\ pc = "construct"
  /\ rounded_width' = round_up(img.width, Most(DCTSIZE * H[img.ycc], img.vector))
  /\ rounded_height' = round_up(img.height, DCTSIZE * V[img.ycc])
  /\ YCCtype' = compute_ncomp_out(img.ncomp, img.ycc)
  /\ num_strips' = CeilDiv(rounded_height', BUFLINES)
  /\ num_workers' = pick_num_workers(img.threads, num_strips', img.cores)
  /\ pc' = "header"
  /\ UNCHANGED <<img, interval, s, coded, restarts>>

\* create_mainheader(), its restart interval.
CreateHeader_luma ==   \* mutant: one row of MCUs per strip, whatever the format
  /\ pc = "header"
  /\ interval' = IF num_workers > 1 THEN CeilDiv(img.width, DCTSIZE * H[YCCtype]) ELSE 0
  /\ pc' = "strip"
  /\ UNCHANGED <<img, YCCtype, rounded_width, rounded_height, num_strips, num_workers,
                 s, coded, restarts>>

CreateHeader ==
  /\ pc = "header"
  /\ interval' = IF num_workers > 1
                   THEN CeilDiv(img.width, DCTSIZE * H[YCCtype]) * (BUFLINES \div (DCTSIZE * V[YCCtype]))
                   ELSE 0
  /\ pc' = "strip"
  /\ UNCHANGED <<img, YCCtype, rounded_width, rounded_height, num_strips, num_workers,
                 s, coded, restarts>>

\* The rows encode_strip() hands to encode_mcus(), and the blocks and MCUs there.
MCURows_full == BUFLINES   \* mutant: the last strip is coded as if it were whole

MCURows == Least(BUFLINES, rounded_height - s * BUFLINES)

NumBlocks == (MCURows \div DCTSIZE) * (rounded_width \div DCTSIZE)
MCUSkip == H[YCCtype] * V[YCCtype]
CodedMCUs == IF YCCtype \in {"GRAY", "GRAY2"} THEN 2 * CeilDiv(NumBlocks, 2) ELSE CeilDiv(NumBlocks, MCUSkip)

EncodeStrip_rstShort ==   \* mutant: the last two strips have no marker between them
  /\ pc = "strip"
  /\ coded' = coded + CodedMCUs
  /\ restarts' = IF num_workers > 1 /\ s + 2 < num_strips THEN restarts \cup {coded'} ELSE restarts
  /\ s' = s + 1
  /\ pc' = IF s + 1 < num_strips THEN "strip" ELSE "done"
  /\ UNCHANGED <<img, YCCtype, rounded_width, rounded_height, num_strips, num_workers, interval>>

EncodeStrip ==
  /\ pc = "strip"
  /\ coded' = coded + CodedMCUs
  /\ restarts' = IF num_workers > 1 /\ s + 1 < num_strips THEN restarts \cup {coded'} ELSE restarts
  /\ s' = s + 1
  /\ pc' = IF s + 1 < num_strips THEN "strip" ELSE "done"
  /\ UNCHANGED <<img, YCCtype, rounded_width, rounded_height, num_strips, num_workers, interval>>

Done == pc = "done" /\ UNCHANGED vars

Next == Construct \/ CreateHeader \/ EncodeStrip \/ Done

Spec == Init /\ [][Next]_vars

-----------------------------------------------------------------------------
(* Properties. *)

TypeOK ==
  /\ img \in Images
  /\ pc \in {"construct", "header", "strip", "done"}
  /\ YCCtype \in YCC
  /\ rounded_width \in Nat /\ rounded_height \in Nat
  /\ num_strips \in Nat /\ num_workers \in Nat
  /\ interval \in Nat /\ s \in 0 .. num_strips /\ coded \in Nat
  /\ restarts \subseteq Nat

\* What the size in SOF makes a decoder expect.
MCUsPerRow == CeilDiv(img.width, DCTSIZE * H[YCCtype])
TotalMCUs == MCUsPerRow * CeilDiv(img.height, DCTSIZE * V[YCCtype])

\* After each strip the decoder, who counts the MCUs of the size in the header,
\* stands where the encoder does: at the first MCU of the next strip's rows, or at
\* the end of the image (jpegenc.cpp:178-179 rounds for the vector length and the
\* requested format, jpgheaders.cpp:166 announces the image's own size).
DecoderKeepsUp ==
  pc \in {"strip", "done"} =>
    coded = Least(s * MCUsPerRow * (BUFLINES \div (DCTSIZE * V[YCCtype])), TotalMCUs)

\* Restart markers stand where the announced interval has a decoder look for
\* them, at every multiple that more MCUs follow and nowhere else.
RestartsOnInterval ==
  pc = "done" =>
    restarts = IF interval = 0 THEN {} ELSE {k \in 1 .. coded - 1 : k % interval = 0}

\* With two threads or more asked for, there is a restart marker between any two
\* strips (include/jpegenc.hpp:35-36).
RestartsBetweenStrips ==
  pc = "done" /\ img.threads >= 2 /\ num_strips > 1 =>
    Cardinality(restarts) = num_strips - 1

\* encode_mcus() reads no further than the line buffers the constructor allocated,
\* for luma and for chroma, and every worker has a strip (jpegenc.cpp:191-194, 82).
WithinBuffers ==
  pc = "strip" =>
    /\ num_workers \in 1 .. num_strips
    /\ CodedMCUs * MCUSkip * DCTSIZE * DCTSIZE <= rounded_width * BUFLINES
    /\ CodedMCUs * DCTSIZE * DCTSIZE
         <= (rounded_width \div H[YCCtype]) * (BUFLINES \div V[YCCtype])
=============================================================================
