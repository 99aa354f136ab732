-------------------------------- MODULE Pnm ---------------------------------
(***************************************************************************)
(* read_pnm(): the header of the input file, one fgetc() a step.           *)
(***************************************************************************)
EXTENDS Integers, Sequences, FiniteSets

EOF == -1
HASH == 35
NEWLINE == 10
Blanks == {32, 9, 10, 13}   \* ' ', '\t', '\n', 0xd
ZERO == 48

VARIABLES file,      \* the bytes of the file
          at,        \* how many of them have been read
          ch,         \* what the last fgetc() returned
          status,    \* numbers read
          val,       \* of the one being read
          size,      \* <<width, height, maxval>>, as far as read
          ncomp,
          pnm_pc     \* "closed", "magic", "type", "next", "eat", "comment", "value", "maxval", "done", "failed"

pnm_vars == <<file, at, ch, status, val, size, ncomp, pnm_pc>>

PnmInit ==
  /\ file = <<>> /\ at = 0 /\ ch = EOF /\ status = 0 /\ val = 0 /\ size = <<>> /\ ncomp = 0
  /\ pnm_pc = "closed"

fopen(bytes) ==
  /\ pnm_pc = "closed"
  /\ file' = bytes /\ pnm_pc' = "magic"
  /\ UNCHANGED <<at, ch, status, val, size, ncomp>>

\* At the end of the file the position stays.
fgetc == IF at < Len(file) THEN ch' = file[at + 1] /\ at' = at + 1 ELSE ch' = EOF /\ at' = at

ReadMagic ==
  /\ pnm_pc = "magic"
  /\ fgetc
  /\ pnm_pc' = IF ch' = 80 THEN "type" ELSE "failed"    \* 'P'
  /\ UNCHANGED <<file, status, val, size, ncomp>>

\* '5' and '6'; the ASCII formats '2' and '3' fail later, all others at once.
ReadType ==
  /\ pnm_pc = "type"
  /\ fgetc
  /\ ncomp' = IF ch' \in {51, 54} THEN 3 ELSE IF ch' \in {50, 53} THEN 1 ELSE ncomp
  /\ pnm_pc' = IF ch' \in {53, 54} THEN "next" ELSE "failed"
  /\ UNCHANGED <<file, status, val, size>>

NextNumber ==
  /\ pnm_pc = "next" /\ status < 3
  /\ fgetc
  /\ pnm_pc' = "eat"
  /\ UNCHANGED <<file, status, val, size, ncomp>>

EatBlank ==
  /\ pnm_pc = "eat" /\ ch \in Blanks
  /\ fgetc
  /\ UNCHANGED <<file, status, val, size, ncomp, pnm_pc>>

StartComment ==
  /\ pnm_pc = "eat" /\ ch = HASH
  /\ pnm_pc' = "comment"
  /\ UNCHANGED <<file, at, ch, status, val, size, ncomp>>

\* The loop reads to the end of the line or of the file, and then one more.
Comment_noEof ==   \* mutant: does not look for the end of the file
  /\ pnm_pc = "comment"
  /\ fgetc
  /\ pnm_pc' = IF ch # NEWLINE THEN "comment" ELSE "eat"
  /\ UNCHANGED <<file, status, val, size, ncomp>>

Comment ==
  /\ pnm_pc = "comment"
  /\ fgetc
  /\ pnm_pc' = IF ch \notin {EOF, NEWLINE} THEN "comment" ELSE "eat"
  /\ UNCHANGED <<file, status, val, size, ncomp>>

\* Whatever is no blank counts as a digit, a '#' after the first as well.
Digit ==
  /\ \/ pnm_pc = "eat" /\ ch # HASH
     \/ pnm_pc = "value"
  /\ ch \notin Blanks \cup {EOF}
  /\ val' = 10 * val + ch - ZERO
  /\ fgetc
  /\ pnm_pc' = "value"
  /\ UNCHANGED <<file, status, size, ncomp>>

EndNumber_eatLine ==   \* mutant: takes the blank behind the number back
  /\ \/ pnm_pc = "eat" /\ ch = EOF
     \/ pnm_pc = "value" /\ ch \in Blanks \cup {EOF}
  /\ size' = Append(size, val) /\ val' = 0 /\ status' = status + 1
  /\ at' = IF ch = EOF THEN at ELSE at - 1
  /\ pnm_pc' = IF status' = 3 THEN "maxval" ELSE "next"
  /\ UNCHANGED <<file, ch, ncomp>>

EndNumber ==
  /\ \/ pnm_pc = "eat" /\ ch = EOF
     \/ pnm_pc = "value" /\ ch \in Blanks \cup {EOF}
  /\ size' = Append(size, val) /\ val' = 0 /\ status' = status + 1
  /\ pnm_pc' = IF status' = 3 THEN "maxval" ELSE "next"
  /\ UNCHANGED <<file, at, ch, ncomp>>

CheckMaxval ==
  /\ pnm_pc = "maxval"
  /\ pnm_pc' = IF size[3] > 255 THEN "failed" ELSE "done"
  /\ UNCHANGED <<file, at, ch, status, val, size, ncomp>>

ReadPnm ==
  \/ ReadMagic \/ ReadType \/ NextNumber \/ EatBlank \/ StartComment \/ Comment \/ Digit \/ EndNumber \/ CheckMaxval
-----------------------------------------------------------------------------
(* The format: what is in no comment and no blank makes the numbers, and one *)
(* blank stands between the last of them and the image.                      *)

\* A comment goes from a '#' up to the end of its line.
Commented(bytes) ==
  LET comment[p \in 2 .. Len(bytes)] == p > 2 /\ (bytes[p] = HASH \/ (comment[p-1] /\ bytes[p-1] # NEWLINE))
  IN {p \in 2 .. Len(bytes) : comment[p]}

\* Where the header's numbers stand.
Significant(bytes) == {p \in 3 .. Len(bytes) : p \notin Commented(bytes) /\ bytes[p] \notin Blanks}

Starts(digits) == {p \in digits : p - 1 \notin digits}
Start(digits, n) == CHOOSE p \in Starts(digits) : Cardinality({q \in Starts(digits) : q <= p}) = n
End(digits, n) == CHOOSE p \in digits : p >= Start(digits, n) /\ p + 1 \notin digits /\ Start(digits, n) .. p \subseteq digits

\* The number that starts at `first`, as far as each of its digits.
Number(bytes, first, last) ==
  LET f[p \in first - 1 .. last] == IF p < first THEN 0 ELSE 10 * f[p-1] + bytes[p] - ZERO IN f
NumberAt(bytes, digits, n) == Number(bytes, Start(digits, n), End(digits, n))[End(digits, n)]

WellFormed(bytes, digits) ==
  /\ Len(bytes) > 2 /\ bytes[1] = 80 /\ bytes[2] \in {53, 54}
  /\ Cardinality(Starts(digits)) >= 3
  /\ \A n \in 1 .. 3 :
       /\ \A p \in Start(digits, n) .. End(digits, n) : bytes[p] \in ZERO .. ZERO + 9
       /\ LET behind == End(digits, n) + 1 IN behind <= Len(bytes) /\ bytes[behind] \in Blanks
  /\ NumberAt(bytes, digits, 3) \in 0 .. 255

\* A binary file of one byte a sample, comments anywhere between the numbers, is read for
\* what it says: the size, the components, and where the image starts; and no such file is
\* refused (pnm.hpp:51-90).
PnmRead ==
  pnm_pc \in {"done", "failed"} =>
    \A digits \in {Significant(file)} : WellFormed(file, digits) =>
      /\ pnm_pc = "done"
      /\ size = [n \in 1 .. 3 |-> NumberAt(file, digits, n)]
      /\ ncomp = IF file[2] = 54 THEN 3 ELSE 1
      /\ at = End(digits, 3) + 1
=============================================================================
