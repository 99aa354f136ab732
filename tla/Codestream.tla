----------------------------- MODULE Codestream -----------------------------
(***************************************************************************)
(* What the encoder writes, at the grain the pipeline can get wrong: a     *)
(* codestream is a sequence of items, and Decodes says when a decoder that *)
(* follows the rules of the format recovers the whole image from it.       *)
(*   header   everything from SOI to SOS; dri says whether it announces a  *)
(*            restart interval of one strip                                *)
(*   scan     the entropy-coded MCUs of a strip: `strip' is the strip they *)
(*            were laid out for, `rows' the strip whose rows the input     *)
(*            buffer held, `pred' the strip whose last DC values were the  *)
(*            predictors (NoStrip: the predictors were zero)               *)
(*   partial  the bytes of a scan or a marker that was cut short (NoStrip: *)
(*            of the header or EOI)                                        *)
(*   rst      restart marker RST_n                                         *)
(*   eoi      the end-of-image marker                                      *)
(***************************************************************************)
EXTENDS Integers, Sequences, FiniteSets

CONSTANT NumStrips
ASSUME NumStripsAssumption == NumStrips \in Nat \ {0}

Strip == 0 .. NumStrips - 1
NoStrip == -1

Header(dri) == [kind |-> "header", dri |-> dri]
Scan(s, rows, pred) == [kind |-> "scan", strip |-> s, rows |-> rows, pred |-> pred]
Partial(s) == [kind |-> "partial", strip |-> s]
RST(n) == [kind |-> "rst", n |-> n]
EOI == [kind |-> "eoi"]

Item ==
  [kind : {"header"}, dri : BOOLEAN]
    \cup [kind : {"scan"}, strip : Strip, rows : Strip \cup {NoStrip}, pred : Strip \cup {NoStrip}]
    \cup [kind : {"partial"}, strip : Strip \cup {NoStrip}]
    \cup [kind : {"rst"}, n : Nat]
    \cup [kind : {"eoi"}]

\* The strips and the restart markers that precede position i.
ScansBefore(cs, i) == {j \in 1 .. i - 1 : cs[j].kind = "scan"}
RestartsBefore(cs, i) == {j \in 1 .. i - 1 : cs[j].kind = "rst"}

\* A decoder resets its DC predictors at the start of the scan and at a restart
\* marker, and otherwise carries them over from the MCU it has just decoded.
PredictorAt(cs, i) == IF cs[i-1].kind = "scan" THEN cs[i-1].rows ELSE NoStrip

Decodes(cs) ==
  /\ Len(cs) >= 3 /\ cs[1].kind = "header" /\ cs[Len(cs)] = EOI
  /\ \A i \in 2 .. Len(cs) - 1 :
       \/ /\ cs[i].kind = "scan"
          /\ cs[i].strip = cs[i].rows
          /\ cs[i].rows = Cardinality(ScansBefore(cs, i))
          /\ cs[i].pred = PredictorAt(cs, i)
       \/ /\ cs[i].kind = "rst"     \* only announced ones, in sequence modulo 8
          /\ cs[1].dri
          /\ cs[i].n = Cardinality(RestartsBefore(cs, i)) % 8
          /\ cs[i-1].kind = "scan" /\ cs[i+1].kind = "scan"
  /\ cs[1].dri => \A i \in 2 .. Len(cs) - 2 : ~(cs[i].kind = "scan" /\ cs[i+1].kind = "scan")
  /\ Cardinality(ScansBefore(cs, Len(cs))) = NumStrips
=============================================================================
