------------------------------ MODULE Formats -------------------------------
(***************************************************************************)
(* The chroma formats and the arithmetic on sizes that the constructor,    *)
(* the header and encode_mcus() share.                                     *)
(***************************************************************************)
EXTENDS Integers

DCTSIZE == 8
BUFLINES == 16
YCC == {"YUV444", "YUV422", "YUV411", "YUV440", "YUV420", "YUV410", "GRAY", "GRAY2"}

\* The luma half of YCC_HV; the chroma half is 1 by 1.
H == [y \in YCC |-> CASE y \in {"YUV422", "YUV420"} -> 2
                      [] y \in {"YUV411", "YUV410"} -> 4
                      [] OTHER -> 1]
V == [y \in YCC |-> IF y \in {"YUV440", "YUV420", "YUV410"} THEN 2 ELSE 1]

Least(a, b) == IF a < b THEN a ELSE b
Most(a, b) == IF a > b THEN a ELSE b
CeilDiv(x, n) == (x + n - 1) \div n
round_up(x, n) == n * CeilDiv(x, n)   \* the macro masks: n is a power of two

pick_num_workers_unclamped(requested, strips, cores) ==   \* mutant: strips not considered
  LET hc == Most(cores, 1)
  IN Most(1, IF requested <= 0 THEN hc ELSE Least(requested, hc))

\* cores is what hardware_concurrency() returns, 0 if it does not know.
pick_num_workers(requested, strips, cores) ==
  LET hc == Most(cores, 1)
  IN Most(1, Least(IF requested <= 0 THEN hc ELSE Least(requested, hc), strips))

\* A one-component image becomes GRAY, whatever was asked for.
compute_ncomp_out(ncomp, ycc) == IF ncomp = 1 THEN "GRAY" ELSE ycc
=============================================================================
