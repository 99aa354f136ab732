----------------------------- MODULE MCGeometry -----------------------------
(* Geometry on images of one format, for TLC. *)
EXTENDS Geometry

\* A build whose vectors are longer than a 4:4:4 MCU is wide.
Narrow ==
  [width : 1 .. 40, height : {8, 24}, ncomp : {3}, ycc : {"YUV444"},
   threads : {1}, vector : {16}, cores : {4}]
=============================================================================
