---------------------------- MODULE MCStripPath -----------------------------
(* StripPath on small images of every format, for TLC. *)
EXTENDS StripPath

Heights == (1 .. 34) \cup {40, 47, 48, 49}

\* Builds without vectors and with vectors no longer than an MCU is wide.  A build without
\* vectors rounds widths only to whole MCUs; of gray images it has here those with an even
\* number of blocks in their last strip.
Small ==
  [width : {1, 8, 15, 16, 17, 31, 32, 33, 48, 66}, height : Heights, ncomp : {3},
   ycc : {"YUV422", "YUV420"}, threads : {1, 3}, vector : {8, 16}, cores : {2}]
  \cup [width : {1, 31, 32, 33, 63, 64, 66}, height : Heights, ncomp : {3}, ycc : {"YUV411", "YUV410"},
        threads : {0, 2, 9}, vector : {8, 16, 32}, cores : {3}]
  \cup [width : {16, 48}, height : Heights, ncomp : {3}, ycc : {"YUV444", "YUV440", "GRAY", "GRAY2"},
        threads : {0, 1, 2}, vector : {8, 16}, cores : {4}]
  \cup [width : {16, 48}, height : Heights, ncomp : {1}, ycc : {"GRAY", "YUV444"},
        threads : {1, 2}, vector : {8, 16}, cores : {4}]
  \cup [width : {1, 8, 17, 24}, height : Heights, ncomp : {3}, ycc : {"YUV444", "YUV440"},
        threads : {1, 2}, vector : {8}, cores : {2}]
  \cup [width : {1, 8, 17, 24}, height : {9, 16, 25, 32, 47, 48}, ncomp : {3}, ycc : {"GRAY"},
        threads : {1, 2}, vector : {8}, cores : {2}]

\* Some of them in files that end early, with rows read straight into the buffer or by
\* way of buf_tmp, one buffer or two.
Cut == {i \in Small : i.height \in {7, 33, 40, 49} /\ i.width \in {15, 48} /\ i.threads \in {1, 2, 3} /\ i.ycc # "YUV440"}
=============================================================================
