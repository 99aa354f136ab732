------------------------------ MODULE MCJpenc -------------------------------
(* Jpenc on command lines and files that reach every branch. *)
EXTENDS Jpenc

-----------------------------------------------------------------------------
(* Files. *)

Text(n) == IF n < 10 THEN <<ZERO + n>> ELSE IF n < 100 THEN <<ZERO + n \div 10, ZERO + (n % 10)>>
           ELSE <<ZERO + n \div 100, ZERO + ((n \div 10) % 10), ZERO + (n % 10)>>
Space == <<32>>
Line == <<10>>
\* "# 7\n", with a number and a second '#' in it.
Remark == <<35, 32, 55, 35, 10>>
Image == <<35, 10, 48>>   \* looks like more header

Ppm(type, w, h, m, g1, g2, g3, g4) ==
  <<80, type>> \o g1 \o Text(w) \o g2 \o Text(h) \o g3 \o Text(m) \o g4 \o Image

\* Six strips, in MCUs of any format; a single one; and one component.
Color == Ppm(54, 37, 83, 255, Line, Space, Line, Line)
Flat == Ppm(54, 300, 5, 255, Line, Space, Line, Line)
Gray == Ppm(53, 16, 40, 255, Line, Space, Line, Line)

Gaps == {Space, Line, <<13, 10>>, <<9, 32>>, Space \o Remark, Line \o Remark \o Remark \o Space}
WellFormedFiles ==
  {Ppm(type, 9, 120, 255, g1, g2, g3, g4) : type \in {53, 54}, g1 \in Gaps \cup {<<>>, Remark},
                                            g2 \in Gaps, g3 \in Gaps, g4 \in {Space, <<13>>}}

\* Ended at every byte, and everything that is not the format.
OtherFiles ==
  {SubSeq(Ppm(54, 12, 3, 255, Remark, Line \o Remark, Line, Line), 1, n) : n \in 0 .. 24}
  \cup {<<81, 54>>, <<80, 52>>, <<80, 50>> \o Space, <<80, 51>> \o Space}
  \cup {Ppm(54, 12, 3, 256, Line, Space, Line, Line), Ppm(54, 0, 0, 255, Line, Space, Line, Line),
        Ppm(54, 12, 3, 1, Line, Remark, Line, Line),                     \* a comment right behind a number
        Ppm(54, 12, 3, 1, <<32, 33, 32>>, Space, Space, Space)}         \* '!' for a width

Disk(f) == [n \in {"in.ppm", "old.jpg", "secret.ppm"} |-> IF n = "in.ppm" THEN f ELSE <<80, 54>>]

-----------------------------------------------------------------------------
(* Command lines. *)

Known == [n \in {"0", "1", "2", "9", "49", "50", "75", "99", "100", "101", "-1", "90x"} |->
            CASE n = "0" -> 0 [] n = "1" -> 1 [] n = "2" -> 2 [] n = "9" -> 9 [] n = "49" -> 49 [] n = "50" -> 50
              [] n = "75" -> 75 [] n = "99" -> 99 [] n = "100" -> 100 [] n = "101" -> 101 [] n = "-1" -> -1
              [] n = "90x" -> 90]
         @@ ("444" :> 444) @@ ("420" :> 420)

Files == <<"-i", "in.ppm", "-o", "out.jpg">>

Setting(q, f, t, b) ==
  (IF q = "" THEN <<>> ELSE <<"-q", q>>) \o (IF f = "" THEN <<>> ELSE <<"-c", f>>)
  \o (IF t = "" THEN <<>> ELSE <<"-t", t>>) \o (IF b THEN <<"-b">> ELSE <<>>) \o Files
Settings ==
  {Setting(q, "", t, FALSE) : q \in {"0", "1", "49", "50", "99", "100"}, t \in {"1", "9"}}
  \cup {Setting("", f, t, b) : f \in {""} \cup DOMAIN Formats_c, t \in {"", "0", "2", "9"}, b \in BOOLEAN}

\* Up to three words in front of the files, or behind them.
Words == {"-i", "-o", "-q", "-c", "-t", "-b", "-h", "in.ppm", "nowhere/x", "90x", "101", "-1", "4294967296", "444", "GRAY", "old.jpg", ""}
Phrases == UNION {[1 .. n -> Words] : n \in 0 .. 2} \cup {<<"-q", x, y>> : x, y \in Words} \cup {<<"-t", "2", x>> : x \in Words}
CommandLines ==
  {Files \o p : p \in Phrases} \cup {p \o Files : p \in Phrases} \cup Phrases
  \cup {<<"-i", "in.ppm", "-o", "in.ppm">>, <<"-i", "secret.ppm", "-o", "out.jpg">>, <<"-o", "out.jpg", "-i", "old.jpg">>}

SomeJobs ==
  {[argv |-> a, disk |-> Disk(f)] : a \in Settings, f \in {Color, Flat, Gray}}
  \cup {[argv |-> a, disk |-> Disk(Gray)] : a \in CommandLines}
  \cup {[argv |-> Files, disk |-> Disk(f)] : f \in WellFormedFiles \cup OtherFiles}
=============================================================================
