------------------------------- MODULE Jpenc --------------------------------
(***************************************************************************)
(* main(): the command line, the input file's header, the encoder, once or *)
(* for as long as the benchmark lasts, and the output file.  Arguments and *)
(* Pnm are its first two parts.  The encoder's calls are what EncoderSpec  *)
(* promises of them: the main header, every strip in order and EOI.        *)
(***************************************************************************)
EXTENDS Arguments, Pnm, Headers

CONSTANTS Jobs,         \* command lines and files
          Cores,        \* hardware_concurrency()
          WarmupTime, BenchTime, LongestCall,   \* in ticks of a clock; a call of invoke() takes 1 to LongestCall
          Writable,     \* the names that fopen(name, "wb") accepts
          Unreadable,   \* files that fopen(name, "rb") refuses
          FullDisk      \* whether fwrite() may write less

ASSUME JpencAssumption ==
  /\ Cores \in Nat /\ WarmupTime \in Nat /\ BenchTime \in Nat /\ LongestCall \in Nat \ {0}
  /\ FullDisk \subseteq BOOLEAN
  /\ \A job \in Jobs : job.argv \in Seq(STRING) /\ \A n \in DOMAIN job.disk : job.disk[n] \in Seq(0 .. 255)

VARIABLES main_pc,      \* "args", "pnm", "construct", "invoke", "output", "write", "exit"
          exit,         \* its status: "none" so far, "success", "failure", "terminated", "undefined"
          strips, workers,   \* num_strips, num_workers
          header,       \* the main header, once it has been made
          duration, warmup, iter,
          codestream,
          before        \* kept for the properties only: the disk as it was

main_vars == <<main_pc, exit, strips, workers, header, duration, warmup, iter, codestream, before>>
vars == <<arg_vars, pnm_vars, main_vars>>

\* A strip's bytes stand as one number above every byte.
Strip(s) == 256 + s
EOI == <<255, 217>>

Init ==
  /\ \E job \in Jobs : argv = job.argv /\ disk = job.disk
  /\ ArgInit /\ PnmInit
  /\ main_pc = "args" /\ exit = "none"
  /\ strips = 0 /\ workers = 0 /\ header = <<>>
  /\ duration = 0 /\ warmup = TRUE /\ iter = 0
  /\ codestream = <<>>
  /\ before = disk

Exit(how) ==
  /\ main_pc' = "exit" /\ exit' = how
  /\ UNCHANGED <<strips, workers, header, duration, warmup, iter, codestream, before>>

width == size[1]
height == size[2]
YCCtype == compute_ncomp_out(ncomp, opts.YCCtype)

ReadArguments == main_pc = "args" /\ ParseArgs /\ UNCHANGED <<pnm_vars, main_vars>>

\* What ended parse_args() ends the program; otherwise read_pnm() opens the file.
ArgumentsRead ==
  /\ main_pc = "args" /\ arg_pc # "options"
  /\ \/ arg_pc = "failed" /\ Exit("failure") /\ UNCHANGED pnm_vars
     \/ arg_pc \in {"terminated", "undefined"} /\ Exit(arg_pc) /\ UNCHANGED pnm_vars
     \/ arg_pc = "done" /\ opts.infile \in Unreadable /\ Exit("failure") /\ UNCHANGED pnm_vars
     \/ /\ arg_pc = "done" /\ opts.infile \notin Unreadable
        /\ fopen(disk[opts.infile])
        /\ main_pc' = "pnm"
        /\ UNCHANGED <<exit, strips, workers, header, duration, warmup, iter, codestream, before>>
  /\ UNCHANGED arg_vars

ReadImage == main_pc = "pnm" /\ ReadPnm /\ UNCHANGED <<arg_vars, main_vars>>

\* The program goes on with whatever the numbers are; with a negative one the sizes of
\* the buffers are undefined.
ImageRead ==
  /\ main_pc = "pnm" /\ pnm_pc \in {"failed", "done"}
  /\ IF pnm_pc = "failed" THEN Exit("failure")
     ELSE IF width < 0 \/ height < 0 THEN Exit("undefined")
     ELSE /\ main_pc' = "construct"
          /\ UNCHANGED <<exit, strips, workers, header, duration, warmup, iter, codestream, before>>
  /\ UNCHANGED <<arg_vars, pnm_vars>>

\* The constructor, which with workers makes the header as well.
Construct ==
  /\ main_pc = "construct"
  /\ strips' = CeilDiv(round_up(height, DCTSIZE * V[opts.YCCtype]), BUFLINES)
  /\ workers' = pick_num_workers(opts.num_threads, strips', Cores)
  /\ header' = IF workers' > 1 THEN create_mainheader(width, height, opts.QF, YCCtype, TRUE) ELSE <<>>
  /\ main_pc' = "invoke"
  /\ UNCHANGED <<arg_vars, pnm_vars, exit, duration, warmup, iter, codestream, before>>

\* invoke(): a single thread makes the header anew each time.  Each call leaves the
\* whole codestream in the same vector.
Encode ==
  \E main \in {IF workers > 1 THEN header ELSE create_mainheader(width, height, opts.QF, YCCtype, FALSE)} :
    /\ header' = main
    /\ codestream' = main \o [s \in 1 .. strips |-> Strip(s)] \o EOI

\* Outside the benchmark, once.
InvokeOnce ==
  /\ main_pc = "invoke" /\ ~opts.benchmark
  /\ Encode
  /\ main_pc' = "output"
  /\ UNCHANGED <<arg_vars, pnm_vars, exit, strips, workers, duration, warmup, iter, before>>

\* The benchmark's loop: until the warm-up is over, and again until the time is up.
InvokeWarmup ==
  /\ main_pc = "invoke" /\ opts.benchmark /\ warmup
  /\ Encode
  /\ \E ticks \in 1 .. LongestCall :
       IF duration + ticks >= WarmupTime THEN duration' = 0 /\ iter' = 0 /\ warmup' = FALSE
       ELSE duration' = duration + ticks /\ iter' = iter + 1 /\ UNCHANGED warmup
  /\ UNCHANGED <<arg_vars, pnm_vars, main_pc, exit, strips, workers, before>>

InvokeMeasured ==
  /\ main_pc = "invoke" /\ opts.benchmark /\ ~warmup
  /\ Encode
  /\ \E ticks \in 1 .. LongestCall : duration' = duration + ticks
  /\ iter' = iter + 1
  /\ main_pc' = IF duration' >= BenchTime THEN "output" ELSE "invoke"
  /\ UNCHANGED <<arg_vars, pnm_vars, exit, strips, workers, warmup, before>>

\* fopen() of the output empties the file, if it can be opened.
OpenOutput_first ==   \* mutant: as soon as the input's name is known
  /\ main_pc \in {"construct", "output"}
  /\ IF opts.outfile \notin Writable THEN Exit("failure") /\ UNCHANGED disk
     ELSE /\ disk' = [n \in DOMAIN disk \cup {opts.outfile} |-> IF n = opts.outfile THEN <<>> ELSE disk[n]]
          /\ main_pc' = "write"
          /\ UNCHANGED <<exit, strips, workers, header, duration, warmup, iter, codestream, before>>
  /\ UNCHANGED <<argv, word, opts, arg_pc, pnm_vars>>

OpenOutput ==
  /\ main_pc = "output"
  /\ IF opts.outfile \notin Writable THEN Exit("failure") /\ UNCHANGED disk
     ELSE /\ disk' = [n \in DOMAIN disk \cup {opts.outfile} |-> IF n = opts.outfile THEN <<>> ELSE disk[n]]
          /\ main_pc' = "write"
          /\ UNCHANGED <<exit, strips, workers, header, duration, warmup, iter, codestream, before>>
  /\ UNCHANGED <<argv, word, opts, arg_pc, pnm_vars>>

\* fwrite() and fclose(), neither of which is asked how it went.
WriteOutput ==
  /\ main_pc = "write"
  /\ \E full \in FullDisk : \E n \in IF full THEN 0 .. Len(codestream) - 1 ELSE {Len(codestream)} :
       disk' = [disk EXCEPT ![opts.outfile] = SubSeq(codestream, 1, n)]
  /\ Exit("success")
  /\ UNCHANGED <<argv, word, opts, arg_pc, pnm_vars>>

Exited == main_pc = "exit" /\ UNCHANGED vars

Next ==
  \/ ReadArguments \/ ArgumentsRead \/ ReadImage \/ ImageRead \/ Construct
  \/ InvokeOnce \/ InvokeWarmup \/ InvokeMeasured \/ OpenOutput \/ WriteOutput \/ Exited

\* One thread that does nothing but this.
Spec == Init /\ [][Next]_vars /\ WF_vars(Next)
-----------------------------------------------------------------------------
(* Properties. *)

ProgramTyped ==
  /\ arg_pc \in {"options", "done", "failed", "terminated", "undefined"} /\ word \in 1 .. Len(argv) + 1
  /\ pnm_pc \in {"closed", "magic", "type", "next", "eat", "comment", "value", "maxval", "done", "failed"}
  /\ at \in 0 .. Len(file) /\ ch \in -1 .. 255 /\ status = Len(size) /\ status \in 0 .. 3 /\ ncomp \in {0, 1, 3}
  /\ main_pc \in {"args", "pnm", "construct", "invoke", "output", "write", "exit"}
  /\ exit \in {"none", "success", "failure", "terminated", "undefined"} /\ (exit # "none" <=> main_pc = "exit")
  /\ opts.QF \in 1 .. 100 /\ opts.num_threads \in Nat /\ opts.YCCtype \in YCC \ {"GRAY"}
  /\ strips \in Nat /\ workers \in 0 .. Most(Cores, 1) /\ (main_pc \in {"invoke", "output", "write"} => workers >= 1)
  /\ duration \in 0 .. (IF warmup THEN WarmupTime ELSE BenchTime + LongestCall) /\ iter \in Nat

\* The types of the variables.
JTypeOK ==
  /\ ProgramTyped
  /\ \A n \in 1 .. Len(header) : header[n] \in 0 .. 255

\* A decoder gives the symbols of a table their codes in order, from 0 on: the next one is
\* one more, with as many zeros behind it as it is longer.  They are the encoder's codes.
CodesAgree(freq, values, Length(_), Code(_)) ==
  LET l == [n \in 1 .. Len(values) |-> Length(values[n])]
  IN /\ {values[n] : n \in 1 .. Len(values)} = {v \in 0 .. 255 : Length(v) # 0}
     /\ \A b \in 1 .. 16 : freq[b] = Cardinality({n \in 1 .. Len(values) : l[n] = b})
     /\ Code(values[1]) = 0
     /\ \A n \in 2 .. Len(values) :
          l[n] >= l[n-1] /\ Code(values[n]) = (Code(values[n-1]) + 1) * 2^(l[n] - l[n-1])

\* What a decoder d has of the component C is what the encoder codes it with: for every
\* coefficient the step whose reciprocal it multiplies by (but for quality 100, whose last
\* one is wrong), in the decoder's order, and just the codes it looks up.
ComponentAnnounced(d, C) ==
  LET table == IF C = 1 THEN 0 ELSE 1    \* the encoder's
      reciprocals == create_scaled_qtable(table + 1, opts.QF)
      steps == d.steps[d.comps[C][3]]
      DC == d.scan[C][2] \div 16
      AC == d.scan[C][2] % 16
  IN /\ d.scan[C][1] = d.comps[C][1] /\ \A B \in 1 .. C - 1 : d.comps[B][1] # d.comps[C][1]
     /\ \A n \in 1 .. 64 : (n = 64 /\ opts.QF = 100) \/
          LET step == steps[ZigzagRank[n - 1] + 1]
              error == reciprocals[n] * step * 2^15 - 2 * qscale[n]
          IN -error <= step * 2^14 /\ error <= step * 2^14
     /\ CodesAgree(d.huffman[DC][1], d.huffman[DC][2], LAMBDA v : DC_len(table, v), LAMBDA v : DC_cwd(table, v))
     /\ CodesAgree(d.huffman[16 + AC][1], d.huffman[16 + AC][2], LAMBDA v : AC_len(table, v), LAMBDA v : AC_cwd(table, v))

\* What it has of the image, and that it has read all of the header.
ImageAnnounced(d) ==
  LET nc == Len(d.comps)
      HV == IF nc = 1 THEN <<1, 1>> ELSE <<d.comps[1][2] \div 16, d.comps[1][2] % 16>>
  IN /\ d.ok /\ d.done /\ d.at = Len(header) + 1
     /\ d.size = <<width, height>>
     /\ nc = IF ncomp = 1 \/ opts.YCCtype = "GRAY2" THEN 1 ELSE 3
     /\ nc = 3 => HV = <<H[opts.YCCtype], V[opts.YCCtype]>> /\ d.comps[2][2] = 17 /\ d.comps[3][2] = 17
     /\ Len(d.scan) = nc
     /\ d.interval = IF workers <= 1 THEN 0
                       ELSE CeilDiv(d.size[1], 8 * HV[1]) * (BUFLINES \div (8 * HV[2]))

\* The header of the file's and the command line's image, read by a decoder: the segments
\* follow each other without a gap up to the scan; the size, and the sampling of each
\* component in it; for every component its steps and codes; restarts, if strips are coded
\* by several workers, after the MCUs of one strip (jpgheaders.cpp:14-181,
\* jpegenc.cpp:171-236).
HeaderAnnounces ==
  main_pc = "output" /\ width < 65536 /\ height < 65536 =>
    LET d == ReadHeader(header) IN ImageAnnounced(d) /\ \A C \in 1 .. Len(d.comps) : ComponentAnnounced(d, C)

\* A run that does not succeed leaves every file as it was, an older output too; one that
\* succeeds changes no file but the output (main_enc.cpp:20-68).
FilesKept ==
  /\ main_pc # "write" /\ exit # "success" => disk = before
  /\ exit = "success" => \A n \in DOMAIN before \ {opts.outfile} : disk[n] = before[n]

\* That, and after a success the output is a whole codestream, even where it was the
\* input (main_enc.cpp:20-68).
OutputWhole ==
  /\ FilesKept
  /\ exit = "success" =>
       LET out == disk[opts.outfile]
           d == ReadHeader(out)
       IN d.ok /\ d.done /\ SubSeq(out, d.at, Len(out)) = [s \in 1 .. CeilDiv(height, BUFLINES) |-> Strip(s)] \o EOI

\* Whatever the file and the arguments, and in the benchmark too, the program comes to an
\* end (pnm.hpp:51-75, main_enc.cpp:33-48).
Terminates == <>(main_pc = "exit")
=============================================================================
