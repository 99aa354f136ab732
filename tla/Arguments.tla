----------------------------- MODULE Arguments ------------------------------
(***************************************************************************)
(* The command line: parse_args(), which looks at one option at a time and *)
(* takes the argument behind it for its value, whatever that looks like.   *)
(***************************************************************************)
EXTENDS Integers, Sequences

CONSTANTS Numbers,      \* std::stoi: the arguments that start with a number, and what it is
          OutOfRange    \* those that start with a number no int can hold

ASSUME ArgumentsAssumption ==
  /\ Numbers \in [DOMAIN Numbers -> Int]
  /\ DOMAIN Numbers \cap OutOfRange = {}

VARIABLES argv,      \* the arguments, without the program's name
          disk,      \* the regular files, by name
          word,         \* the next option
          opts,      \* what has been understood so far
          arg_pc     \* "options", "done", "failed", "terminated" (uncaught exception), "undefined"

arg_vars == <<argv, disk, word, opts, arg_pc>>

Formats_c == [s \in {"444", "422", "411", "440", "410", "420", "GRAY"} |->
                CASE s = "444" -> "YUV444" [] s = "422" -> "YUV422" [] s = "411" -> "YUV411" [] s = "440" -> "YUV440"
                  [] s = "410" -> "YUV410" [] s = "420" -> "YUV420" [] s = "GRAY" -> "GRAY2"]

Defaults == [infile |-> "", outfile |-> "", ifile_exist |-> FALSE, ofile_exist |-> FALSE,
             YCCtype |-> "YUV420", QF |-> 75, num_threads |-> 1, benchmark |-> FALSE]

ArgInit == word = 1 /\ opts = Defaults /\ arg_pc = "options"

ArgEnd(pc) == arg_pc' = pc /\ UNCHANGED <<argv, disk, word, opts>>
Accept(new) == opts' = new /\ word' = word + 2 /\ UNCHANGED <<argv, disk, arg_pc>>
At(option) == arg_pc = "options" /\ word <= Len(argv) /\ argv[word] = option
Value == argv[word + 1]
\* args[i + 1] of the last argument is past the end of the vector.
PastTheEnd == word = Len(argv) /\ ArgEnd("undefined")
Given == word < Len(argv)

OptionI ==
  /\ At("-i")
  /\ \/ PastTheEnd
     \/ Given /\ Value \notin DOMAIN disk /\ ArgEnd("failed")
     \/ Given /\ Value \in DOMAIN disk /\ Accept([opts EXCEPT !.infile = Value, !.ifile_exist = TRUE])

OptionO ==
  /\ At("-o")
  /\ \/ PastTheEnd
     \/ Given /\ Accept([opts EXCEPT !.outfile = Value, !.ofile_exist = TRUE])

\* No number is an error that is caught; a number no int can hold is one that is not.
OptionNumber(option, Legal, new) ==
  /\ At(option)
  /\ \/ PastTheEnd
     \/ Given /\ Value \in OutOfRange /\ ArgEnd("terminated")
     \/ Given /\ Value \notin DOMAIN Numbers \cup OutOfRange /\ ArgEnd("failed")
     \/ /\ Given /\ Value \in DOMAIN Numbers
        /\ IF Numbers[Value] \in Legal THEN Accept(new) ELSE ArgEnd("failed")

OptionQ_asGiven == OptionNumber("-q", 0 .. 100, [opts EXCEPT !.QF = Numbers[Value]])   \* mutant: 0 stays 0

OptionQ == OptionNumber("-q", 0 .. 100, [opts EXCEPT !.QF = IF Numbers[Value] = 0 THEN 1 ELSE Numbers[Value]])

OptionT == OptionNumber("-t", Nat, [opts EXCEPT !.num_threads = Numbers[Value]])

OptionC ==
  /\ At("-c")
  /\ \/ PastTheEnd
     \/ Given /\ Value \notin DOMAIN Formats_c /\ ArgEnd("failed")
     \/ Given /\ Value \in DOMAIN Formats_c /\ Accept([opts EXCEPT !.YCCtype = Formats_c[Value]])

OptionB ==
  /\ At("-b")
  /\ opts' = [opts EXCEPT !.benchmark = TRUE] /\ word' = word + 1
  /\ UNCHANGED <<argv, disk, arg_pc>>

\* Help, or what is no option; no argument at all is help too.
OptionOther ==
  /\ arg_pc = "options"
  /\ \/ argv = <<>>
     \/ word <= Len(argv) /\ argv[word] \notin {"-i", "-o", "-q", "-c", "-t", "-b"}
  /\ ArgEnd("failed")

EndOfArguments_anyFile ==   \* mutant: the input file alone will do
  /\ arg_pc = "options" /\ argv # <<>> /\ word > Len(argv)
  /\ ArgEnd(IF opts.ifile_exist THEN "done" ELSE "failed")

EndOfArguments ==
  /\ arg_pc = "options" /\ argv # <<>> /\ word > Len(argv)
  /\ ArgEnd(IF opts.ifile_exist /\ opts.ofile_exist THEN "done" ELSE "failed")

ParseArgs ==
  \/ OptionI \/ OptionO \/ OptionQ \/ OptionC \/ OptionT \/ OptionB \/ OptionOther \/ EndOfArguments

-----------------------------------------------------------------------------
(* What the user means: an argument is an option or the value of the one before it. *)

IsOption(args) ==
  LET f[n \in 1 .. Len(args) + 1] ==
        n = 1 \/ (f[n-1] /\ args[n-1] = "-b") \/ (n > 2 /\ f[n-2] /\ args[n-2] # "-b")
  IN {n \in 1 .. Len(args) : f[n]}

\* The values given for an option, by where.
Values(option) == [n \in {m + 1 : m \in {o \in IsOption(argv) : argv[o] = option}} |-> argv[n]]
LastOf(option, default) ==
  LET v == Values(option) IN IF v = <<>> THEN default ELSE v[CHOOSE n \in DOMAIN v : \A o \in DOMAIN v : o <= n]

Legal(option, v) ==
  CASE option = "-i" -> v \in DOMAIN disk
    [] option = "-o" -> TRUE
    [] option = "-c" -> v \in DOMAIN Formats_c
    [] option = "-q" -> v \in DOMAIN Numbers /\ Numbers[v] \in 0 .. 100
    [] option = "-t" -> v \in DOMAIN Numbers /\ Numbers[v] >= 0
    [] OTHER -> FALSE

Understandable ==
  /\ \A o \in IsOption(argv) : argv[o] = "-b" \/ (o < Len(argv) /\ Legal(argv[o], argv[o + 1]))
  /\ \E o, p \in IsOption(argv) : argv[o] = "-i" /\ argv[p] = "-o"

\* The command line is accepted if and only if every option is one the help names, with a
\* value it can have, and the two files are there; the settings are then the last value of
\* each option, or the help's default (parse_args.hpp:10-23, 25-124).
ArgumentsUnderstood ==
  /\ arg_pc = "done" =>
       /\ Understandable
       /\ opts.infile = LastOf("-i", "") /\ opts.outfile = LastOf("-o", "")
       /\ opts.YCCtype = Formats_c[LastOf("-c", "420")]
       /\ Values("-q") = <<>> => opts.QF = 75
       /\ Values("-q") # <<>> => LET q == Numbers[LastOf("-q", "")] IN opts.QF = IF q = 0 THEN 1 ELSE q
       /\ opts.num_threads = IF Values("-t") = <<>> THEN 1 ELSE Numbers[LastOf("-t", "")]
       /\ opts.benchmark <=> \E o \in IsOption(argv) : argv[o] = "-b"
  /\ arg_pc \in {"failed", "terminated", "undefined"} => ~Understandable
=============================================================================
