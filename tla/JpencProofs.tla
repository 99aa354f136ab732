---------------------------- MODULE JpencProofs -----------------------------
(***************************************************************************)
(* The command line is understood as it is meant, the header of a          *)
(* well-formed image is read for what it says, the types, which files a    *)
(* run leaves alone, and what the output holds, for command lines and      *)
(* files of any length.  IsOption, Commented and Number are recursive      *)
(* functions: OptionsAre, CommentedIs and NumberIs say what they are.      *)
(*                                                                         *)
(* The longest part follows a decoder through the header: the bytes each   *)
(* create_* writes, what ReadSegment takes from them wherever they stand,  *)
(* and HeaderIsRead, which puts the segments one behind the other.         *)
(***************************************************************************)
EXTENDS Jpenc, SequenceLemmas

\* Which arguments are options is what its definition says.
LEMMA OptionsAre ==
  ASSUME NEW args \in Seq(STRING), NEW n \in 1 .. Len(args)
  PROVE  n \in IsOption(args) <=>
           \/ n = 1
           \/ n - 1 \in IsOption(args) /\ args[n-1] = "-b"
           \/ n > 2 /\ n - 2 \in IsOption(args) /\ args[n-2] # "-b"
  <1> DEFINE L == Len(args) + 1
             Opening(f, i) == i = 1 \/ (f[i-1] /\ args[i-1] = "-b") \/ (i > 2 /\ f[i-2] /\ args[i-2] # "-b")
             Step(f) == [i \in 1 .. L |-> Opening(f, i)]
             opens == CHOOSE f : f = Step(f)
             K == {k \in Nat : k <= L => \E g \in [1 .. k -> BOOLEAN] : \A i \in 1 .. k : g[i] <=> Opening(g, i)}
  <1>1. L \in Nat  OBVIOUS
  <1>2. IsOption(args) = {i \in 1 .. Len(args) : opens[i]}  BY DEF IsOption
  <1> HIDE DEF L, opens
  <1>3. 0 \in K
    <2>1. [i \in 1 .. 0 |-> TRUE] \in [1 .. 0 -> BOOLEAN] /\ 1 .. 0 = {}  OBVIOUS
    <2> QED  BY <2>1
  <1>4. ASSUME NEW k \in Nat, k \in K  PROVE k + 1 \in K
    <2> SUFFICES ASSUME k + 1 <= L
                 PROVE  \E h \in [1 .. k + 1 -> BOOLEAN] : \A i \in 1 .. k + 1 : h[i] <=> Opening(h, i)
      OBVIOUS
    <2>1. PICK g \in [1 .. k -> BOOLEAN] : \A i \in 1 .. k : g[i] <=> Opening(g, i)  BY <1>1, <1>4
    <2> DEFINE h == [i \in 1 .. k + 1 |-> IF i = k + 1 THEN Opening(g, k + 1) ELSE g[i]]
    <2>2. h \in [1 .. k + 1 -> BOOLEAN]
      <3>1. ASSUME NEW i \in 1 .. k + 1, i # k + 1 PROVE i \in 1 .. k  BY <3>1
      <3>2. Opening(g, k + 1) \in BOOLEAN  OBVIOUS
      <3> HIDE DEF Opening
      <3> QED  BY <3>1, <3>2, Zenon
    <2>3. /\ h[k + 1] = Opening(g, k + 1)
          /\ \A i \in 1 .. k : h[i] = g[i]
      <3>1. k + 1 \in 1 .. k + 1 /\ \A i \in 1 .. k : i \in 1 .. k + 1 /\ i # k + 1  OBVIOUS
      <3> HIDE DEF Opening
      <3> QED  BY <3>1, Zenon
    <2> HIDE DEF h
    <2>4. ASSUME NEW i \in 1 .. k + 1  PROVE Opening(h, i) <=> Opening(g, i)
      <3>1. i = 1 \/ i - 1 \in 1 .. k  OBVIOUS
      <3>2. i = 1 \/ h[i - 1] = g[i - 1]  BY <2>3, <3>1, Zenon
      <3>3. i > 2 => h[i - 2] = g[i - 2]
        <4>1. i > 2 => i - 2 \in 1 .. k  OBVIOUS
        <4> QED  BY <4>1, <2>3, Zenon
      <3> QED  BY <3>2, <3>3, Zenon
    <2>5. ASSUME NEW i \in 1 .. k + 1  PROVE h[i] <=> Opening(h, i)
      <3>1. i = k + 1 \/ i \in 1 .. k  OBVIOUS
      <3> HIDE DEF Opening
      <3> QED  BY <2>1, <2>3, <2>4, <3>1, Zenon
    <2> QED  BY <2>2, <2>5
  <1>5. Nat \subseteq K
    <2> HIDE DEF K
    <2> QED  BY <1>3, <1>4, SetInduction
  <1>6. PICK g \in [1 .. L -> BOOLEAN] : \A i \in 1 .. L : g[i] <=> Opening(g, i)
    <2>1. L \in K /\ L <= L
      <3> HIDE DEF K
      <3> QED  BY <1>1, <1>5
    <2> QED  BY <2>1
  <1>7. g = Step(g)
    <2>1. \A i \in 1 .. L : g[i] \in BOOLEAN /\ Opening(g, i) \in BOOLEAN  OBVIOUS
    <2>2. \A i \in 1 .. L : g[i] = Opening(g, i)
      <3> HIDE DEF Opening
      <3> QED  BY <1>6, <2>1, Zenon
    <2>3. g = [i \in 1 .. L |-> g[i]]  OBVIOUS
    <2> HIDE DEF Opening
    <2> QED  BY <2>2, <2>3, Zenon
  <1>8. opens = Step(opens)  BY <1>7, Zenon DEF opens
  <1>9. n \in 1 .. L  BY DEF L
  <1>10. opens[n] = Opening(opens, n)
    <2> HIDE DEF Opening
    <2> QED  BY <1>8, <1>9, Zenon
  <1>11. /\ n \in IsOption(args) <=> opens[n]
         /\ n # 1 => (n - 1 \in IsOption(args) <=> opens[n-1])
         /\ n > 2 => (n - 2 \in IsOption(args) <=> opens[n-2])
    <2>1. (n # 1 => n - 1 \in 1 .. Len(args)) /\ (n > 2 => n - 2 \in 1 .. Len(args))  OBVIOUS
    <2> QED  BY <1>2, <2>1, Zenon
  <1>12. n > 2 => n # 1  OBVIOUS
  <1> QED  BY <1>10, <1>11, <1>12, Zenon

-----------------------------------------------------------------------------
(* What has been understood of the options in front of argument w. *)

Before(w) == {o \in IsOption(argv) : o < w}
Absent(option, w) == \A o \in Before(w) : argv[o] # option
\* v is the value of the last of them.
Latest(option, w, v) ==
  \E o \in Before(w) : argv[o] = option /\ argv[o+1] = v /\ \A p \in Before(w) : argv[p] = option => p <= o

Options == {"-i", "-o", "-q", "-c", "-t"}
Settings == [infile : STRING \cup {""}, outfile : STRING \cup {""}, ifile_exist : BOOLEAN, ofile_exist : BOOLEAN,
             YCCtype : YCC \ {"GRAY"}, QF : 1 .. 100, num_threads : Nat, benchmark : BOOLEAN]

\* Every option is one of the help's, with a value it can have.
AllLegal(w) ==
  \A o \in Before(w) : argv[o] = "-b" \/ (argv[o] \in Options /\ o + 1 < w /\ Legal(argv[o], argv[o+1]))

InputGiven(w) == \/ Absent("-i", w) /\ opts.infile = "" /\ ~opts.ifile_exist
                 \/ Latest("-i", w, opts.infile) /\ opts.ifile_exist
OutputGiven(w) == \/ Absent("-o", w) /\ opts.outfile = "" /\ ~opts.ofile_exist
                  \/ Latest("-o", w, opts.outfile) /\ opts.ofile_exist
QualityGiven(w) == \/ Absent("-q", w) /\ opts.QF = 75
                   \/ \E v \in STRING : Latest("-q", w, v) /\ opts.QF = IF Numbers[v] = 0 THEN 1 ELSE Numbers[v]
FormatGiven(w) == \/ Absent("-c", w) /\ opts.YCCtype = "YUV420"
                  \/ \E v \in STRING : Latest("-c", w, v) /\ opts.YCCtype = Formats_c[v]
ThreadsGiven(w) == \/ Absent("-t", w) /\ opts.num_threads = 1
                   \/ \E v \in STRING : Latest("-t", w, v) /\ opts.num_threads = Numbers[v]
BenchmarkGiven(w) == opts.benchmark <=> ~Absent("-b", w)

Read(w) ==
  /\ AllLegal(w)
  /\ InputGiven(w) /\ OutputGiven(w) /\ QualityGiven(w) /\ FormatGiven(w) /\ ThreadsGiven(w) /\ BenchmarkGiven(w)

\* The invariant: the next argument is an option, and the ones before it have been
\* understood; parse_args() gives up only what nobody can understand.
ArgsInv ==
  /\ argv \in Seq(STRING) /\ opts \in Settings /\ word \in 1 .. Len(argv) + 1
  /\ arg_pc \in {"options", "done"} => Read(word)
  /\ arg_pc = "options" /\ word <= Len(argv) => word \in IsOption(argv)
  /\ arg_pc = "done" => word = Len(argv) + 1 /\ opts.ifile_exist /\ opts.ofile_exist
  /\ arg_pc \in {"failed", "terminated", "undefined"} => ~Understandable
  /\ main_pc \in {"pnm", "construct", "invoke", "output", "write"} => arg_pc = "done"

\* An option with a value is followed by its value and the next option.
LEMMA WithValue ==
  ASSUME argv \in Seq(STRING), NEW w \in IsOption(argv), w < Len(argv), AllLegal(w), argv[w] # "-b"
  PROVE  /\ Before(w + 2) = Before(w) \cup {w}
         /\ w + 2 <= Len(argv) => w + 2 \in IsOption(argv)
  <1>1. w \in 1 .. Len(argv) /\ IsOption(argv) \subseteq 1 .. Len(argv)  BY DEF IsOption
  <1>2. w + 1 \notin IsOption(argv)
    <2> SUFFICES ASSUME w + 1 \in IsOption(argv) PROVE FALSE  OBVIOUS
    <2>1. w + 1 \in 1 .. Len(argv) /\ (w + 1) - 1 = w /\ (w + 1) - 2 = w - 1 /\ w + 1 # 1  BY <1>1
    <2>2. w - 1 \in IsOption(argv) /\ argv[w-1] # "-b"  BY <2>1, OptionsAre
    <2>3. w - 1 \in Before(w)  BY <1>1, <2>2 DEF Before
    <2>4. (w - 1) + 1 < w  BY <2>2, <2>3 DEF AllLegal
    <2> QED  BY <1>1, <2>4
  <1>3. ASSUME w + 2 <= Len(argv) PROVE w + 2 \in IsOption(argv)
    <2>1. w + 2 \in 1 .. Len(argv) /\ (w + 2) - 2 = w /\ w + 2 > 2  BY <1>1, <1>3
    <2> QED  BY <2>1, OptionsAre
  <1>4. ASSUME NEW o \in IsOption(argv) PROVE o < w + 2 <=> o < w \/ o = w
    <2>1. o \in Int /\ o # w + 1  BY <1>1, <1>2
    <2> QED  BY <1>1, <2>1
  <1> QED  BY <1>3, <1>4 DEF Before

\* The one option without a value is followed by the next.
LEMMA WithoutValue ==
  ASSUME argv \in Seq(STRING), NEW w \in IsOption(argv), argv[w] = "-b"
  PROVE  /\ Before(w + 1) = Before(w) \cup {w}
         /\ w + 1 <= Len(argv) => w + 1 \in IsOption(argv)
  <1>1. w \in 1 .. Len(argv) /\ IsOption(argv) \subseteq 1 .. Len(argv)  BY DEF IsOption
  <1>2. ASSUME w + 1 <= Len(argv) PROVE w + 1 \in IsOption(argv)
    <2>1. w + 1 \in 1 .. Len(argv) /\ (w + 1) - 1 = w  BY <1>1, <1>2
    <2> QED  BY <2>1, OptionsAre
  <1>3. ASSUME NEW o \in IsOption(argv) PROVE o < w + 1 <=> o < w \/ o = w
    BY <1>1
  <1> QED  BY <1>2, <1>3 DEF Before

\* The option at w is the last one of its name; of the others nothing changes.
LEMMA NowLatest ==
  ASSUME NEW w \in IsOption(argv), NEW u, Before(u) = Before(w) \cup {w}
  PROVE  /\ Latest(argv[w], u, argv[w+1]) /\ ~Absent(argv[w], u)
         /\ \A option : option # argv[w] =>
              /\ Absent(option, u) <=> Absent(option, w)
              /\ \A v : Latest(option, u, v) <=> Latest(option, w, v)
  <1>1. w \in 1 .. Len(argv) /\ IsOption(argv) \subseteq 1 .. Len(argv)  BY DEF IsOption
  <1>2. w \in Before(u) /\ \A p \in Before(u) : p <= w
    BY <1>1 DEF Before
  <1> QED  BY <1>2 DEF Latest, Absent

\* What a step that leaves the arguments alone does to the options in front of the next.
LEMMA SameArguments ==
  ASSUME argv' = argv
  PROVE  /\ Before(word)' = Before(word')
         /\ \A option : /\ Absent(option, word)' <=> Absent(option, word')
                        /\ \A v : Latest(option, word, v)' <=> Latest(option, word', v)
  <1>1. Before(word)' = Before(word')  BY DEF Before
  <1> QED  BY <1>1 DEF Absent, Latest

\* The option at w, with a legal value, and the settings that change with it.
Set(option, v) ==
  /\ IF option = "-i" THEN opts'.infile = v /\ opts'.ifile_exist
     ELSE opts'.infile = opts.infile /\ opts'.ifile_exist = opts.ifile_exist
  /\ IF option = "-o" THEN opts'.outfile = v /\ opts'.ofile_exist
     ELSE opts'.outfile = opts.outfile /\ opts'.ofile_exist = opts.ofile_exist
  /\ opts'.QF = IF option = "-q" THEN (IF Numbers[v] = 0 THEN 1 ELSE Numbers[v]) ELSE opts.QF
  /\ opts'.YCCtype = IF option = "-c" THEN Formats_c[v] ELSE opts.YCCtype
  /\ opts'.num_threads = IF option = "-t" THEN Numbers[v] ELSE opts.num_threads
  /\ opts'.benchmark = opts.benchmark

LEMMA AcceptStep ==
  ASSUME ArgsInv, arg_pc = "options", main_pc = "args", word < Len(argv),
         NEW X \in Options, NEW v, argv[word] = X, argv[word+1] = v,
         Legal(X, v), Set(X, v), opts' \in Settings,
         word' = word + 2, UNCHANGED <<argv, disk, arg_pc, main_pc>>
  PROVE  ArgsInv'
  <1>1. /\ argv \in Seq(STRING) /\ word \in 1 .. Len(argv) + 1 /\ Read(word) /\ word \in IsOption(argv)
        /\ v \in STRING /\ X # "-b"
    <2>1. word \in 1 .. Len(argv) /\ word + 1 \in 1 .. Len(argv) /\ argv \in Seq(STRING)  BY DEF ArgsInv
    <2>2. argv[word+1] \in STRING  BY <2>1
    <2> QED  BY <2>1, <2>2 DEF ArgsInv, Options
  <1>2. /\ Before(word') = Before(word) \cup {word}
        /\ word' <= Len(argv) => word' \in IsOption(argv)
    BY <1>1, WithValue DEF Read
  <1>3. /\ Latest(X, word', v) /\ ~Absent(X, word')
        /\ \A option : option # X =>
              /\ Absent(option, word') <=> Absent(option, word)
              /\ \A u : Latest(option, word', u) <=> Latest(option, word, u)
    <2>1. word \in IsOption(argv) /\ Before(word') = Before(word) \cup {word}  BY <1>1, <1>2
    <2>2. /\ Latest(argv[word], word', argv[word+1]) /\ ~Absent(argv[word], word')
          /\ \A option : option # argv[word] =>
                /\ Absent(option, word') <=> Absent(option, word)
                /\ \A u : Latest(option, word', u) <=> Latest(option, word, u)
      BY <2>1, NowLatest, Zenon
    <2> QED  BY <2>2, Zenon
  <1>4. /\ Latest(X, word, v)' /\ ~Absent(X, word)'
        /\ \A option : option # X =>
              /\ Absent(option, word)' <=> Absent(option, word)
              /\ \A u : Latest(option, word, u)' <=> Latest(option, word, u)
    BY <1>3, SameArguments
  <1>5. AllLegal(word)'
    <2> SUFFICES ASSUME NEW o \in Before(word)'
                 PROVE  (argv[o] = "-b" \/ (argv[o] \in Options /\ o + 1 < word /\ Legal(argv[o], argv[o+1])))'
      BY DEF AllLegal
    <2>1. o \in Before(word) \/ o = word  BY <1>2, SameArguments
    <2>2. \A x, y : Legal(x, y)' <=> Legal(x, y)  BY DEF Legal
    <2>3. CASE o \in Before(word)
      <3>1. argv[o] = "-b" \/ (argv[o] \in Options /\ o + 1 < word /\ Legal(argv[o], argv[o+1]))
        BY <1>1, <2>3 DEF Read, AllLegal
      <3>2. o \in Int  BY <2>3 DEF Before, IsOption
      <3>3. o + 1 < word => o + 1 < word'  BY <1>1, <3>2
      <3> QED  BY <2>2, <3>1, <3>3, Zenon
    <2>4. CASE o = word
      <3>1. word + 1 < word'  BY <1>1
      <3> QED  BY <2>2, <2>4, <3>1, Zenon
    <2> QED  BY <2>1, <2>3, <2>4
  <1>6. Set(X, v)  OBVIOUS
  <1>7. InputGiven(word)'
    <2>1. InputGiven(word)  BY <1>1 DEF Read
    <2> QED  BY <1>4, <1>6, <2>1 DEF InputGiven, Set
  <1>8. OutputGiven(word)'
    <2>1. OutputGiven(word)  BY <1>1 DEF Read
    <2> QED  BY <1>4, <1>6, <2>1 DEF OutputGiven, Set
  <1>9. QualityGiven(word)'
    <2>1. QualityGiven(word)  BY <1>1 DEF Read
    <2>2. CASE X = "-q"
      <3>1. Latest("-q", word, v)'  BY <1>4, <2>2
      <3>2. opts'.QF = (IF Numbers[v] = 0 THEN 1 ELSE Numbers[v])  BY <1>6, <2>2 DEF Set
      <3> QED  BY <1>1, <3>1, <3>2, Zenon DEF QualityGiven
    <2>3. CASE X # "-q"
      <3>1. (Absent("-q", word)' <=> Absent("-q", word)) /\ \A u : Latest("-q", word, u)' <=> Latest("-q", word, u)
        BY <1>4, <2>3
      <3>2. opts'.QF = opts.QF  BY <1>6, <2>3 DEF Set
      <3> QED  BY <2>1, <3>1, <3>2, Zenon DEF QualityGiven
    <2> QED  BY <2>2, <2>3
  <1>10. FormatGiven(word)'
    <2>1. FormatGiven(word)  BY <1>1 DEF Read
    <2>2. CASE X = "-c"
      <3>1. Latest("-c", word, v)'  BY <1>4, <2>2
      <3>2. opts'.YCCtype = Formats_c[v]  BY <1>6, <2>2 DEF Set
      <3> QED  BY <1>1, <3>1, <3>2, Zenon DEF FormatGiven
    <2>3. CASE X # "-c"
      <3>1. (Absent("-c", word)' <=> Absent("-c", word)) /\ \A u : Latest("-c", word, u)' <=> Latest("-c", word, u)
        BY <1>4, <2>3
      <3>2. opts'.YCCtype = opts.YCCtype  BY <1>6, <2>3 DEF Set
      <3> QED  BY <2>1, <3>1, <3>2, Zenon DEF FormatGiven
    <2> QED  BY <2>2, <2>3
  <1>11. ThreadsGiven(word)'
    <2>1. ThreadsGiven(word)  BY <1>1 DEF Read
    <2>2. CASE X = "-t"
      <3>1. Latest("-t", word, v)'  BY <1>4, <2>2
      <3>2. opts'.num_threads = Numbers[v]  BY <1>6, <2>2 DEF Set
      <3> QED  BY <1>1, <3>1, <3>2, Zenon DEF ThreadsGiven
    <2>3. CASE X # "-t"
      <3>1. (Absent("-t", word)' <=> Absent("-t", word)) /\ \A u : Latest("-t", word, u)' <=> Latest("-t", word, u)
        BY <1>4, <2>3
      <3>2. opts'.num_threads = opts.num_threads  BY <1>6, <2>3 DEF Set
      <3> QED  BY <2>1, <3>1, <3>2, Zenon DEF ThreadsGiven
    <2> QED  BY <2>2, <2>3
  <1>12. BenchmarkGiven(word)'
    <2>1. BenchmarkGiven(word)  BY <1>1 DEF Read
    <2>2. X # "-b"  BY <1>1
    <2> QED  BY <1>4, <1>6, <2>1, <2>2 DEF BenchmarkGiven, Set
  <1>13. Read(word)'  BY <1>5, <1>7, <1>8, <1>9, <1>10, <1>11, <1>12 DEF Read
  <1>14. word' \in 1 .. Len(argv') + 1  BY <1>1
  <1> QED  BY <1>1, <1>2, <1>13, <1>14 DEF ArgsInv

\* The words for the formats.
LEMMA FormatNames == \A s \in DOMAIN Formats_c : Formats_c[s] \in YCC \ {"GRAY"}
  <1> TAKE s \in DOMAIN Formats_c
  <1>1. s \in {"444", "422", "411", "440", "410", "420", "GRAY"}  BY DEF Formats_c
  <1>2. CASE s = "444"  BY <1>2 DEF Formats_c, YCC
  <1>3. CASE s = "422"  BY <1>3 DEF Formats_c, YCC
  <1>4. CASE s = "411"  BY <1>4 DEF Formats_c, YCC
  <1>5. CASE s = "440"  BY <1>5 DEF Formats_c, YCC
  <1>6. CASE s = "410"  BY <1>6 DEF Formats_c, YCC
  <1>7. CASE s = "420"  BY <1>7 DEF Formats_c, YCC
  <1>8. CASE s = "GRAY"  BY <1>8 DEF Formats_c, YCC
  <1> QED  BY <1>1, <1>2, <1>3, <1>4, <1>5, <1>6, <1>7, <1>8

\* What parse_args() gives up at an option nobody could understand either.
LEMMA GivenUp ==
  ASSUME NEW w \in IsOption(argv), argv[w] # "-b", ~(w < Len(argv) /\ Legal(argv[w], argv[w+1]))
  PROVE  ~Understandable
  BY DEF Understandable

LEMMA EndStep ==
  ASSUME ArgsInv, main_pc = "args", NEW pc \in {"failed", "terminated", "undefined"}, ~Understandable, ArgEnd(pc),
         UNCHANGED main_pc
  PROVE  ArgsInv'
  <1>1. (~Understandable)'
    <2>1. \A x, y : Legal(x, y)' <=> Legal(x, y)  BY DEF Legal, ArgEnd
    <2> QED  BY <2>1 DEF Understandable, ArgEnd
  <1> QED  BY <1>1 DEF ArgsInv, ArgEnd

\* The options with a number.
LEMMA NumberStep ==
  ASSUME ArgsInv, main_pc = "args", NEW option \in {"-q", "-t"}, NEW Lawful, NEW new,
         \A x : Legal(option, x) <=> x \in DOMAIN Numbers /\ Numbers[x] \in Lawful,
         Given /\ Value \in DOMAIN Numbers /\ Numbers[Value] \in Lawful =>
           new \in Settings /\ (opts' = new => Set(option, Value)),
         OptionNumber(option, Lawful, new), UNCHANGED main_pc
  PROVE  ArgsInv'
  <1>1. /\ arg_pc = "options" /\ argv[word] = option /\ option # "-b" /\ option \in Options /\ word <= Len(argv)
        /\ word \in IsOption(argv) /\ argv \in Seq(STRING) /\ word \in Int
    BY DEF OptionNumber, At, ArgsInv, Options
  <1>2. CASE word = Len(argv) /\ ArgEnd("undefined")
    <2>1. ~(word < Len(argv))  BY <1>1, <1>2
    <2> QED  BY <1>1, <1>2, <2>1, GivenUp, EndStep
  <1>3. CASE Given /\ Value \in OutOfRange /\ ArgEnd("terminated")
    <2>1. ~Legal(option, Value)  BY <1>3, ArgumentsAssumption
    <2> QED  BY <1>1, <1>3, <2>1, GivenUp, EndStep DEF Value
  <1>4. CASE Given /\ Value \notin DOMAIN Numbers \cup OutOfRange /\ ArgEnd("failed")
    <2>1. ~Legal(option, Value)  BY <1>4
    <2> QED  BY <1>1, <1>4, <2>1, GivenUp, EndStep DEF Value
  <1>5. CASE Given /\ Value \in DOMAIN Numbers /\ Numbers[Value] \in Lawful /\ Accept(new)
    <2>1. Legal(option, Value)  BY <1>5
    <2>2. opts' \in Settings /\ Set(option, Value)  BY <1>5 DEF Accept
    <2> QED  BY <1>1, <1>5, <2>1, <2>2, AcceptStep DEF Accept, Value, Given
  <1>6. CASE Given /\ Value \in DOMAIN Numbers /\ Numbers[Value] \notin Lawful /\ ArgEnd("failed")
    <2>1. ~Legal(option, Value)  BY <1>6
    <2> QED  BY <1>1, <1>6, <2>1, GivenUp, EndStep DEF Value
  <1> QED  BY <1>2, <1>3, <1>4, <1>5, <1>6 DEF OptionNumber, PastTheEnd

\* Every step of parse_args() keeps the invariant.
LEMMA ParseStep ==
  ASSUME ArgsInv, main_pc = "args", ParseArgs, UNCHANGED main_pc
  PROVE  ArgsInv'
  <1>1. arg_pc = "options" /\ argv \in Seq(STRING) /\ opts \in Settings /\ Read(word) /\ word \in 1 .. Len(argv) + 1
    BY DEF ArgsInv, ParseArgs, OptionI, OptionO, OptionQ, OptionT, OptionC, OptionB, OptionOther, EndOfArguments,
           OptionNumber, At
  <1>2. Given => Value \in STRING
    <2>1. word < Len(argv) => word + 1 \in 1 .. Len(argv)  BY <1>1
    <2> QED  BY <1>1, <2>1 DEF Given, Value
  <1>3. CASE OptionI
    <2>1. /\ argv[word] = "-i" /\ "-i" # "-b" /\ "-i" \in Options /\ word \in IsOption(argv)
          /\ Legal("-i", Value) <=> Value \in DOMAIN disk
      BY <1>1, <1>3 DEF OptionI, At, ArgsInv, Options, Legal
    <2>2. CASE word = Len(argv) /\ ArgEnd("undefined")
      <3>1. ~(word < Len(argv))  BY <1>1, <2>2
      <3> QED  BY <2>1, <2>2, <3>1, GivenUp, EndStep
    <2>3. CASE Given /\ Value \notin DOMAIN disk /\ ArgEnd("failed")
      BY <2>1, <2>3, GivenUp, EndStep DEF Value
    <2>4. CASE Given /\ Value \in DOMAIN disk /\ Accept([opts EXCEPT !.infile = Value, !.ifile_exist = TRUE])
      <3>1. opts' \in Settings /\ Set("-i", Value)  BY <1>1, <1>2, <2>4 DEF Accept, Settings, Set
      <3> QED  BY <1>1, <2>1, <2>4, <3>1, AcceptStep DEF Accept, Value, Given
    <2> QED  BY <1>3, <2>2, <2>3, <2>4 DEF OptionI, PastTheEnd
  <1>4. CASE OptionO
    <2>1. /\ argv[word] = "-o" /\ "-o" # "-b" /\ "-o" \in Options /\ word \in IsOption(argv)
          /\ Legal("-o", Value)
      BY <1>1, <1>4 DEF OptionO, At, ArgsInv, Options, Legal
    <2>2. CASE word = Len(argv) /\ ArgEnd("undefined")
      <3>1. ~(word < Len(argv))  BY <1>1, <2>2
      <3> QED  BY <2>1, <2>2, <3>1, GivenUp, EndStep
    <2>3. CASE Given /\ Accept([opts EXCEPT !.outfile = Value, !.ofile_exist = TRUE])
      <3>1. opts' \in Settings /\ Set("-o", Value)  BY <1>1, <1>2, <2>3 DEF Accept, Settings, Set
      <3> QED  BY <1>1, <2>1, <2>3, <3>1, AcceptStep DEF Accept, Value, Given
    <2> QED  BY <1>4, <2>2, <2>3 DEF OptionO, PastTheEnd
  <1>5. CASE OptionQ
    <2> DEFINE new == [opts EXCEPT !.QF = IF Numbers[Value] = 0 THEN 1 ELSE Numbers[Value]]
    <2>1. \A x : Legal("-q", x) <=> x \in DOMAIN Numbers /\ Numbers[x] \in 0 .. 100  BY DEF Legal
    <2>2. ASSUME Given, Value \in DOMAIN Numbers, Numbers[Value] \in 0 .. 100
          PROVE  new \in Settings /\ (opts' = new => Set("-q", Value))
      <3> DEFINE quality == IF Numbers[Value] = 0 THEN 1 ELSE Numbers[Value]
      <3>1. quality \in 1 .. 100  BY <2>2
      <3>2. opts' = new => opts'.QF = quality  BY <1>1 DEF Settings
      <3>3. opts' = new => Set("-q", Value)  BY <1>1, <3>2 DEF Settings, Set
      <3>4. new = [opts EXCEPT !.QF = quality]  OBVIOUS
      <3> HIDE DEF quality, new
      <3>5. new \in Settings  BY <1>1, <3>1, <3>4 DEF Settings
      <3> QED  BY <3>3, <3>5
    <2>3. OptionNumber("-q", 0 .. 100, new)  BY <1>5 DEF OptionQ
    <2> HIDE DEF new
    <2> QED  BY <2>1, <2>2, <2>3, NumberStep
  <1>6. CASE OptionT
    <2> DEFINE new == [opts EXCEPT !.num_threads = Numbers[Value]]
    <2>1. \A x : Legal("-t", x) <=> x \in DOMAIN Numbers /\ Numbers[x] \in Nat  BY ArgumentsAssumption DEF Legal
    <2>2. ASSUME Given, Value \in DOMAIN Numbers, Numbers[Value] \in Nat
          PROVE  new \in Settings /\ (opts' = new => Set("-t", Value))
      <3>1. Numbers[Value] \in Nat  BY <2>2
      <3> QED  BY <1>1, <3>1 DEF Settings, Set
    <2>3. OptionNumber("-t", Nat, new)  BY <1>6 DEF OptionT
    <2> HIDE DEF new
    <2> QED  BY <2>1, <2>2, <2>3, NumberStep
  <1>7. CASE OptionC
    <2>1. /\ argv[word] = "-c" /\ "-c" # "-b" /\ "-c" \in Options /\ word \in IsOption(argv)
          /\ Legal("-c", Value) <=> Value \in DOMAIN Formats_c
      BY <1>1, <1>7 DEF OptionC, At, ArgsInv, Options, Legal
    <2>2. CASE word = Len(argv) /\ ArgEnd("undefined")
      <3>1. ~(word < Len(argv))  BY <1>1, <2>2
      <3> QED  BY <2>1, <2>2, <3>1, GivenUp, EndStep
    <2>3. CASE Given /\ Value \notin DOMAIN Formats_c /\ ArgEnd("failed")
      BY <2>1, <2>3, GivenUp, EndStep DEF Value
    <2>4. CASE Given /\ Value \in DOMAIN Formats_c /\ Accept([opts EXCEPT !.YCCtype = Formats_c[Value]])
      <3>1. Formats_c[Value] \in YCC \ {"GRAY"}
        BY <2>4, FormatNames
      <3>2. opts' \in Settings /\ Set("-c", Value)  BY <1>1, <2>4, <3>1 DEF Accept, Settings, Set
      <3> QED  BY <1>1, <2>1, <2>4, <3>2, AcceptStep DEF Accept, Value, Given
    <2> QED  BY <1>7, <2>2, <2>3, <2>4 DEF OptionC, PastTheEnd
  <1>8. CASE OptionB
    <2>1. /\ argv[word] = "-b" /\ word \in IsOption(argv) /\ word' = word + 1 /\ UNCHANGED <<argv, disk, arg_pc>>
          /\ opts' = [opts EXCEPT !.benchmark = TRUE] /\ word <= Len(argv)
      BY <1>1, <1>8 DEF OptionB, At, ArgsInv
    <2>2. /\ Before(word') = Before(word) \cup {word}
          /\ word' <= Len(argv) => word' \in IsOption(argv)
      BY <1>1, <2>1, WithoutValue
    <2>3. ~Absent("-b", word') /\
            \A option : option # "-b" =>
              /\ Absent(option, word') <=> Absent(option, word)
              /\ \A u : Latest(option, word', u) <=> Latest(option, word, u)
      BY <2>1, <2>2, NowLatest
    <2>4. /\ ~Absent("-b", word)'
          /\ \A option : option # "-b" =>
              /\ Absent(option, word)' <=> Absent(option, word)
              /\ \A u : Latest(option, word, u)' <=> Latest(option, word, u)
      BY <2>1, <2>3, SameArguments
    <2>5. AllLegal(word)'
      <3> SUFFICES ASSUME NEW o \in Before(word)'
                   PROVE  (argv[o] = "-b" \/ (argv[o] \in Options /\ o + 1 < word /\ Legal(argv[o], argv[o+1])))'
        BY DEF AllLegal
      <3>1. o \in Before(word) \/ o = word  BY <2>1, <2>2, SameArguments
      <3>2. \A x, y : Legal(x, y)' <=> Legal(x, y)  BY <2>1 DEF Legal
      <3>3. CASE o \in Before(word)
        <4>1. argv[o] = "-b" \/ (argv[o] \in Options /\ o + 1 < word /\ Legal(argv[o], argv[o+1]))
          BY <1>1, <3>3 DEF Read, AllLegal
        <4>2. o \in Int  BY <3>3 DEF Before, IsOption
        <4>3. o + 1 < word => o + 1 < word'  BY <1>1, <2>1, <4>2
        <4> QED  BY <2>1, <3>2, <4>1, <4>3, Zenon
      <3> QED  BY <2>1, <3>1, <3>3
    <2>6. Read(word)'
      <3>1. /\ opts' \in Settings /\ opts'.infile = opts.infile /\ opts'.ifile_exist = opts.ifile_exist
            /\ opts'.outfile = opts.outfile /\ opts'.ofile_exist = opts.ofile_exist
            /\ opts'.QF = opts.QF /\ opts'.YCCtype = opts.YCCtype /\ opts'.num_threads = opts.num_threads
            /\ opts'.benchmark = TRUE
        BY <1>1, <2>1 DEF Settings
      <3>2. InputGiven(word)' /\ OutputGiven(word)'  BY <1>1, <2>4, <3>1 DEF Read, InputGiven, OutputGiven
      <3>3. QualityGiven(word)'  BY <1>1, <2>4, <3>1, Zenon DEF Read, QualityGiven
      <3>4. FormatGiven(word)'  BY <1>1, <2>4, <3>1, Zenon DEF Read, FormatGiven
      <3>5. ThreadsGiven(word)'  BY <1>1, <2>4, <3>1, Zenon DEF Read, ThreadsGiven
      <3>6. BenchmarkGiven(word)'  BY <2>4, <3>1 DEF BenchmarkGiven
      <3> QED  BY <2>5, <3>2, <3>3, <3>4, <3>5, <3>6 DEF Read
    <2>7. opts' \in Settings  BY <1>1, <2>1 DEF Settings
    <2>8. word' \in 1 .. Len(argv') + 1  BY <1>1, <2>1
    <2> QED  BY <1>1, <2>1, <2>2, <2>6, <2>7, <2>8 DEF ArgsInv
  <1>9. CASE OptionOther
    <2>1. CASE argv = <<>>
      <3>1. IsOption(argv) = {}
        <4>1. 1 .. Len(argv) = {}  BY <2>1
        <4> QED  BY <4>1 DEF IsOption
      <3>2. ~Understandable  BY <3>1 DEF Understandable
      <3> QED  BY <1>9, <3>2, EndStep DEF OptionOther
    <2>2. CASE word <= Len(argv) /\ argv[word] \notin {"-i", "-o", "-q", "-c", "-t", "-b"}
      <3>1. word \in IsOption(argv)  BY <1>1, <2>2 DEF ArgsInv
      <3>2. ~Legal(argv[word], argv[word+1])  BY <2>2 DEF Legal
      <3>3. ~Understandable  BY <2>2, <3>1, <3>2, GivenUp
      <3> QED  BY <1>9, <3>3, EndStep DEF OptionOther
    <2> QED  BY <1>9, <2>1, <2>2 DEF OptionOther
  <1>10. CASE EndOfArguments
    <2>1. word = Len(argv) + 1  BY <1>1, <1>10 DEF EndOfArguments
    <2>2. Before(word) = IsOption(argv)
      <3>1. \A o \in 1 .. Len(argv) : o < word  BY <1>1, <2>1
      <3> QED  BY <3>1 DEF Before, IsOption
    <2>3. CASE opts.ifile_exist /\ opts.ofile_exist
      <3>1. UNCHANGED <<argv, disk, word, opts>> /\ arg_pc' = "done"  BY <1>10, <2>3 DEF EndOfArguments, ArgEnd
      <3>2. Read(word)'
        <4>1. \A x, y : Legal(x, y)' <=> Legal(x, y)  BY <3>1 DEF Legal
        <4>2. AllLegal(word)'  BY <1>1, <3>1, <4>1 DEF Read, AllLegal, Before
        <4>3. \A option : /\ Absent(option, word)' <=> Absent(option, word)
                          /\ \A u : Latest(option, word, u)' <=> Latest(option, word, u)
          BY <3>1, SameArguments
        <4>4. InputGiven(word)' /\ OutputGiven(word)'  BY <1>1, <3>1, <4>3 DEF Read, InputGiven, OutputGiven
        <4>5. QualityGiven(word)'  BY <1>1, <3>1, <4>3, Zenon DEF Read, QualityGiven
        <4>6. FormatGiven(word)'  BY <1>1, <3>1, <4>3, Zenon DEF Read, FormatGiven
        <4>7. ThreadsGiven(word)'  BY <1>1, <3>1, <4>3, Zenon DEF Read, ThreadsGiven
        <4>8. BenchmarkGiven(word)'  BY <1>1, <3>1, <4>3 DEF Read, BenchmarkGiven
        <4> QED  BY <4>2, <4>4, <4>5, <4>6, <4>7, <4>8 DEF Read
      <3> QED  BY <1>1, <2>1, <2>3, <3>1, <3>2 DEF ArgsInv
    <2>4. CASE ~(opts.ifile_exist /\ opts.ofile_exist)
      <3>1. Absent("-i", word) \/ Absent("-o", word)  BY <1>1, <2>4 DEF Read, InputGiven, OutputGiven
      <3>2. ~Understandable  BY <2>2, <3>1 DEF Understandable, Absent
      <3>3. ArgEnd("failed")  BY <1>10, <2>4 DEF EndOfArguments
      <3> QED  BY <3>2, <3>3, EndStep
    <2> QED  BY <2>3, <2>4
  <1> QED  BY <1>3, <1>4, <1>5, <1>6, <1>7, <1>8, <1>9, <1>10 DEF ParseArgs

-----------------------------------------------------------------------------
(* What has been understood at the end is what the user means. *)

\* The last value of an option, or what stands for one that is not there.
LEMMA LastOfIs ==
  ASSUME argv \in Seq(STRING), NEW option,
         \A o \in IsOption(argv) : argv[o] = option => o + 1 <= Len(argv)
  PROVE  /\ \A default : Absent(option, Len(argv) + 1) => Values(option) = <<>> /\ LastOf(option, default) = default
         /\ \A v, default : Latest(option, Len(argv) + 1, v) => Values(option) # <<>> /\ LastOf(option, default) = v
  <1> DEFINE D == {m + 1 : m \in {o \in IsOption(argv) : argv[o] = option}}
             vs == Values(option)
  <1>1. vs = [n \in D |-> argv[n]] /\ DOMAIN vs = D  BY DEF Values
  <1>2. Before(Len(argv) + 1) = IsOption(argv) /\ IsOption(argv) \subseteq Int
    <2>1. IsOption(argv) \subseteq 1 .. Len(argv)  BY DEF IsOption
    <2>2. \A o \in 1 .. Len(argv) : o < Len(argv) + 1 /\ o \in Int  OBVIOUS
    <2> QED  BY <2>1, <2>2 DEF Before
  <1> HIDE DEF vs
  <1>3. vs = <<>> <=> D = {}
    <2>1. DOMAIN <<>> = {}  OBVIOUS
    <2>2. D = {} => vs = <<>>
      <3> SUFFICES ASSUME D = {} PROVE vs = <<>>  OBVIOUS
      <3>1. vs = [n \in {} |-> argv[n]]  BY <1>1
      <3> QED  BY <3>1
    <2> QED  BY <1>1, <2>1, <2>2
  <1>4. \A default : LastOf(option, default) =
          IF vs = <<>> THEN default ELSE vs[CHOOSE n \in D : \A o \in D : o <= n]
    BY <1>1 DEF LastOf, vs
  <1>5. ASSUME NEW default, Absent(option, Len(argv) + 1)
        PROVE  vs = <<>> /\ LastOf(option, default) = default
    <2>1. D = {}  BY <1>2, <1>5 DEF Absent
    <2> HIDE DEF D
    <2> QED  BY <1>3, <1>4, <2>1
  <1>6. ASSUME NEW v, NEW default, Latest(option, Len(argv) + 1, v)
        PROVE  vs # <<>> /\ LastOf(option, default) = v
    <2>1. PICK o \in IsOption(argv) : /\ argv[o] = option /\ argv[o+1] = v
                                      /\ \A p \in IsOption(argv) : argv[p] = option => p <= o
      BY <1>2, <1>6 DEF Latest
    <2>2. o + 1 \in D /\ \A n \in D : n <= o + 1 /\ n \in Int  BY <1>2, <2>1
    <2>3. o \in Int  BY <1>2
    <2> HIDE DEF D
    <2>4. (CHOOSE n \in D : \A p \in D : p <= n) = o + 1
      <3>1. \A n \in D : (\A p \in D : p <= n) => n = o + 1  BY <2>2, <2>3
      <3>2. \A p \in D : p <= o + 1  BY <2>2
      <3> DEFINE top == CHOOSE n \in D : \A p \in D : p <= n
      <3>3. top \in D /\ \A p \in D : p <= top  BY <2>2, <3>2
      <3> HIDE DEF top
      <3>4. top = o + 1  BY <3>1, <3>3
      <3> QED  BY <3>4 DEF top
    <2>5. D # {} /\ vs[o+1] = argv[o+1]  BY <1>1, <2>2
    <2> QED  BY <1>3, <1>4, <2>1, <2>4, <2>5
  <1> QED  BY <1>5, <1>6 DEF vs

LEMMA Understood == ArgsInv => ArgumentsUnderstood
  <1> SUFFICES ASSUME ArgsInv, arg_pc = "done" PROVE ArgumentsUnderstood
    BY DEF ArgsInv, ArgumentsUnderstood
  <1> DEFINE w == Len(argv) + 1
  <1>1. /\ argv \in Seq(STRING) /\ Read(w) /\ opts.ifile_exist /\ opts.ofile_exist
    BY DEF ArgsInv
  <1>2. Before(w) = IsOption(argv) /\ IsOption(argv) \subseteq Int
    <2>1. IsOption(argv) \subseteq 1 .. Len(argv)  BY DEF IsOption
    <2>2. \A o \in 1 .. Len(argv) : o < w /\ o \in Int  BY <1>1
    <2> QED  BY <2>1, <2>2 DEF Before
  <1>3. Len(argv) \in Nat  BY <1>1
  <1>4. \A o \in IsOption(argv) : argv[o] = "-b" \/ (o < Len(argv) /\ Legal(argv[o], argv[o+1]))
    <2>1. \A o \in Int : o + 1 < w => o < Len(argv)  BY <1>3
    <2> HIDE DEF w
    <2> QED  BY <1>1, <1>2, <2>1 DEF Read, AllLegal
  <1>5. Understandable
    <2>1. Latest("-i", w, opts.infile) /\ Latest("-o", w, opts.outfile)
      BY <1>1 DEF Read, InputGiven, OutputGiven
    <2>2. (\E o \in IsOption(argv) : argv[o] = "-i") /\ (\E o \in IsOption(argv) : argv[o] = "-o")
      BY <1>2, <2>1 DEF Latest
    <2> QED  BY <1>4, <2>2 DEF Understandable
  <1>6. \A option \in Options :
          /\ \A default : Absent(option, w) => Values(option) = <<>> /\ LastOf(option, default) = default
          /\ \A v, default : Latest(option, w, v) => Values(option) # <<>> /\ LastOf(option, default) = v
    <2> TAKE option \in Options
    <2>1. \A o \in IsOption(argv) : argv[o] = option => o + 1 <= Len(argv)
      <3>1. option # "-b"  BY DEF Options
      <3>2. \A o \in Int : o < Len(argv) => o + 1 <= Len(argv)  BY <1>3
      <3> QED  BY <1>2, <1>4, <3>1, <3>2
    <2> QED  BY <1>1, <2>1, LastOfIs
  <1> HIDE DEF w
  <1>7. opts.infile = LastOf("-i", "") /\ opts.outfile = LastOf("-o", "")
    <2>1. Latest("-i", w, opts.infile) /\ Latest("-o", w, opts.outfile)
      BY <1>1 DEF Read, InputGiven, OutputGiven
    <2> QED  BY <1>6, <2>1 DEF Options
  <1>8. opts.YCCtype = Formats_c[LastOf("-c", "420")]
    <2>1. "-c" \in Options  BY DEF Options
    <2>2. Formats_c["420"] = "YUV420"  BY DEF Formats_c
    <2>3. FormatGiven(w)  BY <1>1 DEF Read
    <2> QED  BY <1>6, <2>1, <2>2, <2>3, Zenon DEF FormatGiven
  <1>9. /\ Values("-q") = <<>> => opts.QF = 75
        /\ Values("-q") # <<>> => opts.QF = IF Numbers[LastOf("-q", "")] = 0 THEN 1 ELSE Numbers[LastOf("-q", "")]
    <2>1. "-q" \in Options  BY DEF Options
    <2>2. QualityGiven(w)  BY <1>1 DEF Read
    <2> QED  BY <1>6, <2>1, <2>2, Zenon DEF QualityGiven
  <1>10. opts.num_threads = IF Values("-t") = <<>> THEN 1 ELSE Numbers[LastOf("-t", "")]
    <2>1. "-t" \in Options  BY DEF Options
    <2>2. ThreadsGiven(w)  BY <1>1 DEF Read
    <2> QED  BY <1>6, <2>1, <2>2, Zenon DEF ThreadsGiven
  <1>11. opts.benchmark <=> \E o \in IsOption(argv) : argv[o] = "-b"
    BY <1>1, <1>2 DEF Read, BenchmarkGiven, Absent
  <1> QED  BY <1>5, <1>7, <1>8, <1>9, <1>10, <1>11 DEF ArgumentsUnderstood

-----------------------------------------------------------------------------
(* The rest of the program. *)

\* No other part of the program touches what has been understood; opening the output
\* may add a file.
LEMMA KeptStep ==
  ASSUME ArgsInv, UNCHANGED <<argv, word, opts, arg_pc>>, DOMAIN disk \subseteq DOMAIN disk',
         arg_pc # "done" => UNCHANGED disk,
         main_pc' \in {"pnm", "construct", "invoke", "output", "write"} => arg_pc = "done"
  PROVE  ArgsInv'
  <1>1. ASSUME Read(word) PROVE Read(word)'
    <2>1. Read(word)  BY <1>1
    <2>2. Before(word)' = Before(word)  BY DEF Before
    <2>3. \A x, y : Legal(x, y) => Legal(x, y)'  BY DEF Legal
    <2>4. AllLegal(word)'  BY <2>1, <2>2, <2>3 DEF Read, AllLegal
    <2>5. \A option : /\ Absent(option, word)' <=> Absent(option, word)
                      /\ \A u : Latest(option, word, u)' <=> Latest(option, word, u)
      BY SameArguments
    <2>6. InputGiven(word)' /\ OutputGiven(word)'  BY <2>1, <2>5 DEF Read, InputGiven, OutputGiven
    <2>7. QualityGiven(word)'  BY <2>1, <2>5, Zenon DEF Read, QualityGiven
    <2>8. FormatGiven(word)'  BY <2>1, <2>5, Zenon DEF Read, FormatGiven
    <2>9. ThreadsGiven(word)'  BY <2>1, <2>5, Zenon DEF Read, ThreadsGiven
    <2>10. BenchmarkGiven(word)'  BY <2>1, <2>5 DEF Read, BenchmarkGiven
    <2> QED  BY <2>4, <2>6, <2>7, <2>8, <2>9, <2>10 DEF Read
  <1>2. ASSUME arg_pc # "done", ~Understandable PROVE (~Understandable)'
    <2>1. UNCHANGED disk  BY <1>2
    <2>2. \A x, y : Legal(x, y)' <=> Legal(x, y)  BY <2>1 DEF Legal
    <2> QED  BY <1>2, <2>2 DEF Understandable
  <1> QED  BY <1>1, <1>2 DEF ArgsInv

LEMMA ArgsInit == Init => ArgsInv
  <1> SUFFICES ASSUME Init PROVE ArgsInv  OBVIOUS
  <1>1. /\ argv \in Seq(STRING) /\ word = 1 /\ arg_pc = "options" /\ main_pc = "args" /\ opts = Defaults
    BY JpencAssumption DEF Init, ArgInit
  <1>2. opts \in Settings
    <2>1. "YUV420" \in YCC /\ 75 \in 1 .. 100  BY DEF YCC
    <2> QED  BY <1>1, <2>1 DEF Defaults, Settings
  <1>3. Before(word) = {}
    <2>1. \A o \in 1 .. Len(argv) : ~(o < 1)  OBVIOUS
    <2> QED  BY <1>1, <2>1 DEF Before, IsOption
  <1>4. Read(word)
    BY <1>1, <1>3 DEF Read, AllLegal, InputGiven, OutputGiven, QualityGiven, FormatGiven, ThreadsGiven,
                     BenchmarkGiven, Absent, Defaults
  <1>5. word \in 1 .. Len(argv) + 1  BY <1>1
  <1>6. word <= Len(argv) => word \in IsOption(argv)
    <2> SUFFICES ASSUME word <= Len(argv) PROVE word \in IsOption(argv)  OBVIOUS
    <2>1. word \in 1 .. Len(argv)  BY <1>1
    <2> QED  BY <1>1, <2>1, OptionsAre
  <1> QED  BY <1>1, <1>2, <1>4, <1>5, <1>6 DEF ArgsInv

LEMMA ArgsStep == ArgsInv /\ [Next]_vars => ArgsInv'
  <1> SUFFICES ASSUME ArgsInv, [Next]_vars PROVE ArgsInv'  OBVIOUS
  <1>1. CASE ReadArguments  BY <1>1, ParseStep DEF ReadArguments, main_vars
  <1>2. CASE ArgumentsRead
    <2>1. UNCHANGED <<argv, word, opts, arg_pc, disk>>  BY <1>2 DEF ArgumentsRead, arg_vars
    <2>2. main_pc' \in {"pnm", "construct", "invoke", "output", "write"} => arg_pc = "done"
      BY <1>2 DEF ArgumentsRead, Exit
    <2> QED  BY <2>1, <2>2, KeptStep
  <1>3. CASE ReadImage  BY <1>3, KeptStep DEF ReadImage, arg_vars, main_vars, ArgsInv
  <1>4. CASE ImageRead
    <2>1. UNCHANGED <<argv, word, opts, arg_pc, disk>> /\ main_pc = "pnm"  BY <1>4 DEF ImageRead, arg_vars
    <2> QED  BY <2>1, KeptStep DEF ArgsInv
  <1>5. CASE Construct  BY <1>5, KeptStep DEF Construct, arg_vars, ArgsInv
  <1>6. CASE InvokeOnce  BY <1>6, KeptStep DEF InvokeOnce, arg_vars, ArgsInv
  <1>7. CASE InvokeWarmup  BY <1>7, KeptStep DEF InvokeWarmup, arg_vars, ArgsInv
  <1>8. CASE InvokeMeasured  BY <1>8, KeptStep DEF InvokeMeasured, arg_vars, ArgsInv
  <1>9. CASE OpenOutput
    <2>1. UNCHANGED <<argv, word, opts, arg_pc>> /\ arg_pc = "done"  BY <1>9 DEF OpenOutput, ArgsInv
    <2>2. DOMAIN disk \subseteq DOMAIN disk'
      <3>1. \/ UNCHANGED disk
            \/ disk' = [n \in DOMAIN disk \cup {opts.outfile} |-> IF n = opts.outfile THEN <<>> ELSE disk[n]]
        BY <1>9 DEF OpenOutput
      <3> QED  BY <3>1
    <2> QED  BY <2>1, <2>2, KeptStep
  <1>10. CASE WriteOutput
    <2>1. UNCHANGED <<argv, word, opts, arg_pc>> /\ arg_pc = "done"  BY <1>10 DEF WriteOutput, ArgsInv
    <2>2. DOMAIN disk \subseteq DOMAIN disk'  BY <1>10 DEF WriteOutput
    <2> QED  BY <2>1, <2>2, KeptStep
  <1>11. CASE UNCHANGED vars  BY <1>11, KeptStep DEF vars, arg_vars, main_vars, ArgsInv
  <1> QED  BY <1>1, <1>2, <1>3, <1>4, <1>5, <1>6, <1>7, <1>8, <1>9, <1>10, <1>11 DEF Next, Exited

-----------------------------------------------------------------------------
(* The runs of digits in the header, and what the comments and the numbers are. *)

\* What a file holds are bytes, and none of them is EOF.
LEMMA BytesAre ==
  ASSUME NEW bytes \in Seq(0 .. 255), NEW p \in 1 .. Len(bytes)
  PROVE  bytes[p] \in 0 .. 255 /\ bytes[p] \in Int /\ bytes[p] # EOF
  <1> DEFINE b == bytes[p]
  <1>1. b \in 0 .. 255  BY ElementOfSeq
  <1> HIDE DEF b
  <1>2. b \in Int /\ b # EOF  BY <1>1 DEF EOF
  <1> QED  BY <1>1, <1>2 DEF b

Upto(T, p) == {q \in T : q <= p}

\* Of the elements of T those in A are the smallest: there is a next one.
LEMMA NextSmallest ==
  ASSUME NEW T \in SUBSET Nat, IsFiniteSet(T), NEW A \in SUBSET T, \A a \in A, t \in T \ A : a < t,
         Cardinality(T) > Cardinality(A)
  PROVE  \E p \in T \ A : /\ Upto(T, p) = A \cup {p}
                          /\ Cardinality(Upto(T, p)) = Cardinality(A) + 1
  <1>1. IsFiniteSet(A)  BY FS_Subset
  <1>2. T \ A # {}
    <2>1. T # A  BY <1>1, FS_CardinalityType
    <2> QED  BY <2>1
  <1>3. PICK p \in T \ A : \A q \in T \ A : p <= q
    <2>1. T \ A \in SUBSET Nat  OBVIOUS
    <2> QED  BY <1>2, <2>1, LeastNatural
  <1>4. Upto(T, p) = A \cup {p}
    <2>1. \A q \in T : q \in Nat  OBVIOUS
    <2>2. \A q \in T : q \in A \/ p <= q  BY <1>3
    <2>3. \A q \in A : q < p  BY <1>3
    <2>4. \A q \in T : q <= p <=> q \in A \/ q = p
      <3> TAKE q \in T
      <3>1. q \in Nat /\ p \in Nat  BY <2>1
      <3>2. q \in A => q < p  BY <2>3
      <3>3. q \in A \/ p <= q  BY <2>2
      <3> QED  BY <3>1, <3>2, <3>3
    <2> QED  BY <2>4 DEF Upto
  <1>5. Cardinality(A \cup {p}) = Cardinality(A) + 1  BY <1>1, <1>3, FS_AddElement
  <1> QED  BY <1>3, <1>4, <1>5

\* What holds of the starts of the first three runs.
StartsFound(S) ==
  /\ \A n \in 1 .. 3 : Start(S, n) \in Starts(S)
  /\ \A q \in Starts(S) : Start(S, 1) <= q
  /\ \A n \in 1 .. 2 : /\ Start(S, n) < Start(S, n + 1)
                       /\ \A q \in Starts(S) : q < Start(S, n + 1) => q <= Start(S, n)

LEMMA ThreeStarts ==
  ASSUME NEW L \in Nat, NEW S \in SUBSET (3 .. L), Cardinality(Starts(S)) >= 3
  PROVE  StartsFound(S)
  <1> DEFINE T == Starts(S)
  <1>1. T \in SUBSET Nat /\ IsFiniteSet(T) /\ Cardinality(T) >= 3
    <2>1. T \subseteq 3 .. L  BY DEF Starts
    <2>2. IsFiniteSet(3 .. L)  BY FS_Interval
    <2>3. IsFiniteSet(T)  BY <2>1, <2>2, FS_Subset
    <2>4. 3 .. L \subseteq Nat  OBVIOUS
    <2> QED  BY <2>1, <2>3, <2>4
  <1>2. \A n : Start(S, n) = CHOOSE p \in T : Cardinality(Upto(T, p)) = n  BY Zenon DEF Start, Upto
  <1> HIDE DEF T
  <1>3. Cardinality({}) = 0  BY FS_EmptySet
  <1>4. PICK x \in T : Upto(T, x) = {x} /\ Cardinality(Upto(T, x)) = 1
    <2>1. PICK p \in T \ {} : /\ Upto(T, p) = {} \cup {p}
                              /\ Cardinality(Upto(T, p)) = Cardinality({}) + 1
      <3>1. {} \in SUBSET T /\ (\A a \in {}, t \in T \ {} : a < t) /\ Cardinality(T) > Cardinality({})
        <4>1. Cardinality(T) \in Nat  BY <1>1, FS_CardinalityType
        <4> QED  BY <1>1, <1>3, <4>1
      <3> QED  BY <1>1, <3>1, NextSmallest
    <2> QED  BY <1>3, <2>1
  <1>5. PICK y \in T \ {x} : Upto(T, y) = {x, y} /\ Cardinality(Upto(T, y)) = 2
    <2>1. \A a \in {x}, t \in T \ {x} : a < t
      <3>1. \A t \in T : t <= x => t = x  BY <1>4 DEF Upto
      <3> QED  BY <1>1, <3>1
    <2>2. PICK p \in T \ {x} : /\ Upto(T, p) = {x} \cup {p}
                               /\ Cardinality(Upto(T, p)) = Cardinality({x}) + 1
      <3>1. Cardinality({x}) = 1  BY <1>4
      <3>2. {x} \in SUBSET T /\ Cardinality(T) > Cardinality({x})
        <4>1. Cardinality(T) \in Nat  BY <1>1, FS_CardinalityType
        <4> QED  BY <1>1, <3>1, <4>1
      <3> QED  BY <1>1, <2>1, <3>2, NextSmallest
    <2> QED  BY <1>4, <2>2
  <1>6. PICK z \in T \ {x, y} : Upto(T, z) = {x, y, z} /\ Cardinality(Upto(T, z)) = 3
    <2>1. \A a \in {x, y}, t \in T \ {x, y} : a < t
      <3>1. \A t \in T : t <= x => t = x  BY <1>4 DEF Upto
      <3>2. \A t \in T : t <= y => t \in {x, y}  BY <1>5 DEF Upto
      <3> QED  BY <1>1, <3>1, <3>2
    <2>2. PICK p \in T \ {x, y} : /\ Upto(T, p) = {x, y} \cup {p}
                                  /\ Cardinality(Upto(T, p)) = Cardinality({x, y}) + 1
      <3>1. Cardinality({x, y}) = 2  BY <1>5
      <3>2. {x, y} \in SUBSET T /\ Cardinality(T) > Cardinality({x, y})
        <4>1. Cardinality(T) \in Nat  BY <1>1, FS_CardinalityType
        <4> QED  BY <1>1, <3>1, <4>1
      <3> QED  BY <1>1, <2>1, <3>2, NextSmallest
    <2>3. Cardinality({x, y}) = 2  BY <1>5
    <2> QED  BY <2>2, <2>3
  <1>7. x < y /\ y < z /\ x \in Nat /\ y \in Nat /\ z \in Nat
    <2>1. x \in Upto(T, y) /\ y \in Upto(T, z)  BY <1>5, <1>6
    <2>2. x <= y /\ y <= z  BY <2>1 DEF Upto
    <2> QED  BY <1>1, <1>5, <1>6, <2>2
  <1>8. \A q \in T : q < z => q \in {x, y}
    <2>1. \A q \in T : q <= z => q \in {x, y, z}  BY <1>6 DEF Upto
    <2> QED  BY <1>1, <1>7, <2>1
  <1>9. \A q \in T : q >= x
    <2>1. \A q \in T : q <= x => q = x  BY <1>4 DEF Upto
    <2> QED  BY <1>1, <1>7, <2>1
  \* No two elements have equally many below them.
  <1>10. \A p, q \in T : Cardinality(Upto(T, p)) = Cardinality(Upto(T, q)) => p = q
    <2>1. ASSUME NEW p \in T, NEW q \in T, p < q PROVE Cardinality(Upto(T, p)) # Cardinality(Upto(T, q))
      <3>1. \A t \in T : t \in Int  BY <1>1
      <3>2. Upto(T, p) \subseteq Upto(T, q) /\ q \in Upto(T, q) /\ q \notin Upto(T, p)  BY <2>1, <3>1 DEF Upto
      <3>3. IsFiniteSet(Upto(T, q)) /\ Upto(T, p) # Upto(T, q)
        <4>1. Upto(T, q) \subseteq T  BY DEF Upto
        <4> QED  BY <1>1, <3>2, <4>1, FS_Subset
      <3> QED  BY <3>2, <3>3, FS_Subset
    <2>2. \A p, q \in T : p < q \/ q < p \/ p = q  BY <1>1
    <2> QED  BY <2>1, <2>2
  <1>11. Start(S, 1) = x
    <2>1. Start(S, 1) \in T /\ Cardinality(Upto(T, Start(S, 1))) = 1  BY <1>2, <1>4
    <2> QED  BY <1>4, <1>10, <2>1
  <1>12. Start(S, 2) = y
    <2>1. Start(S, 2) \in T /\ Cardinality(Upto(T, Start(S, 2))) = 2  BY <1>2, <1>5
    <2> QED  BY <1>5, <1>10, <2>1
  <1>13. Start(S, 3) = z
    <2>1. Start(S, 3) \in T /\ Cardinality(Upto(T, Start(S, 3))) = 3  BY <1>2, <1>6
    <2> QED  BY <1>6, <1>10, <2>1
  <1>14. \A q \in T : q < y => q <= x
    <2>1. \A q \in T : q < y => q \in {x, y}  BY <1>7, <1>8, <1>1
    <2> QED  BY <1>7, <2>1
  <1>15. \A q \in T : q < z => q <= y  BY <1>7, <1>8
  <1>16. 1 .. 3 = {1, 2, 3} /\ 1 .. 2 = {1, 2} /\ 1 + 1 = 2 /\ 2 + 1 = 3  OBVIOUS
  <1> QED  BY <1>4, <1>5, <1>6, <1>7, <1>9, <1>11, <1>12, <1>13, <1>14, <1>15, <1>16 DEF StartsFound, T

\* A run of digits ends at End, and up to the next start there are none.
RunsFound(S) ==
  /\ \A n \in 1 .. 3 : /\ Start(S, n) \in S /\ End(S, n) \in S /\ Start(S, n) <= End(S, n)
                       /\ End(S, n) + 1 \notin S /\ Start(S, n) .. End(S, n) \subseteq S
  /\ \A q \in S : Start(S, 1) <= q
  /\ \A n \in 1 .. 2 : /\ End(S, n) + 1 < Start(S, n + 1)
                       /\ \A q \in S : q > End(S, n) => Start(S, n + 1) <= q

LEMMA ThreeRuns ==
  ASSUME NEW L \in Nat, NEW S \in SUBSET (3 .. L), Cardinality(Starts(S)) >= 3
  PROVE  RunsFound(S)
  <1>1. StartsFound(S)  BY ThreeStarts
  <1>2. \A q \in S : q \in Nat /\ q <= L /\ q >= 3  OBVIOUS
  \* Below any digit there is the start of its run.
  <1>3. ASSUME NEW q \in S, NEW low \in Int, low < q, low \notin S
        PROVE  \E p \in Starts(S) : low < p /\ p <= q
    <2> DEFINE T == {p \in S : low < p}
    <2>1. T \in SUBSET Nat /\ T # {}  BY <1>2, <1>3
    <2>2. PICK p \in T : \A r \in T : p <= r  BY <2>1, LeastNatural
    <2>3. p - 1 \notin S
      <3> SUFFICES ASSUME p - 1 \in S PROVE FALSE  OBVIOUS
      <3>1. low < p - 1
        <4>1. low <= p - 1 /\ low # p - 1  BY <1>2, <1>3, <2>2
        <4> QED  BY <1>2, <4>1
      <3> QED  BY <1>2, <2>2, <3>1
    <2>4. p <= q  BY <1>3, <2>2
    <2> QED  BY <2>2, <2>3, <2>4 DEF Starts
  <1>4. ASSUME NEW n \in 1 .. 3
        PROVE  /\ Start(S, n) \in S /\ End(S, n) \in S /\ Start(S, n) <= End(S, n)
               /\ End(S, n) + 1 \notin S /\ Start(S, n) .. End(S, n) \subseteq S
    <2> DEFINE s == Start(S, n)
               T == {p \in S : p >= s /\ p + 1 \notin S}
    <2>1. s \in S  BY <1>1 DEF StartsFound, Starts
    <2> HIDE DEF s
    <2>2. T # {}
      <3> DEFINE U == {L - p : p \in S}
      <3>1. U \in SUBSET Nat /\ U # {}  BY <1>2, <2>1
      <3>2. PICK u \in U : \A w \in U : u <= w  BY <3>1, LeastNatural
      <3>3. PICK p \in S : u = L - p  BY <3>2
      <3>4. \A r \in S : r <= p
        <4> TAKE r \in S
        <4>1. L - p <= L - r  BY <3>2, <3>3
        <4> QED  BY <1>2, <4>1
      <3>5. p >= s /\ p + 1 \notin S  BY <1>2, <2>1, <3>4
      <3> QED  BY <3>5
    <2>3. T \in SUBSET Nat  BY <1>2
    <2>4. PICK p \in T : \A r \in T : p <= r  BY <2>2, <2>3, LeastNatural
    <2>5. s .. p \subseteq S
      <3> SUFFICES ASSUME s .. p \ S # {} PROVE FALSE  OBVIOUS
      <3>1. s .. p \ S \in SUBSET Nat  BY <1>2, <2>1
      <3>2. PICK r \in s .. p \ S : \A w \in s .. p \ S : r <= w
        <4> HIDE DEF T
        <4> QED  BY <3>1, LeastNatural
      <3>3. r # s /\ r \in Int /\ s \in Int /\ s < r /\ r <= p /\ p \in Int  BY <1>2, <2>1, <2>4, <3>2
      <3>4. r - 1 \in s .. p  BY <3>3
      <3>5. r - 1 \in S
        <4>1. ~(r <= r - 1)  BY <3>3
        <4> QED  BY <3>2, <3>4, <4>1
      <3>6. r - 1 \in T
        <4>1. r - 1 >= s /\ (r - 1) + 1 = r  BY <3>3
        <4> QED  BY <3>2, <3>5, <4>1
      <3> QED  BY <2>4, <3>3, <3>6
    <2> DEFINE Fits(e) == e >= s /\ e + 1 \notin S /\ s .. e \subseteq S
    <2>6. p \in S /\ Fits(p)  BY <2>4, <2>5
    <2>7. End(S, n) = CHOOSE e \in S : Fits(e)  BY Zenon DEF End, s
    <2>8. End(S, n) \in S /\ Fits(End(S, n))
      <3> HIDE DEF Fits
      <3> QED  BY <2>6, <2>7
    <2> QED  BY <1>2, <2>1, <2>8 DEF s
  <1>5. ASSUME NEW q \in S PROVE Start(S, 1) <= q
    <2>1. 2 < q /\ 2 \notin S  BY <1>2
    <2>2. PICK p \in Starts(S) : p <= q  BY <1>3, <2>1
    <2>3. Start(S, 1) <= p /\ Start(S, 1) \in S /\ p \in S  BY <1>1, <1>4, <2>2 DEF StartsFound, Starts
    <2>4. Start(S, 1) \in Nat /\ p \in Nat /\ q \in Nat  BY <1>2, <2>3
    <2> QED  BY <2>2, <2>3, <2>4
  <1>6. ASSUME NEW n \in 1 .. 2
        PROVE  /\ End(S, n) + 1 < Start(S, n + 1)
               /\ \A q \in S : q > End(S, n) => Start(S, n + 1) <= q
    <2> DEFINE s == Start(S, n)
               e == End(S, n)
               t == Start(S, n + 1)
    <2>1. n \in 1 .. 3 /\ n + 1 \in 1 .. 3  OBVIOUS
    <2>2. /\ s \in S /\ e \in S /\ s <= e /\ e + 1 \notin S /\ s .. e \subseteq S
          /\ t \in Starts(S) /\ s < t /\ \A q \in Starts(S) : q < t => q <= s
      BY <1>1, <1>4, <2>1 DEF StartsFound
    <2>3. t \in S /\ t - 1 \notin S  BY <2>2 DEF Starts
    <2> HIDE DEF s, e, t
    <2>4. t \in Nat /\ e \in Nat /\ s \in Nat  BY <1>2, <2>2, <2>3
    <2>5. ~(t <= e)
      <3> SUFFICES ASSUME t <= e PROVE FALSE  OBVIOUS
      <3>1. t - 1 \in s .. e  BY <2>2, <2>4
      <3> QED  BY <2>2, <2>3, <3>1
    <2>6. t # e + 1  BY <2>2, <2>3
    <2>7. ASSUME NEW q \in S, q > e PROVE t <= q
      <3>1. q # e + 1 /\ q \in Nat  BY <1>2, <2>2
      <3>2. e + 1 < q /\ e + 1 \in Int  BY <2>4, <2>7, <3>1
      <3>3. PICK p \in Starts(S) : e + 1 < p /\ p <= q  BY <1>3, <2>2, <3>2
      <3>4. p \in Nat  BY <1>2, <3>3 DEF Starts
      <3>5. ~(p < t)  BY <2>2, <2>4, <3>3, <3>4
      <3> QED  BY <2>4, <3>1, <3>3, <3>4, <3>5
    <2>8. e + 1 < t  BY <2>4, <2>5, <2>6
    <2> QED  BY <2>7, <2>8 DEF e, t
  <1> QED  BY <1>4, <1>5, <1>6 DEF RunsFound

\* A byte is part of a comment as its definition says.
LEMMA CommentedIs ==
  ASSUME NEW bytes \in Seq(0 .. 255), NEW n \in 2 .. Len(bytes)
  PROVE  n \in Commented(bytes) <=>
           n > 2 /\ (bytes[n] = HASH \/ (n - 1 \in Commented(bytes) /\ bytes[n-1] # NEWLINE))
  <1> DEFINE L == Len(bytes)
             In(f, i) == i > 2 /\ (bytes[i] = HASH \/ (f[i-1] /\ bytes[i-1] # NEWLINE))
             Step(f) == [i \in 2 .. L |-> In(f, i)]
             comment == CHOOSE f : f = Step(f)
             K == {k \in Nat : \E g \in [2 .. k -> BOOLEAN] : \A i \in 2 .. k : g[i] <=> In(g, i)}
  <1>1. L \in Nat /\ 2 \in Int  OBVIOUS
  <1>2. Commented(bytes) = {i \in 2 .. L : comment[i]}  BY DEF Commented
  <1> HIDE DEF comment
  <1>3. 0 \in K
    <2>1. [i \in 2 .. 0 |-> TRUE] \in [2 .. 0 -> BOOLEAN] /\ 2 .. 0 = {}  OBVIOUS
    <2> QED  BY <2>1
  <1>4. ASSUME NEW k \in Nat, k \in K  PROVE k + 1 \in K
    <2>1. PICK g \in [2 .. k -> BOOLEAN] : \A i \in 2 .. k : g[i] <=> In(g, i)  BY <1>4
    <2> DEFINE h == [i \in 2 .. k + 1 |-> IF i = k + 1 THEN In(g, k + 1) ELSE g[i]]
    <2>2. h \in [2 .. k + 1 -> BOOLEAN]
      <3>1. ASSUME NEW i \in 2 .. k + 1, i # k + 1 PROVE i \in 2 .. k  BY <3>1
      <3>2. In(g, k + 1) \in BOOLEAN  OBVIOUS
      <3> HIDE DEF In
      <3> QED  BY <3>1, <3>2, Zenon
    <2>3. /\ k + 1 \in 2 .. k + 1 => h[k + 1] = In(g, k + 1)
          /\ \A i \in 2 .. k : h[i] = g[i]
      <3>1. \A i \in 2 .. k : i \in 2 .. k + 1 /\ i # k + 1  OBVIOUS
      <3> HIDE DEF In
      <3> QED  BY <3>1, Zenon
    <2> HIDE DEF h
    <2>4. ASSUME NEW i \in 2 .. k + 1  PROVE In(h, i) <=> In(g, i)
      <3>1. i > 2 => i - 1 \in 2 .. k  OBVIOUS
      <3>2. i > 2 => h[i - 1] = g[i - 1]  BY <2>3, <3>1, Zenon
      <3> QED  BY <3>2, Zenon
    <2>5. ASSUME NEW i \in 2 .. k + 1  PROVE h[i] <=> In(h, i)
      <3>1. i = k + 1 \/ i \in 2 .. k  OBVIOUS
      <3> HIDE DEF In
      <3> QED  BY <2>1, <2>3, <2>4, <3>1, Zenon
    <2> QED  BY <2>2, <2>5
  <1>5. Nat \subseteq K
    <2> HIDE DEF K
    <2> QED  BY <1>3, <1>4, SetInduction
  <1>6. PICK g \in [2 .. L -> BOOLEAN] : \A i \in 2 .. L : g[i] <=> In(g, i)
    <2>1. L \in K
      <3> HIDE DEF K, L
      <3> QED  BY <1>1, <1>5
    <2> QED  BY <2>1
  <1>7. g = Step(g)
    <2>1. \A i \in 2 .. L : g[i] \in BOOLEAN /\ In(g, i) \in BOOLEAN  OBVIOUS
    <2>2. \A i \in 2 .. L : g[i] = In(g, i)
      <3> HIDE DEF In
      <3> QED  BY <1>6, <2>1, Zenon
    <2>3. g = [i \in 2 .. L |-> g[i]]  OBVIOUS
    <2> HIDE DEF In
    <2> QED  BY <2>2, <2>3, Zenon
  <1>8. comment = Step(comment)  BY <1>7, Zenon DEF comment
  <1>9. comment[n] = In(comment, n)
    <2> HIDE DEF In
    <2> QED  BY <1>8, Zenon
  <1>10. /\ n \in Commented(bytes) <=> comment[n]
         /\ n > 2 => (n - 1 \in Commented(bytes) <=> comment[n-1])
    <2>1. n > 2 => n - 1 \in 2 .. L  OBVIOUS
    <2> QED  BY <1>2, <2>1, Zenon
  <1> QED  BY <1>9, <1>10, Zenon

\* A number is read digit by digit.
LEMMA NumberIs ==
  ASSUME NEW bytes \in Seq(0 .. 255), NEW first \in Nat \ {0}, NEW last \in Nat, first <= last, last <= Len(bytes)
  PROVE  /\ Number(bytes, first, last)[first - 1] = 0
         /\ \A p \in first .. last :
              /\ Number(bytes, first, last)[p] = 10 * Number(bytes, first, last)[p-1] + bytes[p] - ZERO
              /\ Number(bytes, first, last)[p] \in Int
  <1> DEFINE Up(f, p) == IF p < first THEN 0 ELSE 10 * f[p-1] + bytes[p] - ZERO
             Step(f) == [p \in first - 1 .. last |-> Up(f, p)]
             number == CHOOSE f : f = Step(f)
             K == {k \in Nat : first + k - 1 <= last =>
                     \E g \in [first - 1 .. first + k - 1 -> Int] : \A p \in first - 1 .. first + k - 1 : g[p] = Up(g, p)}
  <1>0. \A p \in 1 .. Len(bytes) : bytes[p] \in Int  BY BytesAre
  <1>1. Number(bytes, first, last) = number  BY Zenon DEF Number
  <1> HIDE DEF number
  <1>2. 0 \in K
    <2> DEFINE g == [p \in first - 1 .. first + 0 - 1 |-> 0]
    <2>1. g \in [first - 1 .. first + 0 - 1 -> Int]  OBVIOUS
    <2>2. \A p \in first - 1 .. first + 0 - 1 : p < first /\ g[p] = 0  OBVIOUS
    <2> QED  BY <2>1, <2>2
  <1>3. ASSUME NEW k \in Nat, k \in K  PROVE k + 1 \in K
    <2> DEFINE m == first + k - 1
    <2> SUFFICES ASSUME first + (k + 1) - 1 <= last
                 PROVE  \E g \in [first - 1 .. first + (k + 1) - 1 -> Int] :
                          \A p \in first - 1 .. first + (k + 1) - 1 : g[p] = Up(g, p)
      OBVIOUS
    <2>1. m \in Int /\ first + (k + 1) - 1 = m + 1 /\ m >= first - 1 /\ m + 1 <= last /\ m <= last  OBVIOUS
    <2>2. PICK g \in [first - 1 .. m -> Int] : \A p \in first - 1 .. m : g[p] = Up(g, p)
      BY <1>3, <2>1
    <2> HIDE DEF m
    <2> DEFINE h == [p \in first - 1 .. m + 1 |-> IF p = m + 1 THEN Up(g, m + 1) ELSE g[p]]
    <2>3. Up(g, m + 1) \in Int
      <3>1. m \in first - 1 .. m /\ (m + 1) - 1 = m  BY <2>1
      <3>2. g[m] \in Int  BY <3>1
      <3>3. bytes[m + 1] \in Int
        <4>1. m + 1 \in 1 .. Len(bytes)  BY <2>1
        <4> QED  BY <1>0, <4>1
      <3> QED  BY <3>1, <3>2, <3>3 DEF ZERO
    <2>4. h \in [first - 1 .. m + 1 -> Int]
      <3>1. \A p \in first - 1 .. m + 1 : p # m + 1 => p \in first - 1 .. m  BY <2>1
      <3> HIDE DEF Up
      <3> QED  BY <2>3, <3>1
    <2>5. h[m + 1] = Up(g, m + 1) /\ \A p \in first - 1 .. m : h[p] = g[p]
      <3>1. m + 1 \in first - 1 .. m + 1 /\ \A p \in first - 1 .. m : p \in first - 1 .. m + 1 /\ p # m + 1
        BY <2>1
      <3> HIDE DEF Up
      <3> QED  BY <3>1, Zenon
    <2> HIDE DEF h
    <2>6. ASSUME NEW p \in first - 1 .. m + 1 PROVE Up(h, p) = Up(g, p)
      <3>1. p < first \/ p - 1 \in first - 1 .. m  BY <2>1
      <3>2. p < first \/ h[p-1] = g[p-1]  BY <2>5, <3>1
      <3> QED  BY <3>2
    <2>7. ASSUME NEW p \in first - 1 .. m + 1 PROVE h[p] = Up(h, p)
      <3>1. p = m + 1 \/ p \in first - 1 .. m  BY <2>1
      <3>2. p \in first - 1 .. m => h[p] = Up(g, p)
        <4> HIDE DEF Up
        <4> QED  BY <2>2, <2>5
      <3> HIDE DEF Up
      <3> QED  BY <2>5, <2>6, <3>1, <3>2
    <2> HIDE DEF Up
    <2> QED  BY <2>1, <2>4, <2>7
  <1>4. Nat \subseteq K
    <2> HIDE DEF K
    <2> QED  BY <1>2, <1>3, SetInduction
  <1>5. PICK g \in [first - 1 .. last -> Int] : \A p \in first - 1 .. last : g[p] = Up(g, p)
    <2>1. last - first + 1 \in Nat /\ first + (last - first + 1) - 1 = last  OBVIOUS
    <2>2. last - first + 1 \in K
      <3> HIDE DEF K
      <3> QED  BY <1>4, <2>1
    <2> HIDE DEF Up
    <2> QED  BY <2>1, <2>2
  <1>6. g = Step(g)
    <2>1. g = [p \in first - 1 .. last |-> g[p]]  OBVIOUS
    <2> HIDE DEF Up
    <2> QED  BY <1>5, <2>1
  <1>7. number = Step(number)  BY <1>6, Zenon DEF number
  <1>8. \A p \in first - 1 .. last : number[p] = Up(number, p)
    <2> HIDE DEF Up
    <2> QED  BY <1>7, Zenon
  <1>9. number[first - 1] = 0
    <2>1. first - 1 \in first - 1 .. last /\ first - 1 < first  OBVIOUS
    <2> QED  BY <1>8, <2>1
  <1>10. \A p \in first .. last : number[p] = 10 * number[p-1] + bytes[p] - ZERO
    <2>1. \A p \in first .. last : p \in first - 1 .. last /\ ~(p < first)  OBVIOUS
    <2> QED  BY <1>8, <2>1
  <1>11. \A p \in first .. last : number[p] \in Int
    <2> DEFINE J == {k \in Nat : first + k - 1 <= last => number[first + k - 1] \in Int}
    <2>1. 0 \in J  BY <1>9
    <2>2. ASSUME NEW k \in Nat, k \in J PROVE k + 1 \in J
      <3> SUFFICES ASSUME first + (k + 1) - 1 <= last PROVE number[first + (k + 1) - 1] \in Int  OBVIOUS
      <3>1. first + k \in first .. last /\ first + (k + 1) - 1 = first + k /\ (first + k) - 1 = first + k - 1
            /\ first + k - 1 <= last /\ first + k \in 1 .. Len(bytes)
        OBVIOUS
      <3>2. number[first + k - 1] \in Int  BY <2>2, <3>1
      <3>3. number[first + k] = 10 * number[first + k - 1] + bytes[first + k] - ZERO  BY <1>10, <3>1
      <3>4. bytes[first + k] \in Int  BY <1>0, <3>1
      <3> DEFINE x == number[first + k - 1]
                 b == bytes[first + k]
      <3>5. number[first + k] = 10 * x + b - ZERO /\ x \in Int /\ b \in Int  BY <3>2, <3>3, <3>4
      <3> HIDE DEF x, b
      <3>6. 10 * x + b - ZERO \in Int  BY <3>5 DEF ZERO
      <3> QED  BY <3>1, <3>5, <3>6
    <2>3. Nat \subseteq J
      <3> HIDE DEF J
      <3> QED  BY <2>1, <2>2, SetInduction
    <2> TAKE p \in first .. last
    <2>4. p - first + 1 \in Nat /\ first + (p - first + 1) - 1 = p /\ p <= last  OBVIOUS
    <2>5. p - first + 1 \in J
      <3> HIDE DEF J
      <3> QED  BY <2>3, <2>4
    <2> QED  BY <2>4, <2>5
  <1> QED  BY <1>1, <1>9, <1>10, <1>11

-----------------------------------------------------------------------------
(* Where read_pnm() is in a well-formed header. *)

\* The place of the blank behind the k-th number, or of the type.
Behind(S, k) == IF k = 0 THEN 2 ELSE End(S, k) + 1

Layout(bytes, S) ==
  /\ S \subseteq 3 .. Len(bytes) /\ Len(bytes) \in Nat
  /\ \A p \in 3 .. Len(bytes) : p \in S <=> p \notin Commented(bytes) /\ bytes[p] \notin Blanks
  /\ \A k \in 0 .. 3 : Behind(S, k) \in 2 .. Len(bytes) /\ Behind(S, k) \notin Commented(bytes)
  /\ \A k \in 0 .. 2 :
       /\ Start(S, k + 1) \in S /\ End(S, k + 1) \in S /\ Start(S, k + 1) <= End(S, k + 1)
       /\ Start(S, k + 1) .. End(S, k + 1) \subseteq S
       /\ Behind(S, k) < Start(S, k + 1) /\ \A q \in S : q > Behind(S, k) => Start(S, k + 1) <= q
       /\ Behind(S, k + 1) = End(S, k + 1) + 1 /\ bytes[End(S, k + 1) + 1] \in Blanks

LEMMA LaidOut ==
  ASSUME NEW bytes \in Seq(0 .. 255), NEW S, S = Significant(bytes), WellFormed(bytes, S)
  PROVE  Layout(bytes, S)
  <1>1. Len(bytes) \in Nat /\ S \subseteq 3 .. Len(bytes) /\ Len(bytes) > 2
    <2>1. Len(bytes) \in Nat  BY ONLY bytes \in Seq(0 .. 255), LenProperties
    <2>2. S \subseteq 3 .. Len(bytes)  BY DEF Significant
    <2>3. Len(bytes) > 2  BY <2>1 DEF WellFormed
    <2> QED  BY ONLY <2>1, <2>2, <2>3
  <1>2. \A p \in 3 .. Len(bytes) : p \in S <=> p \notin Commented(bytes) /\ bytes[p] \notin Blanks
    BY DEF Significant
  <1>3. RunsFound(S)  BY <1>1, ThreeRuns DEF WellFormed
  <1>4. \A n \in 1 .. 3 : End(S, n) + 1 <= Len(bytes) /\ bytes[End(S, n) + 1] \in Blanks  BY DEF WellFormed
  <1>5. \A q \in S : q \in Nat /\ 3 <= q /\ q <= Len(bytes)  BY <1>1
  <1>6. ASSUME NEW k \in 0 .. 3 PROVE Behind(S, k) \in 2 .. Len(bytes) /\ Behind(S, k) \notin Commented(bytes)
    <2>1. CASE k = 0
      <3>1. 2 \in 2 .. Len(bytes)  BY <1>1
      <3>2. ~(2 > 2)  OBVIOUS
      <3>3. 2 \notin Commented(bytes)  BY <3>1, <3>2, CommentedIs
      <3> QED  BY <2>1, <3>1, <3>3 DEF Behind
    <2>2. CASE k # 0
      <3> DEFINE e == End(S, k)
      <3>1. k \in 1 .. 3  BY <2>2
      <3>2. e \in S /\ e + 1 <= Len(bytes) /\ bytes[e + 1] \in Blanks  BY <1>3, <1>4, <3>1 DEF RunsFound
      <3> HIDE DEF e
      <3>3. e \in Nat /\ e >= 3 /\ e + 1 \in 2 .. Len(bytes) /\ (e + 1) - 1 = e /\ e \in 3 .. Len(bytes)
        BY <1>1, <1>5, <3>2
      <3>4. bytes[e + 1] # HASH  BY <3>2 DEF Blanks, HASH
      <3>5. e \notin Commented(bytes)  BY <1>2, <3>2, <3>3
      <3>6. e + 1 \notin Commented(bytes)  BY <3>3, <3>4, <3>5, CommentedIs
      <3> QED  BY <2>2, <3>3, <3>6 DEF Behind, e
    <2> QED  BY <2>1, <2>2
  <1>7. ASSUME NEW k \in 0 .. 2
        PROVE  /\ Start(S, k + 1) \in S /\ End(S, k + 1) \in S /\ Start(S, k + 1) <= End(S, k + 1)
               /\ Start(S, k + 1) .. End(S, k + 1) \subseteq S
               /\ Behind(S, k) < Start(S, k + 1) /\ \A q \in S : q > Behind(S, k) => Start(S, k + 1) <= q
               /\ Behind(S, k + 1) = End(S, k + 1) + 1 /\ bytes[End(S, k + 1) + 1] \in Blanks
    <2>1. k + 1 \in 1 .. 3 /\ k + 1 # 0 /\ (k # 0 => k \in 1 .. 2)  OBVIOUS
    <2>2. /\ Start(S, k + 1) \in S /\ End(S, k + 1) \in S /\ Start(S, k + 1) <= End(S, k + 1)
          /\ Start(S, k + 1) .. End(S, k + 1) \subseteq S
          /\ bytes[End(S, k + 1) + 1] \in Blanks
      BY <1>3, <1>4, <2>1 DEF RunsFound
    <2>3. Behind(S, k + 1) = End(S, k + 1) + 1  BY <2>1 DEF Behind
    <2>4. Behind(S, k) < Start(S, k + 1) /\ \A q \in S : q > Behind(S, k) => Start(S, k + 1) <= q
      <3>1. CASE k = 0
        <4>1. Start(S, 1) >= 3 /\ Start(S, 1) \in Nat  BY <1>5, <2>2, <3>1
        <4>2. \A q \in S : Start(S, 1) <= q  BY <1>3 DEF RunsFound
        <4>3. Behind(S, k) = 2 /\ k + 1 = 1  BY <3>1 DEF Behind
        <4> QED  BY <4>1, <4>2, <4>3
      <3>2. CASE k # 0
        <4>1. Behind(S, k) = End(S, k) + 1  BY <3>2 DEF Behind
        <4>2. End(S, k) \in S /\ End(S, k) \in Nat  BY <1>3, <1>5, <2>1, <3>2 DEF RunsFound
        <4>3. End(S, k) + 1 < Start(S, k + 1) /\ \A q \in S : q > End(S, k) => Start(S, k + 1) <= q
          BY <1>3, <2>1, <3>2 DEF RunsFound
        <4> QED  BY <1>5, <4>1, <4>2, <4>3
      <3> QED  BY <3>1, <3>2
    <2> QED  BY <2>2, <2>3, <2>4
  <1> QED  BY <1>1, <1>2, <1>6, <1>7 DEF Layout

Reading(S) ==
  /\ status \in 0 .. 3 /\ size = [n \in 1 .. status |-> NumberAt(file, S, n)] /\ at \in Nat
  /\ pnm_pc \in {"magic", "type", "next", "eat", "comment", "value", "maxval", "done"}
  /\ IF pnm_pc \in {"magic", "type"} THEN status = 0 ELSE ncomp = IF file[2] = 54 THEN 3 ELSE 1
  /\ pnm_pc # "value" => val = 0
  /\ pnm_pc = "magic" => at = 0
  /\ pnm_pc = "type" => at = 1
  /\ pnm_pc \in {"next", "eat", "comment", "value"} => status < 3
  /\ pnm_pc \in {"maxval", "done"} => status = 3
  /\ pnm_pc \in {"next", "maxval", "done"} => at = Behind(S, status)
  /\ pnm_pc \in {"eat", "comment"} => Behind(S, status) < at /\ at <= Start(S, status + 1) /\ ch = file[at]
  /\ pnm_pc = "eat" => (at \in Commented(file) <=> ch = HASH)
  /\ pnm_pc = "comment" => at \in Commented(file)
  /\ pnm_pc = "value" =>
       /\ Start(S, status + 1) < at /\ at <= End(S, status + 1) + 1 /\ ch = file[at]
       /\ val = Number(file, Start(S, status + 1), End(S, status + 1))[at - 1]

\* Every step of read_pnm() goes on in a well-formed header.
LEMMA ReadingStep ==
  ASSUME file \in Seq(0 .. 255), NEW S, S = Significant(file), WellFormed(file, S), Reading(S), ReadPnm
  PROVE  Reading(S)'
  <1> DEFINE first == Start(S, status + 1)
             last == End(S, status + 1)
  <1>1. /\ Layout(file, S) /\ file' = file /\ Len(file) \in Nat /\ Len(file) > 2 /\ at \in Nat /\ status \in 0 .. 3
        /\ \A p \in 1 .. Len(file) : file[p] \in 0 .. 255 /\ file[p] # EOF
    <2>1. file' = file
      BY DEF ReadPnm, ReadMagic, ReadType, NextNumber, EatBlank, StartComment, Comment, Digit, EndNumber, CheckMaxval
    <2>2. \A p \in 1 .. Len(file) : file[p] \in 0 .. 255 /\ file[p] # EOF  BY BytesAre
    <2>3. Layout(file, S)  BY LaidOut
    <2>4. Len(file) > 2  BY DEF WellFormed
    <2>5. at \in Nat /\ status \in 0 .. 3  BY DEF Reading
    <2>6. Len(file) \in Nat  OBVIOUS
    <2> QED  BY <2>1, <2>2, <2>3, <2>4, <2>5, <2>6
  <1>2. status < 3 =>
          /\ first \in S /\ last \in S /\ first <= last /\ first .. last \subseteq S
          /\ Behind(S, status) < first /\ \A q \in S : q > Behind(S, status) => first <= q
          /\ Behind(S, status + 1) = last + 1 /\ file[last + 1] \in Blanks
          /\ first \in Nat /\ last \in Nat /\ first >= 3 /\ last + 1 <= Len(file)
          /\ Behind(S, status) \in Nat /\ Behind(S, status) >= 2 /\ Behind(S, status) \notin Commented(file)
    <2> SUFFICES ASSUME status < 3
                 PROVE  /\ first \in S /\ last \in S /\ first <= last /\ first .. last \subseteq S
                        /\ Behind(S, status) < first /\ \A q \in S : q > Behind(S, status) => first <= q
                        /\ Behind(S, status + 1) = last + 1 /\ file[last + 1] \in Blanks
                        /\ first \in Nat /\ last \in Nat /\ first >= 3 /\ last + 1 <= Len(file)
                        /\ Behind(S, status) \in Nat /\ Behind(S, status) >= 2
                        /\ Behind(S, status) \notin Commented(file)
      OBVIOUS
    <2>1. status \in 0 .. 2 /\ status \in 0 .. 3 /\ status + 1 \in 0 .. 3  BY <1>1
    <2>2. /\ first \in S /\ last \in S /\ first <= last /\ first .. last \subseteq S
          /\ Behind(S, status) < first /\ \A q \in S : q > Behind(S, status) => first <= q
          /\ Behind(S, status + 1) = last + 1 /\ file[last + 1] \in Blanks
      BY <1>1, <2>1 DEF Layout
    <2>3. Behind(S, status) \in 2 .. Len(file) /\ Behind(S, status + 1) \in 2 .. Len(file)
          /\ Behind(S, status) \notin Commented(file) /\ S \subseteq 3 .. Len(file)
      BY <1>1, <2>1 DEF Layout
    <2>4. first \in 3 .. Len(file) /\ last \in 3 .. Len(file)  BY <2>2, <2>3
    <2>5. last + 1 <= Len(file)  BY <2>2, <2>3
    <2> HIDE DEF first, last
    <2> QED  BY <1>1, <2>2, <2>3, <2>4, <2>5
  <1> HIDE DEF first, last
  \* The next byte is there.
  <1>3. ASSUME at < Len(file), fgetc PROVE ch' = file[at + 1] /\ at' = at + 1  BY <1>3 DEF fgetc
  <1>4. CASE ReadMagic
    <2>1. at = 0 /\ status = 0 /\ val = 0 /\ size = [n \in 1 .. 0 |-> NumberAt(file, S, n)]
      BY <1>4 DEF ReadMagic, Reading
    <2>2. ch' = 80 /\ at' = 1
      <3>1. at < Len(file)  BY <1>1, <2>1
      <3> QED  BY <1>3, <1>4, <2>1, <3>1 DEF ReadMagic, WellFormed
    <2>3. pnm_pc' = "type" /\ UNCHANGED <<file, status, val, size, ncomp>>  BY <1>4, <2>2 DEF ReadMagic
    <2> QED  BY <2>1, <2>2, <2>3 DEF Reading
  <1>5. CASE ReadType
    <2>1. at = 1 /\ status = 0 /\ val = 0 /\ size = [n \in 1 .. 0 |-> NumberAt(file, S, n)]
      BY <1>5 DEF ReadType, Reading
    <2>2. ch' = file[2] /\ at' = 2 /\ file[2] \in {53, 54}
      <3>1. at < Len(file) /\ at + 1 = 2  BY <1>1, <2>1
      <3> QED  BY <1>3, <1>5, <3>1 DEF ReadType, WellFormed
    <2>3. pnm_pc' = "next" /\ UNCHANGED <<file, status, val, size>> /\ ncomp' = IF file[2] = 54 THEN 3 ELSE 1
      <3>1. CASE file[2] = 53  BY <1>5, <2>2, <3>1 DEF ReadType
      <3>2. CASE file[2] = 54  BY <1>5, <2>2, <3>2 DEF ReadType
      <3> QED  BY <2>2, <3>1, <3>2
    <2> QED  BY <2>1, <2>2, <2>3 DEF Reading, Behind
  <1>6. CASE NextNumber
    <2>1. /\ status < 3 /\ val = 0 /\ at = Behind(S, status) /\ pnm_pc = "next"
          /\ ncomp = IF file[2] = 54 THEN 3 ELSE 1
      BY <1>6 DEF NextNumber, Reading
    <2>2. ch' = file[at + 1] /\ at' = at + 1
      <3>1. at < Len(file)  BY <1>1, <1>2, <2>1
      <3> QED  BY <1>3, <1>6, <3>1 DEF NextNumber
    <2>3. at + 1 \in 2 .. Len(file) /\ at + 1 > 2 /\ (at + 1) - 1 = at /\ at \notin Commented(file) /\ at + 1 <= first
      BY <1>1, <1>2, <2>1
    <2>4. at + 1 \in Commented(file) <=> file[at + 1] = HASH  BY <2>3, CommentedIs
    <2>5. pnm_pc' = "eat" /\ UNCHANGED <<file, status, val, size, ncomp>>  BY <1>6 DEF NextNumber
    <2>6. Behind(S, status) < at + 1  BY <1>1, <2>1
    <2> QED  BY <2>1, <2>2, <2>3, <2>4, <2>5, <2>6, <1>1 DEF Reading, first
  \* In front of the next number.
  <1>7. ASSUME pnm_pc \in {"eat", "comment"}
        PROVE  /\ status < 3 /\ val = 0 /\ Behind(S, status) < at /\ at <= first /\ ch = file[at] /\ at \in 3 .. Len(file)
               /\ ch # EOF /\ ncomp = IF file[2] = 54 THEN 3 ELSE 1
    <2>1. /\ status < 3 /\ val = 0 /\ Behind(S, status) < at /\ at <= first /\ ch = file[at]
          /\ ncomp = IF file[2] = 54 THEN 3 ELSE 1
      BY <1>7 DEF Reading, first
    <2>2. at \in 3 .. Len(file) /\ at \in 1 .. Len(file)  BY <1>1, <1>2, <2>1
    <2> QED  BY <1>1, <2>1, <2>2
  <1>8. \A p \in 3 .. Len(file) : p \in S <=> p \notin Commented(file) /\ file[p] \notin Blanks  BY <1>1 DEF Layout
  \* A byte that belongs to no number has another one behind it.
  <1>9. ASSUME pnm_pc \in {"eat", "comment"}, at \notin S, fgetc
        PROVE  /\ ch' = file[at + 1] /\ at' = at + 1 /\ at + 1 <= first /\ Behind(S, status) < at + 1
               /\ at + 1 \in Commented(file) <=> file[at + 1] = HASH \/ (at \in Commented(file) /\ file[at] # NEWLINE)
    <2>1. at \in 3 .. Len(file) /\ at <= first /\ first \in S /\ first \in Nat /\ last \in Nat /\ last + 1 <= Len(file)
          /\ first <= last /\ Behind(S, status) < at /\ Behind(S, status) \in Nat
      BY <1>2, <1>7, <1>9
    <2>2. at # first  BY <1>9, <2>1
    <2>3. at < Len(file) /\ at + 1 <= first /\ Behind(S, status) < at + 1  BY <1>1, <2>1, <2>2
    <2>4. at + 1 \in 2 .. Len(file) /\ at + 1 > 2 /\ (at + 1) - 1 = at  BY <1>1, <2>1, <2>3
    <2>5. at + 1 \in Commented(file) <=> file[at + 1] = HASH \/ (at \in Commented(file) /\ file[at] # NEWLINE)
      BY <2>4, CommentedIs
    <2> QED  BY <1>3, <1>9, <2>3, <2>5
  <1>10. CASE EatBlank
    <2>1. pnm_pc = "eat" /\ ch \in Blanks /\ fgetc /\ UNCHANGED <<file, status, val, size, ncomp, pnm_pc>>
      BY <1>10 DEF EatBlank
    <2>2. at \notin S  BY <1>7, <1>8, <2>1
    <2>3. /\ ch' = file[at + 1] /\ at' = at + 1 /\ at + 1 <= first /\ Behind(S, status) < at + 1
          /\ at + 1 \in Commented(file) <=> file[at + 1] = HASH \/ (at \in Commented(file) /\ file[at] # NEWLINE)
      BY <1>9, <2>1, <2>2
    <2>4. at \notin Commented(file)
      <3>1. ch # HASH  BY <2>1 DEF Blanks, HASH
      <3> QED  BY <2>1, <3>1 DEF Reading
    <2>5. at + 1 \in Commented(file) <=> file[at + 1] = HASH  BY <2>3, <2>4
    <2> QED  BY <1>1, <1>7, <2>1, <2>3, <2>5 DEF Reading, first
  <1>11. CASE StartComment
    <2>1. pnm_pc = "eat" /\ ch = HASH /\ pnm_pc' = "comment" /\ UNCHANGED <<file, at, ch, status, val, size, ncomp>>
      BY <1>11 DEF StartComment
    <2>2. at \in Commented(file)  BY <2>1 DEF Reading
    <2> QED  BY <1>1, <1>7, <2>1, <2>2 DEF Reading, first
  <1>12. CASE Comment
    <2>1. pnm_pc = "comment" /\ fgetc /\ UNCHANGED <<file, status, val, size, ncomp>>  BY <1>12 DEF Comment
    <2>2. at \in Commented(file)  BY <2>1 DEF Reading
    <2>3. at \notin S  BY <1>7, <1>8, <2>1, <2>2
    <2>4. /\ ch' = file[at + 1] /\ at' = at + 1 /\ at + 1 <= first /\ Behind(S, status) < at + 1
          /\ at + 1 \in Commented(file) <=> file[at + 1] = HASH \/ (at \in Commented(file) /\ file[at] # NEWLINE)
      BY <1>9, <2>1, <2>3
    <2>5. CASE ch = NEWLINE
      <3>1. pnm_pc' = "eat"  BY <1>12, <2>5 DEF Comment
      <3>2. at + 1 \in Commented(file) <=> file[at + 1] = HASH  BY <1>7, <2>1, <2>4, <2>5
      <3> QED  BY <1>1, <1>7, <2>1, <2>4, <3>1, <3>2 DEF Reading, first
    <2>6. CASE ch # NEWLINE
      <3>1. pnm_pc' = "comment"  BY <1>7, <1>12, <2>1, <2>6 DEF Comment
      <3>2. at + 1 \in Commented(file)  BY <1>7, <2>1, <2>2, <2>4, <2>6
      <3> QED  BY <1>1, <1>7, <2>1, <2>4, <3>1, <3>2 DEF Reading, first
    <2> QED  BY <2>5, <2>6
  \* In a number, and at the blank behind it.
  <1>13. ASSUME pnm_pc = "value"
         PROVE  /\ status < 3 /\ first < at /\ at <= last + 1 /\ ch = file[at] /\ ch # EOF
                /\ at = last + 1 \/ at \in first .. last
                /\ val = Number(file, first, last)[at - 1] /\ ncomp = IF file[2] = 54 THEN 3 ELSE 1
    <2>1. /\ status < 3 /\ first < at /\ at <= last + 1 /\ ch = file[at]
          /\ val = Number(file, first, last)[at - 1] /\ ncomp = IF file[2] = 54 THEN 3 ELSE 1
      BY <1>13 DEF Reading, first, last
    <2>2. at \in 1 .. Len(file) /\ (at = last + 1 \/ at \in first .. last)  BY <1>1, <1>2, <2>1
    <2> QED  BY <1>1, <2>1, <2>2
  <1>14. ASSUME status < 3
         PROVE  /\ Number(file, first, last)[first - 1] = 0
                /\ \A p \in first .. last : Number(file, first, last)[p] = 10 * Number(file, first, last)[p-1] + file[p] - ZERO
    <2>1. first \in Nat \ {0} /\ last \in Nat /\ first <= last /\ last <= Len(file)  BY <1>1, <1>2, <1>14
    <2> QED  BY <2>1, NumberIs
  <1>15. CASE Digit
    <2>1. /\ \/ pnm_pc = "eat" /\ ch # HASH
             \/ pnm_pc = "value"
          /\ ch \notin Blanks /\ val' = 10 * val + ch - ZERO /\ fgetc /\ pnm_pc' = "value"
          /\ UNCHANGED <<file, status, size, ncomp>>
      BY <1>15 DEF Digit
    <2>2. status < 3 /\ ch = file[at] /\ ncomp = IF file[2] = 54 THEN 3 ELSE 1  BY <1>7, <1>13, <2>1
    <2>3. at \in first .. last /\ val = Number(file, first, last)[at - 1]
      <3>1. CASE pnm_pc = "eat"
        <4>1. at \notin Commented(file)  BY <2>1, <3>1 DEF Reading
        <4>2. at \in S  BY <1>7, <1>8, <2>1, <3>1, <4>1
        <4>3. at = first  BY <1>1, <1>2, <1>7, <3>1, <4>2
        <4> QED  BY <1>2, <1>7, <1>14, <2>2, <3>1, <4>3
      <3>2. CASE pnm_pc = "value"
        <4>1. at # last + 1  BY <1>2, <2>1, <2>2
        <4> QED  BY <1>13, <3>2, <4>1
      <3> QED  BY <2>1, <3>1, <3>2
    <2>4. val' = Number(file, first, last)[at]  BY <1>14, <2>1, <2>2, <2>3
    <2>5. ch' = file[at + 1] /\ at' = at + 1
      <3>1. at < Len(file)  BY <1>1, <1>2, <2>2, <2>3
      <3> QED  BY <1>3, <2>1, <3>1
    <2>6. first < at + 1 /\ at + 1 <= last + 1 /\ (at + 1) - 1 = at /\ at + 1 \in Nat  BY <1>1, <1>2, <2>2, <2>3
    <2> QED  BY <1>1, <2>1, <2>2, <2>4, <2>5, <2>6 DEF Reading, first, last
  <1>16. CASE EndNumber
    <2>1. /\ \/ pnm_pc = "eat" /\ ch = EOF
             \/ pnm_pc = "value" /\ ch \in Blanks \cup {EOF}
          /\ size' = Append(size, val) /\ val' = 0 /\ status' = status + 1
          /\ pnm_pc' = IF status + 1 = 3 THEN "maxval" ELSE "next"
          /\ UNCHANGED <<file, at, ch, ncomp>>
      BY <1>16 DEF EndNumber
    <2>2. pnm_pc = "value" /\ ch \in Blanks
      <3>1. pnm_pc \in {"eat", "value"} => ch # EOF  BY <1>7, <1>13
      <3> QED  BY <2>1, <3>1
    <2>3. status < 3 /\ at = last + 1
      <3>1. ASSUME at \in first .. last PROVE FALSE
        <4>1. at \in S /\ at \in 3 .. Len(file)  BY <1>1, <1>2, <1>13, <2>2, <3>1
        <4> QED  BY <1>8, <1>13, <2>2, <4>1
      <3> QED  BY <1>13, <2>2, <3>1
    <2>4. val = NumberAt(file, S, status + 1)
      <3>1. val = Number(file, first, last)[last]
        <4>1. (last + 1) - 1 = last  BY <1>2, <2>3
        <4> QED  BY <1>13, <2>2, <2>3, <4>1
      <3> QED  BY <3>1 DEF NumberAt, first, last
    <2>5. size' = [n \in 1 .. status + 1 |-> NumberAt(file, S, n)]
      <3> DEFINE g == [n \in 1 .. status + 1 |-> NumberAt(file, S, n)]
                 R == {NumberAt(file, S, n) : n \in 1 .. status + 1}
      <3>1. g \in [1 .. status + 1 -> R]  OBVIOUS
      <3>2. size = [n \in 1 .. status |-> g[n]]
        <4>1. size = [n \in 1 .. status |-> NumberAt(file, S, n)]  BY DEF Reading
        <4>2. \A n \in 1 .. status : n \in 1 .. status + 1  BY <1>1
        <4>3. \A n \in 1 .. status : g[n] = NumberAt(file, S, n)  BY <4>2
        <4> HIDE DEF g
        <4> QED  BY <4>1, <4>3
      <3>3. g[status + 1] = val  BY <1>1, <2>4
      <3> HIDE DEF g, R
      <3>4. status \in Nat  BY <1>1
      <3>5. Append(size, g[status + 1]) = g  BY <3>1, <3>2, <3>4, PrefixAndLast
      <3> QED  BY <2>1, <3>3, <3>5 DEF g
    <2>6. status + 1 \in 0 .. 3 /\ (status + 1 = 3 \/ status + 1 < 3)  BY <1>1, <2>3
    <2>7. at = Behind(S, status + 1)  BY <1>2, <2>3
    <2>8. ncomp = IF file[2] = 54 THEN 3 ELSE 1  BY <1>13, <2>2
    <2>9. CASE status + 1 = 3
      <3>1. pnm_pc' = "maxval"  BY <2>1, <2>9
      <3> QED  BY <1>1, <2>1, <2>5, <2>6, <2>7, <2>8, <2>9, <3>1 DEF Reading
    <2>10. CASE status + 1 < 3
      <3>1. pnm_pc' = "next"  BY <1>1, <2>1, <2>10
      <3> QED  BY <1>1, <2>1, <2>5, <2>6, <2>7, <2>8, <2>10, <3>1 DEF Reading
    <2> QED  BY <2>6, <2>9, <2>10
  <1>17. CASE CheckMaxval
    <2>1. /\ pnm_pc = "maxval" /\ pnm_pc' = IF size[3] > 255 THEN "failed" ELSE "done"
          /\ UNCHANGED <<file, at, ch, status, val, size, ncomp>>
      BY <1>17 DEF CheckMaxval
    <2>2. /\ status = 3 /\ size = [n \in 1 .. 3 |-> NumberAt(file, S, n)] /\ val = 0 /\ at = Behind(S, 3) /\ at \in Nat
          /\ ncomp = IF file[2] = 54 THEN 3 ELSE 1
      BY <2>1 DEF Reading
    <2>3. size[3] \in 0 .. 255
      <3>1. size[3] = NumberAt(file, S, 3)  BY <2>2
      <3> QED  BY <3>1 DEF WellFormed
    <2>4. pnm_pc' = "done"
      <3> DEFINE maxval == size[3]
      <3>1. maxval \in 0 .. 255  BY <2>3
      <3>2. pnm_pc' = IF maxval > 255 THEN "failed" ELSE "done"  BY <2>1
      <3> HIDE DEF maxval
      <3> QED  BY <3>1, <3>2
    <2> QED  BY <1>1, <2>1, <2>2, <2>4 DEF Reading
  <1> QED  BY <1>4, <1>5, <1>6, <1>10, <1>11, <1>12, <1>15, <1>16, <1>17 DEF ReadPnm

-----------------------------------------------------------------------------
(* The options, the header and the files together. *)

\* The invariant: every file is a sequence of bytes until the output is opened, and
\* once one is open, read_pnm() is where it should be in a well-formed one.
HeaderInv ==
  /\ main_pc = "args" => pnm_pc = "closed" /\ \A n \in DOMAIN disk : disk[n] \in Seq(0 .. 255)
  /\ file \in Seq(0 .. 255)
  /\ pnm_pc = "closed" => at = 0 /\ status = 0 /\ val = 0 /\ size = <<>>
  /\ pnm_pc # "closed" => \A S : S = Significant(file) /\ WellFormed(file, S) => Reading(S)

LEMMA HeaderInit == Init => HeaderInv
  <1> SUFFICES ASSUME Init PROVE HeaderInv  OBVIOUS
  <1>1. \A n \in DOMAIN disk : disk[n] \in Seq(0 .. 255)  BY JpencAssumption DEF Init
  <1>2. file = <<>> /\ at = 0 /\ status = 0 /\ val = 0 /\ size = <<>> /\ pnm_pc = "closed"  BY DEF Init, PnmInit
  <1>3. <<>> \in Seq(0 .. 255)  BY EmptySeq
  <1> QED  BY <1>1, <1>2, <1>3 DEF HeaderInv

\* The other parts of the program leave the file alone.
LEMMA FileKept ==
  ASSUME HeaderInv, UNCHANGED pnm_vars, main_pc' = "args" => main_pc = "args" /\ UNCHANGED disk
  PROVE  HeaderInv'
  <1>1. UNCHANGED <<file, at, ch, status, val, size, ncomp, pnm_pc>>  BY DEF pnm_vars
  <1>2. \A S : Reading(S) => Reading(S)'  BY <1>1 DEF Reading
  <1>3. ASSUME pnm_pc' # "closed", NEW S, S = Significant(file)', WellFormed(file, S)' PROVE Reading(S)'
    <2>1. S = Significant(file) /\ WellFormed(file, S)  BY <1>1, <1>3
    <2>2. Reading(S)  BY <1>1, <1>3, <2>1 DEF HeaderInv
    <2> QED  BY <1>2, <2>2
  <1>4. main_pc' = "args" => pnm_pc' = "closed" /\ \A n \in DOMAIN disk' : disk'[n] \in Seq(0 .. 255)
    BY <1>1 DEF HeaderInv
  <1>5. file' \in Seq(0 .. 255)  BY <1>1 DEF HeaderInv
  <1>6. pnm_pc' = "closed" => at' = 0 /\ status' = 0 /\ val' = 0 /\ size' = <<>>  BY <1>1 DEF HeaderInv
  <1> QED  BY <1>3, <1>4, <1>5, <1>6 DEF HeaderInv

LEMMA HeaderStep == ArgsInv /\ HeaderInv /\ [Next]_vars => HeaderInv'
  <1> SUFFICES ASSUME ArgsInv, HeaderInv, [Next]_vars PROVE HeaderInv'  OBVIOUS
  <1>1. CASE ReadArguments
    <2>1. UNCHANGED disk
      BY <1>1 DEF ReadArguments, ParseArgs, OptionI, OptionO, OptionQ, OptionT, OptionNumber, OptionC, OptionB, OptionOther,
                  EndOfArguments, PastTheEnd, ArgEnd, Accept
    <2> QED  BY <1>1, <2>1, FileKept DEF ReadArguments, main_vars
  <1>2. CASE ArgumentsRead
    <2>1. CASE UNCHANGED pnm_vars /\ main_pc' = "exit"  BY <2>1, FileKept
    <2>2. CASE fopen(disk[opts.infile]) /\ main_pc' = "pnm" /\ arg_pc = "done"
      <3>1. opts.infile \in DOMAIN disk
        <4>1. AllLegal(word) /\ Latest("-i", word, opts.infile)  BY <2>2 DEF ArgsInv, Read, InputGiven
        <4>2. PICK o \in Before(word) : argv[o] = "-i" /\ argv[o+1] = opts.infile  BY <4>1 DEF Latest
        <4>3. Legal("-i", opts.infile)  BY <4>1, <4>2 DEF AllLegal
        <4> QED  BY <4>3 DEF Legal
      <3>2. main_pc = "args"  BY <1>2 DEF ArgumentsRead
      <3>3. /\ file' \in Seq(0 .. 255) /\ pnm_pc' = "magic"
            /\ at' = 0 /\ status' = 0 /\ val' = 0 /\ size' = <<>>
        BY <2>2, <3>1, <3>2 DEF HeaderInv, fopen
      <3>4. ASSUME NEW S PROVE Reading(S)'
        <4>1. size' = [n \in 1 .. 0 |-> NumberAt(file, S, n)']  BY <3>3
        <4> QED  BY <3>3, <4>1 DEF Reading
      <3> QED  BY <2>2, <3>3, <3>4 DEF HeaderInv
    <2> QED  BY <1>2, <2>1, <2>2 DEF ArgumentsRead, Exit
  <1>3. CASE ReadImage
    <2>1. ReadPnm /\ main_pc = "pnm" /\ main_pc' = "pnm"  BY <1>3 DEF ReadImage, main_vars
    <2>2. file' = file /\ pnm_pc # "closed" /\ pnm_pc' # "closed"
      BY <2>1 DEF ReadPnm, ReadMagic, ReadType, NextNumber, EatBlank, StartComment, Comment, Digit, EndNumber, CheckMaxval
    <2>3. file \in Seq(0 .. 255)  BY DEF HeaderInv
    <2>4. ASSUME NEW S, S = Significant(file)', WellFormed(file, S)' PROVE Reading(S)'
      <3>1. S = Significant(file) /\ WellFormed(file, S)  BY <2>2, <2>4
      <3>2. Reading(S)  BY <2>2, <3>1 DEF HeaderInv
      <3> QED  BY <2>1, <2>3, <3>1, <3>2, ReadingStep
    <2> QED  BY <2>1, <2>2, <2>3, <2>4 DEF HeaderInv
  <1>4. CASE ImageRead  BY <1>4, FileKept DEF ImageRead, Exit
  <1>5. CASE Construct  BY <1>5, FileKept DEF Construct
  <1>6. CASE InvokeOnce  BY <1>6, FileKept DEF InvokeOnce
  <1>7. CASE InvokeWarmup  BY <1>7, FileKept DEF InvokeWarmup
  <1>8. CASE InvokeMeasured  BY <1>8, FileKept DEF InvokeMeasured
  <1>9. CASE OpenOutput  BY <1>9, FileKept DEF OpenOutput, Exit
  <1>10. CASE WriteOutput  BY <1>10, FileKept DEF WriteOutput, Exit
  <1>11. CASE UNCHANGED vars  BY <1>11, FileKept DEF vars, arg_vars, main_vars
  <1> QED  BY <1>1, <1>2, <1>3, <1>4, <1>5, <1>6, <1>7, <1>8, <1>9, <1>10, <1>11 DEF Next, Exited

LEMMA HeaderRead == HeaderInv => PnmRead
  <1> SUFFICES ASSUME HeaderInv, pnm_pc \in {"done", "failed"}, NEW S, S = Significant(file), WellFormed(file, S)
               PROVE  /\ pnm_pc = "done"
                      /\ size = [n \in 1 .. 3 |-> NumberAt(file, S, n)]
                      /\ ncomp = IF file[2] = 54 THEN 3 ELSE 1
                      /\ at = End(S, 3) + 1
    BY DEF PnmRead
  <1>1. Reading(S)  BY DEF HeaderInv
  <1>2. pnm_pc = "done" /\ status = 3  BY <1>1 DEF Reading
  <1> QED  BY <1>1, <1>2 DEF Reading, Behind

-----------------------------------------------------------------------------
(* The types, and the files. *)

PnmTyped ==
  /\ at \in 0 .. Len(file) /\ ch \in -1 .. 255 /\ val \in Int
  /\ size \in Seq(Int) /\ status = Len(size) /\ status \in 0 .. 3 /\ ncomp \in {0, 1, 3}
  /\ pnm_pc \in {"closed", "magic", "type", "next", "eat", "comment", "value", "maxval", "done", "failed"}
  /\ pnm_pc \in {"eat", "comment", "value"} => status < 3
  /\ pnm_pc \in {"maxval", "done"} => status = 3

MainTyped ==
  /\ arg_pc \in {"options", "done", "failed", "terminated", "undefined"}
  /\ main_pc \in {"args", "pnm", "construct", "invoke", "output", "write", "exit"}
  /\ exit \in {"none", "success", "failure", "terminated", "undefined"} /\ (exit # "none" <=> main_pc = "exit")
  /\ main_pc = "construct" => status = 3 /\ height >= 0
  /\ strips \in Nat /\ workers \in 0 .. Most(Cores, 1)
  /\ main_pc \in {"invoke", "output", "write"} => workers >= 1
  /\ warmup \in BOOLEAN /\ iter \in Nat /\ duration \in Nat

\* The clock: the program starts with the warm-up, which ends in time, and so does the
\* benchmark.
ClockInv ==
  /\ main_pc \in {"args", "pnm", "construct"} => warmup
  /\ warmup => duration <= WarmupTime
  /\ ~warmup => duration <= BenchTime + LongestCall /\ (main_pc = "invoke" => duration = 0 \/ duration < BenchTime)

LEMMA Fetched ==
  ASSUME file \in Seq(0 .. 255), at \in 0 .. Len(file), fgetc
  PROVE  ch' \in -1 .. 255 /\ at' \in 0 .. Len(file)
  <1>1. Len(file) \in Nat  OBVIOUS
  <1>2. CASE at < Len(file)
    <2>1. at + 1 \in 1 .. Len(file)  BY <1>1, <1>2
    <2>2. file[at + 1] \in 0 .. 255  BY <2>1, BytesAre
    <2>3. ch' = file[at + 1] /\ at' = at + 1  BY <1>2 DEF fgetc
    <2>4. \A b \in 0 .. 255 : b \in -1 .. 255  OBVIOUS
    <2> QED  BY <1>1, <2>1, <2>2, <2>3, <2>4
  <1>3. CASE ~(at < Len(file))
    <2>1. ch' = EOF /\ at' = at  BY <1>3 DEF fgetc
    <2>2. EOF \in -1 .. 255  BY DEF EOF
    <2> QED  BY <2>1, <2>2
  <1> QED  BY <1>2, <1>3

LEMMA PnmTypedStep ==
  ASSUME file \in Seq(0 .. 255), PnmTyped, ReadPnm
  PROVE  PnmTyped'
  <1>1. file' = file
    BY DEF ReadPnm, ReadMagic, ReadType, NextNumber, EatBlank, StartComment, Comment, Digit, EndNumber, CheckMaxval
  <1>2. ASSUME fgetc PROVE ch' \in -1 .. 255 /\ at' \in 0 .. Len(file')
    <2>1. at \in 0 .. Len(file)  BY DEF PnmTyped
    <2> QED  BY <1>1, <1>2, <2>1, Fetched
  <1>3. CASE ReadMagic
    <2>1. ch' \in -1 .. 255 /\ at' \in 0 .. Len(file')  BY <1>2, <1>3 DEF ReadMagic
    <2>2. pnm_pc' \in {"type", "failed"} /\ UNCHANGED <<val, size, status, ncomp>>  BY <1>3 DEF ReadMagic
    <2> QED  BY <2>1, <2>2 DEF PnmTyped
  <1>4. CASE ReadType
    <2>1. ch' \in -1 .. 255 /\ at' \in 0 .. Len(file')  BY <1>2, <1>4 DEF ReadType
    <2>2. pnm_pc' \in {"next", "failed"} /\ UNCHANGED <<val, size, status>> /\ ncomp' \in {1, 3, ncomp}
      BY <1>4 DEF ReadType
    <2> QED  BY <2>1, <2>2 DEF PnmTyped
  <1>5. CASE NextNumber
    <2>1. ch' \in -1 .. 255 /\ at' \in 0 .. Len(file')  BY <1>2, <1>5 DEF NextNumber
    <2>2. pnm_pc' = "eat" /\ UNCHANGED <<val, size, status, ncomp>> /\ status < 3  BY <1>5 DEF NextNumber
    <2> QED  BY <2>1, <2>2 DEF PnmTyped
  <1>6. CASE EatBlank
    <2>1. ch' \in -1 .. 255 /\ at' \in 0 .. Len(file')  BY <1>2, <1>6 DEF EatBlank
    <2>2. UNCHANGED <<val, size, status, ncomp, pnm_pc>>  BY <1>6 DEF EatBlank
    <2> QED  BY <2>1, <2>2 DEF PnmTyped
  <1>7. CASE StartComment
    <2>1. pnm_pc = "eat" /\ pnm_pc' = "comment" /\ UNCHANGED <<at, ch, val, size, status, ncomp>>
      BY <1>7 DEF StartComment
    <2> QED  BY <1>1, <2>1 DEF PnmTyped
  <1>8. CASE Comment
    <2>1. ch' \in -1 .. 255 /\ at' \in 0 .. Len(file')  BY <1>2, <1>8 DEF Comment
    <2>2. pnm_pc = "comment" /\ pnm_pc' \in {"comment", "eat"} /\ UNCHANGED <<val, size, status, ncomp>>
      BY <1>8 DEF Comment
    <2> QED  BY <2>1, <2>2 DEF PnmTyped
  <1>9. CASE Digit
    <2>1. ch' \in -1 .. 255 /\ at' \in 0 .. Len(file')  BY <1>2, <1>9 DEF Digit
    <2>2. pnm_pc \in {"eat", "value"} /\ pnm_pc' = "value" /\ UNCHANGED <<size, status, ncomp>>  BY <1>9 DEF Digit
    <2>3. val' \in Int
      <3>1. val \in Int /\ ch \in Int  BY DEF PnmTyped
      <3>2. val' = 10 * val + ch - ZERO  BY <1>9 DEF Digit
      <3> QED  BY <3>1, <3>2 DEF ZERO
    <2> QED  BY <2>1, <2>2, <2>3 DEF PnmTyped
  <1>10. CASE EndNumber
    <2>1. pnm_pc \in {"eat", "value"} /\ UNCHANGED <<at, ch, ncomp>>
      BY <1>10 DEF EndNumber
    <2>2. status' = status + 1 /\ size' = Append(size, val) /\ val' = 0
      BY <1>10 DEF EndNumber
    <2>3. (status' = 3 /\ pnm_pc' = "maxval") \/ (status' # 3 /\ pnm_pc' = "next")
      BY <1>10 DEF EndNumber
    <2>4. val \in Int /\ size \in Seq(Int) /\ status = Len(size) /\ status \in 0 .. 3 /\ status < 3
      BY <2>1 DEF PnmTyped
    <2>5. size' \in Seq(Int) /\ Len(size') = Len(size) + 1  BY <2>2, <2>4, AppendProperties
    <2>6. status' = Len(size') /\ status' \in 0 .. 3  BY <2>2, <2>4, <2>5
    <2> QED  BY <1>1, <2>1, <2>2, <2>3, <2>5, <2>6 DEF PnmTyped
  <1>11. CASE CheckMaxval
    <2>1. pnm_pc = "maxval" /\ pnm_pc' \in {"failed", "done"} /\ UNCHANGED <<at, ch, val, size, status, ncomp>>
      BY <1>11 DEF CheckMaxval
    <2> QED  BY <1>1, <2>1 DEF PnmTyped
  <1> QED  BY <1>3, <1>4, <1>5, <1>6, <1>7, <1>8, <1>9, <1>10, <1>11 DEF ReadPnm

\* As many strips as the image has, and at least one worker, but no more than cores.
LEMMA SizesTyped ==
  ASSUME NEW h \in Nat, NEW ycc \in YCC, NEW requested \in Nat
  PROVE  LET n == CeilDiv(round_up(h, DCTSIZE * V[ycc]), BUFLINES)
         IN n \in Nat /\ pick_num_workers(requested, n, Cores) \in 1 .. Most(Cores, 1)
  <1>1. V[ycc] = 1 \/ V[ycc] = 2  BY DEF V
  <1>2. CeilDiv(round_up(h, DCTSIZE * V[ycc]), BUFLINES) \in Nat
    <2>1. CASE V[ycc] = 1  BY <2>1 DEF CeilDiv, round_up, DCTSIZE, BUFLINES
    <2>2. CASE V[ycc] = 2  BY <2>2 DEF CeilDiv, round_up, DCTSIZE, BUFLINES
    <2> QED  BY <1>1, <2>1, <2>2
  <1>3. ASSUME NEW n \in Nat PROVE pick_num_workers(requested, n, Cores) \in 1 .. Most(Cores, 1)
    <2>1. Cores \in Nat  BY JpencAssumption
    <2> QED  BY <2>1 DEF pick_num_workers, Most, Least
  <1> QED  BY <1>2, <1>3

LEMMA SecondOfThree == \A s \in Seq(Int) : Len(s) = 3 => s[2] \in Int
  <1> SUFFICES ASSUME NEW s \in Seq(Int), Len(s) = 3 PROVE s[2] \in Int  OBVIOUS
  <1>1. 2 \in 1 .. Len(s)  OBVIOUS
  <1> QED  BY <1>1, ElementOfSeq

MainInv == PnmTyped /\ MainTyped /\ ClockInv

LEMMA MainInit == Init => MainInv
  <1> SUFFICES ASSUME Init PROVE MainInv  OBVIOUS
  <1>1. PnmTyped
    <2>1. <<>> \in Seq(Int) /\ Len(<<>>) = 0  BY EmptySeq
    <2>2. EOF \in -1 .. 255  BY DEF EOF
    <2> QED  BY <2>1, <2>2 DEF Init, PnmInit, PnmTyped
  <1>2. Cores \in Nat /\ WarmupTime \in Nat  BY JpencAssumption
  <1>3. MainTyped  BY <1>2 DEF Init, ArgInit, MainTyped, Most
  <1>4. ClockInv  BY <1>2 DEF Init, ClockInv
  <1> QED  BY <1>1, <1>3, <1>4 DEF MainInv

\* A step that only moves on, or ends the program.
LEMMA MainKept ==
  ASSUME MainInv, UNCHANGED <<pnm_vars, strips, workers, duration, warmup, iter>>,
         arg_pc' \in {"options", "done", "failed", "terminated", "undefined"},
         \/ main_pc' \in {"output", "write"} /\ main_pc \in {"invoke", "output"} /\ exit' = exit
         \/ main_pc' = "construct" /\ main_pc = "pnm" /\ exit' = exit /\ status = 3 /\ height >= 0
         \/ main_pc' = "exit" /\ exit' \in {"success", "failure", "terminated", "undefined"}
         \/ main_pc' = main_pc /\ exit' = exit
  PROVE  MainInv'
  <1>1. UNCHANGED <<file, at, ch, status, val, size, ncomp, pnm_pc>> /\ height' = height  BY DEF pnm_vars, height
  <1>2. PnmTyped'  BY <1>1 DEF MainInv, PnmTyped
  <1>3. MainTyped'  BY <1>1 DEF MainInv, MainTyped
  <1>4. ClockInv'  BY DEF MainInv, ClockInv
  <1> QED  BY <1>2, <1>3, <1>4 DEF MainInv

LEMMA MainStep == ArgsInv /\ HeaderInv /\ HeaderInv' /\ MainInv /\ [Next]_vars => MainInv'
  <1> SUFFICES ASSUME ArgsInv, HeaderInv, HeaderInv', MainInv, [Next]_vars PROVE MainInv'  OBVIOUS
  <1>1. arg_pc \in {"options", "done", "failed", "terminated", "undefined"}  BY DEF MainInv, MainTyped
  <1>2. /\ WarmupTime \in Nat /\ BenchTime \in Nat /\ LongestCall \in Nat \ {0}
        /\ duration \in Nat /\ iter \in Nat /\ warmup \in BOOLEAN
    BY JpencAssumption DEF MainInv, MainTyped
  <1>3. CASE ReadArguments
    <2>1. arg_pc' \in {"options", "done", "failed", "terminated", "undefined"}
      BY <1>1, <1>3 DEF ReadArguments, ParseArgs, OptionI, OptionO, OptionQ, OptionT, OptionNumber, OptionC, OptionB,
                        OptionOther, EndOfArguments, PastTheEnd, ArgEnd, Accept
    <2> QED  BY <1>3, <2>1, MainKept DEF ReadArguments, main_vars
  <1>4. CASE ArgumentsRead
    <2>1. main_pc = "args" /\ UNCHANGED arg_pc  BY <1>4 DEF ArgumentsRead, arg_vars
    <2>2. CASE UNCHANGED pnm_vars
      <3>1. main_pc' = "exit" /\ exit' \in {"failure", "terminated", "undefined"}
            /\ UNCHANGED <<strips, workers, duration, warmup, iter>>
        <4>1. UNCHANGED pnm_pc  BY <2>2 DEF pnm_vars
        <4>2. pnm_pc = "closed"  BY <2>1 DEF HeaderInv
        <4> QED  BY <1>4, <4>1, <4>2 DEF ArgumentsRead, Exit, fopen
      <3> QED  BY <1>1, <2>1, <2>2, <3>1, MainKept
    <2>3. CASE fopen(disk[opts.infile]) /\ main_pc' = "pnm" /\ UNCHANGED <<exit, strips, workers, duration, warmup, iter>>
      <3>1. PnmTyped'
        <4>1. file' \in Seq(0 .. 255) /\ at = 0  BY <2>1 DEF HeaderInv
        <4>2. at' = 0 /\ pnm_pc' = "magic" /\ UNCHANGED <<ch, status, val, size, ncomp>>  BY <2>3, <4>1 DEF fopen
        <4>3. Len(file') \in Nat  BY <4>1
        <4>4. at' \in 0 .. Len(file')  BY <4>2, <4>3
        <4> QED  BY <4>2, <4>4 DEF MainInv, PnmTyped
      <3>2. MainTyped'  BY <2>1, <2>3 DEF MainInv, MainTyped
      <3>3. ClockInv'  BY <2>1, <2>3 DEF MainInv, ClockInv
      <3> QED  BY <3>1, <3>2, <3>3 DEF MainInv
    <2> QED  BY <1>4, <2>2, <2>3 DEF ArgumentsRead
  <1>5. CASE ReadImage
    <2>1. ReadPnm /\ UNCHANGED <<arg_vars, main_vars>> /\ main_pc = "pnm"  BY <1>5 DEF ReadImage
    <2>2. PnmTyped'
      <3>1. file \in Seq(0 .. 255) /\ PnmTyped  BY DEF HeaderInv, MainInv
      <3> QED  BY <2>1, <3>1, PnmTypedStep
    <2>3. MainTyped' /\ ClockInv'  BY <2>1 DEF MainInv, MainTyped, ClockInv, arg_vars, main_vars
    <2> QED  BY <2>2, <2>3 DEF MainInv
  <1>6. CASE ImageRead
    <2>1. main_pc = "pnm" /\ UNCHANGED <<arg_pc, pnm_vars, strips, workers, duration, warmup, iter>>
      BY <1>6 DEF ImageRead, Exit, arg_vars
    <2>2. \/ main_pc' = "exit" /\ exit' \in {"failure", "undefined"}
          \/ main_pc' = "construct" /\ exit' = exit /\ pnm_pc = "done" /\ ~(height < 0)
      BY <1>6 DEF ImageRead, Exit
    <2>3. pnm_pc = "done" => status = 3 /\ height \in Int
      <3>1. ASSUME pnm_pc = "done" PROVE status = 3 /\ height \in Int
        <4>1. status = 3 /\ size \in Seq(Int) /\ status = Len(size)  BY <3>1 DEF MainInv, PnmTyped
        <4>2. size[2] \in Int  BY <4>1, SecondOfThree
        <4> QED  BY <4>1, <4>2 DEF height
      <3> QED  BY <3>1
    <2> QED  BY <1>1, <2>1, <2>2, <2>3, MainKept
  <1>7. CASE Construct
    <2>1. main_pc = "construct" /\ main_pc' = "invoke" /\ UNCHANGED <<arg_vars, pnm_vars, exit, duration, warmup, iter>>
      BY <1>7 DEF Construct
    <2>2. height \in Nat
      <3>1. status = 3 /\ height >= 0 /\ size \in Seq(Int) /\ status = Len(size)
        BY <2>1 DEF MainInv, MainTyped, PnmTyped
      <3>2. size[2] \in Int  BY <3>1, SecondOfThree
      <3>3. height = size[2]  BY DEF height
      <3> QED  BY <3>1, <3>2, <3>3
    <2>3. opts.YCCtype \in YCC /\ opts.num_threads \in Nat  BY DEF ArgsInv, Settings
    <2>4. strips' \in Nat /\ workers' \in 1 .. Most(Cores, 1)
      BY <1>7, <2>2, <2>3, SizesTyped DEF Construct
    <2>5. PnmTyped'  BY <2>1 DEF MainInv, PnmTyped, pnm_vars
    <2>6. MainTyped'  BY <2>1, <2>4 DEF MainInv, MainTyped, arg_vars
    <2>7. ClockInv'
      BY <2>1 DEF MainInv, ClockInv
    <2> QED  BY <2>5, <2>6, <2>7 DEF MainInv
  <1>8. CASE InvokeOnce
    <2>1. main_pc = "invoke" /\ main_pc' = "output" /\ UNCHANGED <<arg_vars, pnm_vars, exit, strips, workers, duration, warmup, iter>>
      BY <1>8 DEF InvokeOnce
    <2> QED  BY <1>1, <2>1, MainKept DEF arg_vars
  <1>9. CASE InvokeWarmup
    <2>1. main_pc = "invoke" /\ warmup /\ UNCHANGED <<arg_vars, pnm_vars, main_pc, exit, strips, workers>>
      BY <1>9 DEF InvokeWarmup
    <2>2. PICK ticks \in 1 .. LongestCall :
            IF duration + ticks >= WarmupTime THEN duration' = 0 /\ iter' = 0 /\ warmup' = FALSE
            ELSE duration' = duration + ticks /\ iter' = iter + 1 /\ UNCHANGED warmup
      BY <1>9 DEF InvokeWarmup
    <2>3. /\ duration' \in Nat /\ iter' \in Nat /\ warmup' \in BOOLEAN
          /\ warmup' => duration' <= WarmupTime
          /\ ~warmup' => duration' = 0
      <3>1. duration + ticks \in Nat /\ iter + 1 \in Nat  BY <1>2
      <3>2. CASE duration + ticks >= WarmupTime
        <4>1. duration' = 0 /\ iter' = 0 /\ warmup' = FALSE  BY <2>2, <3>2
        <4> QED  BY <4>1
      <3>3. CASE ~(duration + ticks >= WarmupTime)
        <4>1. duration' = duration + ticks /\ iter' = iter + 1 /\ warmup' = warmup  BY <2>2, <3>3
        <4>2. duration' <= WarmupTime  BY <1>2, <3>1, <3>3, <4>1
        <4>3. warmup'  BY <2>1, <4>1
        <4> QED  BY <1>2, <3>1, <4>1, <4>2, <4>3
      <3> QED  BY <3>2, <3>3
    <2>4. ClockInv'
      <3>1. main_pc' = "invoke"  BY <2>1
      <3>2. 0 <= BenchTime + LongestCall  BY <1>2
      <3> QED  BY <2>3, <3>1, <3>2 DEF ClockInv
    <2>5. PnmTyped'  BY <2>1 DEF MainInv, PnmTyped, pnm_vars
    <2>6. MainTyped'  BY <2>1, <2>3 DEF MainInv, MainTyped, arg_vars
    <2> QED  BY <2>4, <2>5, <2>6 DEF MainInv
  <1>10. CASE InvokeMeasured
    <2>1. /\ main_pc = "invoke" /\ ~warmup /\ UNCHANGED <<arg_vars, pnm_vars, exit, strips, workers, warmup>>
          /\ iter' = iter + 1 /\ main_pc' = IF duration' >= BenchTime THEN "output" ELSE "invoke"
      BY <1>10 DEF InvokeMeasured
    <2>2. PICK ticks \in 1 .. LongestCall : duration' = duration + ticks  BY <1>10 DEF InvokeMeasured
    <2>3. duration = 0 \/ duration < BenchTime  BY <2>1 DEF MainInv, ClockInv
    <2>4. duration' \in Nat /\ iter' \in Nat /\ duration' <= BenchTime + LongestCall  BY <1>2, <2>1, <2>2, <2>3
    <2>5. main_pc' \in {"output", "invoke"} /\ (main_pc' = "invoke" => duration' < BenchTime)  BY <1>2, <2>1, <2>4
    <2>6. ClockInv'  BY <2>1, <2>4, <2>5 DEF ClockInv
    <2>7. PnmTyped'  BY <2>1 DEF MainInv, PnmTyped, pnm_vars
    <2>8. MainTyped'  BY <1>2, <2>1, <2>4, <2>5 DEF MainInv, MainTyped, arg_vars
    <2> QED  BY <2>6, <2>7, <2>8 DEF MainInv
  <1>11. CASE OpenOutput
    <2>1. main_pc = "output" /\ UNCHANGED <<arg_pc, pnm_vars, strips, workers, duration, warmup, iter>>
      BY <1>11 DEF OpenOutput, Exit
    <2>2. (main_pc' = "exit" /\ exit' = "failure") \/ (main_pc' = "write" /\ exit' = exit)  BY <1>11 DEF OpenOutput, Exit
    <2> QED  BY <1>1, <2>1, <2>2, MainKept
  <1>12. CASE WriteOutput
    <2>1. UNCHANGED <<arg_pc, pnm_vars, strips, workers, duration, warmup, iter>> /\ main_pc' = "exit" /\ exit' = "success"
      BY <1>12 DEF WriteOutput, Exit
    <2> QED  BY <1>1, <2>1, MainKept
  <1>13. CASE UNCHANGED vars  BY <1>1, <1>13, MainKept DEF vars, arg_vars, main_vars
  <1> QED  BY <1>3, <1>4, <1>5, <1>6, <1>7, <1>8, <1>9, <1>10, <1>11, <1>12, <1>13 DEF Next, Exited

\* Until the output is opened the disk is as it was, and then only the output changes.
FilesInv ==
  /\ main_pc \in {"args", "pnm", "construct", "invoke", "output"} => disk = before
  /\ main_pc = "write" => DOMAIN before \subseteq DOMAIN disk
  /\ main_pc = "write" => \A n \in DOMAIN before \ {opts.outfile} : disk[n] = before[n]
  /\ FilesKept

LEMMA FilesInit == Init => FilesInv
  BY DEF Init, FilesInv, FilesKept

LEMMA FilesStep == MainInv /\ FilesInv /\ [Next]_vars => FilesInv'
  <1> SUFFICES ASSUME MainInv, FilesInv, [Next]_vars PROVE FilesInv'  OBVIOUS
  <1>1. /\ main_pc \in {"args", "pnm", "construct", "invoke", "output", "write", "exit"}
        /\ exit # "none" <=> main_pc = "exit"
    BY DEF MainInv, MainTyped
  \* In front of the output, or into an exit that is no success.
  <1>2. ASSUME main_pc \in {"args", "pnm", "construct", "invoke", "output"}, UNCHANGED <<disk, before>>,
               \/ main_pc' \in {"args", "pnm", "construct", "invoke", "output"} /\ exit' = exit
               \/ main_pc' = "exit" /\ exit' # "success"
        PROVE  FilesInv'
    <2>1. disk = before  BY <1>2 DEF FilesInv
    <2>2. exit' # "success"  BY <1>1, <1>2
    <2> QED  BY <1>2, <2>1, <2>2 DEF FilesInv, FilesKept
  <1>3. CASE ReadArguments
    <2>1. UNCHANGED disk
      BY <1>3 DEF ReadArguments, ParseArgs, OptionI, OptionO, OptionQ, OptionT, OptionNumber, OptionC, OptionB, OptionOther,
                  EndOfArguments, PastTheEnd, ArgEnd, Accept
    <2> QED  BY <1>2, <1>3, <2>1 DEF ReadArguments, main_vars
  <1>4. CASE ArgumentsRead
    <2>1. main_pc = "args" /\ UNCHANGED <<disk, before>>  BY <1>4 DEF ArgumentsRead, Exit, arg_vars
    <2>2. (main_pc' = "pnm" /\ exit' = exit) \/ (main_pc' = "exit" /\ exit' # "success")
      BY <1>4 DEF ArgumentsRead, Exit
    <2> QED  BY <1>2, <2>1, <2>2
  <1>5. CASE ReadImage  BY <1>2, <1>5 DEF ReadImage, arg_vars, main_vars
  <1>6. CASE ImageRead
    <2>1. main_pc = "pnm" /\ UNCHANGED <<disk, before>>  BY <1>6 DEF ImageRead, Exit, arg_vars
    <2>2. (main_pc' = "construct" /\ exit' = exit) \/ (main_pc' = "exit" /\ exit' # "success")
      BY <1>6 DEF ImageRead, Exit
    <2> QED  BY <1>2, <2>1, <2>2
  <1>7. CASE Construct  BY <1>2, <1>7 DEF Construct, arg_vars
  <1>8. CASE InvokeOnce  BY <1>2, <1>8 DEF InvokeOnce, arg_vars
  <1>9. CASE InvokeWarmup  BY <1>2, <1>9 DEF InvokeWarmup, arg_vars
  <1>10. CASE InvokeMeasured
    <2>1. main_pc = "invoke" /\ main_pc' \in {"output", "invoke"} /\ exit' = exit /\ UNCHANGED <<disk, before>>
      BY <1>10 DEF InvokeMeasured, arg_vars
    <2> QED  BY <1>2, <2>1
  <1>11. CASE OpenOutput
    <2>1. main_pc = "output"  BY <1>11 DEF OpenOutput
    <2>2. CASE opts.outfile \notin Writable  BY <1>2, <1>11, <2>1, <2>2 DEF OpenOutput, Exit
    <2>3. CASE opts.outfile \in Writable
      <3>1. /\ disk' = [n \in DOMAIN disk \cup {opts.outfile} |-> IF n = opts.outfile THEN <<>> ELSE disk[n]]
            /\ main_pc' = "write" /\ exit' = exit /\ before' = before /\ opts' = opts
        BY <1>11, <2>3 DEF OpenOutput
      <3>2. disk = before /\ exit = "none"  BY <1>1, <2>1 DEF FilesInv
      <3>3. DOMAIN before \subseteq DOMAIN disk' /\ \A n \in DOMAIN before \ {opts.outfile} : disk'[n] = before[n]
        BY <3>1, <3>2
      <3> QED  BY <3>1, <3>2, <3>3 DEF FilesInv, FilesKept
    <2> QED  BY <2>2, <2>3
  <1>12. CASE WriteOutput
    <2>1. main_pc = "write" /\ main_pc' = "exit" /\ exit' = "success" /\ before' = before /\ opts' = opts
      BY <1>12 DEF WriteOutput, Exit
    <2>2. PICK content : disk' = [disk EXCEPT ![opts.outfile] = content]  BY <1>12 DEF WriteOutput
    <2>3. \A n \in DOMAIN before \ {opts.outfile} : disk'[n] = before[n]  BY <2>1, <2>2 DEF FilesInv
    <2> QED  BY <2>1, <2>3 DEF FilesInv, FilesKept
  <1>13. CASE UNCHANGED vars  BY <1>13 DEF vars, arg_vars, main_vars, FilesInv, FilesKept
  <1> QED  BY <1>3, <1>4, <1>5, <1>6, <1>7, <1>8, <1>9, <1>10, <1>11, <1>12, <1>13 DEF Next, Exited

-----------------------------------------------------------------------------
(* Where a part of a codestream stands, and what a decoder reads there. *)

\* The sequence s stands in h behind its first p elements.
Stands(s, p, h) == p + Len(s) <= Len(h) /\ \A i \in 1 .. Len(s) : h[p + i] = s[i]

\* Two sequences, one behind the other.
LEMMA StandsConcat ==
  ASSUME NEW S, NEW s \in Seq(S), NEW t \in Seq(S), NEW p \in Nat, NEW h, Len(h) \in Nat,
         Stands(s \o t, p, h)
  PROVE  Stands(s, p, h) /\ Stands(t, p + Len(s), h)
  <1> DEFINE st == s \o t
             m == Len(s)
             n == Len(t)
  <1>1. m \in Nat /\ n \in Nat /\ Len(st) = m + n /\ \A i \in 1 .. m + n : st[i] = IF i <= m THEN s[i] ELSE t[i - m]
    BY ConcatProperties, LenProperties
  <1>2. p + (m + n) <= Len(h) /\ \A i \in 1 .. m + n : h[p + i] = st[i]  BY <1>1 DEF Stands
  <1>3. ASSUME NEW i \in 1 .. m PROVE h[p + i] = s[i]
    <2>1. i \in 1 .. m + n /\ i <= m  BY <1>1
    <2> QED  BY <1>1, <1>2, <2>1
  <1>4. ASSUME NEW i \in 1 .. n PROVE h[(p + m) + i] = t[i]
    <2>1. m + i \in 1 .. m + n /\ ~(m + i <= m) /\ (m + i) - m = i /\ p + (m + i) = (p + m) + i  BY <1>1
    <2>2. h[p + (m + i)] = st[m + i]  BY <1>2, <2>1
    <2>3. st[m + i] = t[(m + i) - m]  BY <1>1, <2>1
    <2> QED  BY <2>1, <2>2, <2>3
  <1>5. Len(h) \in Nat  OBVIOUS
  <1> HIDE DEF st, m, n
  <1>6. p + m <= Len(h) /\ (p + m) + n <= Len(h)  BY <1>1, <1>2, <1>5
  <1> QED  BY <1>3, <1>4, <1>6 DEF Stands, m, n

Byte == 0 .. 255
LEMMA ByteIs == \A x : x \in Byte <=> x \in Nat /\ x < 256
  BY DEF Byte

\* Bytes are numbers.
LEMMA BytesAreNumbers ==
  ASSUME NEW s \in Seq(Byte)
  PROVE  s \in Seq(Nat) /\ Len(s) \in Nat /\ \A i \in 1 .. Len(s) : s[i] \in Nat /\ s[i] < 256
  <1>1. Len(s) \in Nat /\ s \in [1 .. Len(s) -> Byte]  BY LenProperties
  <1>2. s \in [1 .. Len(s) -> Nat]  BY <1>1, ByteIs
  <1>3. s \in Seq(Nat)  BY <1>1, <1>2, FunctionIsSeq
  <1> QED  BY <1>1, <1>3, ByteIs

LEMMA BytesJoin ==
  ASSUME NEW s \in Seq(Byte), NEW t \in Seq(Byte)
  PROVE  s \o t \in Seq(Byte) /\ Len(s \o t) = Len(s) + Len(t)
  BY ConcatProperties

\* A byte of the header is what is left of a number.
LEMMA PutByteIs ==
  ASSUME NEW d \in Int
  PROVE  put_byte(d) \in Seq(Byte) /\ Len(put_byte(d)) = 1 /\ put_byte(d)[1] = d % 256
  <1>1. d % 256 \in Byte  BY ByteIs
  <1> QED  BY <1>1 DEF put_byte

LEMMA SmallByte ==
  ASSUME NEW d \in Nat, d < 256
  PROVE  put_byte(d) = <<d>> /\ put_byte(d) \in Seq(Byte) /\ Len(put_byte(d)) = 1
  <1>1. d % 256 = d  OBVIOUS
  <1> QED  BY <1>1, PutByteIs DEF put_byte

\* A word is two bytes.
LEMMA WordIs ==
  ASSUME NEW d \in Nat
  PROVE  /\ put_word(d) \in Seq(Byte) /\ Len(put_word(d)) = 2
         /\ put_word(d)[1] = (d \div 256) % 256 /\ put_word(d)[2] = d % 256
  <1> DEFINE a == (d \div 256) % 256
             b == d % 256
  <1>1. a \in Byte /\ b \in Byte  BY ByteIs
  <1>2. put_word(d) = <<a>> \o <<b>>  BY DEF put_word, put_byte
  <1> HIDE DEF a, b
  <1>3. put_word(d) = <<a, b>>  BY <1>2, PairIsConcat
  <1>4. <<a, b>> \in Seq(Byte) /\ Len(<<a, b>>) = 2 /\ <<a, b>>[1] = a /\ <<a, b>>[2] = b  BY <1>1
  <1> QED  BY <1>3, <1>4 DEF a, b

\* And is read as one, cut to 16 bits.
LEMMA WordAt ==
  ASSUME NEW d \in Nat, d < 256 * 256, NEW p \in Nat, NEW h, Stands(put_word(d), p, h)
  PROVE  Word(h, p + 1) = d
  <1> DEFINE z == put_word(d)
  <1>1. Len(z) = 2 /\ z[1] = (d \div 256) % 256 /\ z[2] = d % 256  BY WordIs
  <1>2. \A i \in 1 .. Len(z) : h[p + i] = z[i]  BY DEF Stands
  <1> HIDE DEF z
  <1>3. h[p + 1] = (d \div 256) % 256 /\ h[p + 2] = d % 256
    <2>1. 1 \in 1 .. Len(z) /\ 2 \in 1 .. Len(z)  BY <1>1
    <2> QED  BY <1>1, <1>2, <2>1
  <1>4. (p + 1) + 1 = p + 2  OBVIOUS
  <1>5. 256 * ((d \div 256) % 256) + (d % 256) = d
    <2> DEFINE q == d \div 256
               r == d % 256
    <2>1. q \in Nat /\ r \in Nat /\ d = 256 * q + r /\ r < 256  OBVIOUS
    <2> HIDE DEF q, r
    <2>2. q < 256
      <3>1. 256 * 256 = 256 * 256  OBVIOUS
      <3> QED  BY <2>1, <3>1
    <2>3. q % 256 = q  BY <2>1, <2>2
    <2> QED  BY <2>1, <2>3 DEF q, r
  <1> QED  BY <1>3, <1>4, <1>5 DEF Word

\* Bytes behind bytes.
LEMMA Joined == \A s, t \in Seq(Byte) : s \o t \in Seq(Byte) /\ Len(s \o t) = Len(s) + Len(t)
  <1> SUFFICES ASSUME NEW s \in Seq(Byte), NEW t \in Seq(Byte)
               PROVE  s \o t \in Seq(Byte) /\ Len(s \o t) = Len(s) + Len(t)
    OBVIOUS
  <1> QED  BY ONLY s \in Seq(Byte), t \in Seq(Byte), ConcatProperties

\* A segment: its marker, its length, its body.
Segment(m, body) == put_word(m) \o put_word(Len(body) + 2) \o body

LEMMA SegmentIs ==
  ASSUME NEW m \in Nat, NEW body \in Seq(Byte)
  PROVE  Segment(m, body) \in Seq(Byte) /\ Len(Segment(m, body)) = Len(body) + 4
  <1>1. Len(body) \in Nat /\ Len(body) + 2 \in Nat  BY LenProperties
  <1> DEFINE w == put_word(m)
             l == put_word(Len(body) + 2)
  <1>2. w \in Seq(Byte) /\ Len(w) = 2 /\ l \in Seq(Byte) /\ Len(l) = 2
    <2>1. w \in Seq(Byte) /\ Len(w) = 2  BY ONLY m \in Nat, WordIs
    <2>2. l \in Seq(Byte) /\ Len(l) = 2  BY ONLY <1>1, WordIs
    <2> QED  BY ONLY <2>1, <2>2
  <1> HIDE DEF w, l
  <1>3. w \o l \in Seq(Byte) /\ Len(w \o l) = 4
    <2>1. w \o l \in Seq(Byte) /\ Len(w \o l) = Len(w) + Len(l)  BY ONLY <1>2, Joined, Zenon
    <2>2. Len(w) + Len(l) = 4  BY ONLY <1>2
    <2> QED  BY ONLY <2>1, <2>2, Zenon
  <1> DEFINE wl == w \o l
  <1>4. wl \in Seq(Byte) /\ Len(wl) = 4  BY <1>3
  <1> HIDE DEF wl
  <1>5. wl \o body \in Seq(Byte) /\ Len(wl \o body) = Len(wl) + Len(body)
    BY ONLY <1>4, body \in Seq(Byte), Joined, Zenon
  <1>6. Len(wl) + Len(body) = Len(body) + 4  BY ONLY <1>1, <1>4
  <1>7. Segment(m, body) = wl \o body  BY DEF Segment, w, l, wl
  <1> QED  BY ONLY <1>5, <1>6, <1>7, Zenon

\* A decoder that comes to it reads what was put there.
LEMMA SegmentRead ==
  ASSUME NEW m \in Nat, m < 256 * 256, NEW body \in Seq(Byte), Len(body) < 256,
         NEW p \in Nat, NEW h \in Seq(Nat), Stands(Segment(m, body), p, h)
  PROVE  /\ Word(h, p + 1) = m
         /\ Word(h, p + 3) = Len(body) + 2
         /\ SubSeq(h, p + 5, p + 4 + Len(body)) = body
         /\ Len(h) >= p + 4 + Len(body)
  <1> DEFINE n == Len(body)
             w == put_word(m)
             l == put_word(n + 2)
  <1>1. n \in Nat /\ n < 256 /\ n + 2 \in Nat /\ body \in Seq(Nat)  BY BytesAreNumbers
  <1>2. w \in Seq(Byte) /\ Len(w) = 2 /\ l \in Seq(Byte) /\ Len(l) = 2
    <2>1. w \in Seq(Byte) /\ Len(w) = 2  BY WordIs
    <2>2. l \in Seq(Byte) /\ Len(l) = 2  BY <1>1, WordIs
    <2> QED  BY <2>1, <2>2
  <1>3. Segment(m, body) = (w \o l) \o body  BY DEF Segment
  <1>a. Stands((w \o l) \o body, p, h)  BY <1>3
  <1>b. Len(h) \in Nat  BY LenProperties
  <1>c. Stands(w, p, h) => Word(h, p + 1) = m  BY WordAt
  <1>d. Stands(l, p + 2, h) => Word(h, (p + 2) + 1) = n + 2
    <2>1. n + 2 < 256 * 256 /\ p + 2 \in Nat  BY <1>1
    <2> QED  BY <1>1, <2>1, WordAt
  <1> HIDE DEF n, w, l
  <1> DEFINE wl == w \o l
  <1>4. wl \in Seq(Byte) /\ Len(wl) = 4
    <2>1. wl \in Seq(Byte) /\ Len(wl) = Len(w) + Len(l)  BY <1>2, BytesJoin
    <2> QED  BY <1>2, <2>1
  <1>5. Stands(wl, p, h) /\ Stands(body, p + Len(wl), h)
    <2>1. Stands(wl \o body, p, h)  BY <1>a
    <2> HIDE DEF wl
    <2> QED  BY <1>b, <1>4, <2>1, StandsConcat
  <1>6. Stands(w, p, h) /\ Stands(l, p + 2, h)  BY <1>b, <1>2, <1>5, StandsConcat
  <1>7. Word(h, p + 1) = m  BY <1>6, <1>c
  <1>8. Word(h, p + 3) = n + 2
    <2>1. (p + 2) + 1 = p + 3  OBVIOUS
    <2> QED  BY <1>6, <1>d, <2>1
  <1>9. Len(h) \in Nat /\ (p + 4) + n <= Len(h) /\ \A i \in 1 .. n : h[(p + 4) + i] = body[i]
    BY <1>4, <1>5, <1>b DEF Stands, n
  <1>10. SubSeq(h, p + 5, p + 4 + n) = body
    <2> DEFINE part == SubSeq(h, (p + 4) + 1, (p + 4) + n)
    <2>1. part \in Seq(Nat) /\ Len(part) = n /\ \A i \in 1 .. n : part[i] = h[(p + 4) + i]
      <3>1. p + 4 \in Nat  OBVIOUS
      <3> QED  BY <1>1, <1>9, <3>1, PartOfSeq
    <2>2. (p + 4) + 1 = p + 5 /\ (p + 4) + n = p + 4 + n  BY <1>1
    <2>3. part = SubSeq(h, p + 5, p + 4 + n)  BY <2>2
    <2> HIDE DEF part
    <2>4. \A i \in 1 .. n : part[i] = body[i]  BY <1>9, <2>1
    <2> QED  BY <1>1, <2>1, <2>3, <2>4, SeqEqual DEF n
  <1> QED  BY <1>7, <1>8, <1>9, <1>10 DEF n

-----------------------------------------------------------------------------
(* The rounds of a decoder. *)

\* The decoder between two segments.
Decoder(at_, ok, done, sz, comps, scan, interval, steps, huffman) ==
  [at |-> at_, ok |-> ok, done |-> done, size |-> sz, comps |-> comps, scan |-> scan, interval |-> interval,
   steps |-> steps, huffman |-> huffman]

\* One call of the loop of ReadHeader.
ReadOn(h, d) == IF d.done \/ ~d.ok THEN d ELSE ReadSegment(h, d)
ReadStart(h) == [Unread EXCEPT !.ok = Len(h) >= 2 /\ Word(h, 1) = SOI]

\* The decoder's loop, n times.
Walk(h, n, d) ==
  \E g : g[0] = ReadStart(h) /\ (\A i \in 1 .. n : g[i] = ReadOn(h, g[i - 1])) /\ g[n] = d

LEMMA WalkStarts == \A h : Walk(h, 0, ReadStart(h))
  <1> TAKE h
  <1> DEFINE g == [i \in {0} |-> ReadStart(h)]
  <1>1. g[0] = ReadStart(h) /\ \A i \in 1 .. 0 : g[i] = ReadOn(h, g[i - 1])  OBVIOUS
  <1> QED  BY <1>1 DEF Walk

LEMMA WalkGoesOn ==
  ASSUME NEW h, NEW n \in Nat, NEW d, Walk(h, n, d)
  PROVE  Walk(h, n + 1, ReadOn(h, d))
  <1>1. PICK g : g[0] = ReadStart(h) /\ (\A i \in 1 .. n : g[i] = ReadOn(h, g[i - 1])) /\ g[n] = d  BY DEF Walk
  <1> DEFINE f == [i \in 0 .. n + 1 |-> IF i = n + 1 THEN ReadOn(h, d) ELSE g[i]]
  <1>2. f[0] = ReadStart(h) /\ f[n + 1] = ReadOn(h, d)  BY <1>1
  <1>3. ASSUME NEW i \in 1 .. n + 1 PROVE f[i] = ReadOn(h, f[i - 1])
    <2>1. i - 1 \in 0 .. n + 1 /\ i - 1 # n + 1 /\ f[i - 1] = g[i - 1]  OBVIOUS
    <2>2. CASE i = n + 1  BY <1>1, <2>1, <2>2
    <2>3. CASE i # n + 1
      <3>1. i \in 1 .. n /\ f[i] = g[i]  BY <2>3
      <3> QED  BY <1>1, <2>1, <3>1
    <2> QED  BY <2>2, <2>3
  <1> HIDE DEF f
  <1> QED  BY <1>2, <1>3 DEF Walk

\* Once it is done, more rounds change nothing.
LEMMA WalkRests ==
  ASSUME NEW h, NEW d, d.done, NEW n \in Nat, Walk(h, n, d)
  PROVE  \A k \in Nat : Walk(h, n + k, d)
  <1> DEFINE T == {k \in Nat : Walk(h, n + k, d)}
  <1>1. 0 \in T  OBVIOUS
  <1>2. ASSUME NEW k \in Nat, k \in T PROVE k + 1 \in T
    <2>1. Walk(h, (n + k) + 1, ReadOn(h, d))  BY <1>2, WalkGoesOn
    <2>2. ReadOn(h, d) = d /\ (n + k) + 1 = n + (k + 1)  BY DEF ReadOn
    <2> QED  BY <2>1, <2>2
  <1> HIDE DEF T
  <1>3. Nat \subseteq T  BY <1>1, <1>2, SetInduction
  <1> QED  BY <1>3 DEF T

\* What the decoder's nine rounds come to.
LEMMA ReadHeaderIs ==
  ASSUME NEW h, NEW d, Walk(h, 9, d)
  PROVE  ReadHeader(h) = d
  <1> DEFINE F(f) == [n \in 0 .. 9 |-> IF n = 0 THEN ReadStart(h) ELSE ReadOn(h, f[n - 1])]
             f == CHOOSE f : f = F(f)
  <1>1. ReadHeader(h) = f[9]  BY DEF ReadHeader, ReadStart, ReadOn
  <1>2. PICK w : w[0] = ReadStart(h) /\ (\A i \in 1 .. 9 : w[i] = ReadOn(h, w[i - 1])) /\ w[9] = d  BY DEF Walk
  <1> DEFINE g == [i \in 0 .. 9 |-> w[i]]
  <1>3. g = F(g)
    <2>1. ASSUME NEW n \in 0 .. 9 PROVE g[n] = IF n = 0 THEN ReadStart(h) ELSE ReadOn(h, g[n - 1])
      <3>1. CASE n = 0  BY <1>2, <3>1
      <3>2. CASE n # 0
        <4>1. n \in 1 .. 9 /\ n - 1 \in 0 .. 9 /\ g[n - 1] = w[n - 1] /\ g[n] = w[n]  BY <3>2
        <4> QED  BY <1>2, <3>2, <4>1
      <3> QED  BY <3>1, <3>2
    <2> QED  BY <2>1
  <1>4. f = F(f)  BY <1>3
  <1> HIDE DEF f
  <1>5. f[0] = ReadStart(h)  BY <1>4
  <1>6. ASSUME NEW n \in 1 .. 9 PROVE f[n] = ReadOn(h, f[n - 1])  BY <1>4
  <1>7. f[0] = w[0]  BY <1>2, <1>5
  <1>8. ASSUME NEW n \in 0 .. 8, f[n] = w[n] PROVE f[n + 1] = w[n + 1]
    <2>1. n + 1 \in 1 .. 9 /\ (n + 1) - 1 = n  OBVIOUS
    <2> QED  BY <1>2, <1>6, <1>8, <2>1
  <1>9. f[1] = w[1] /\ f[2] = w[2] /\ f[3] = w[3]  BY <1>7, <1>8
  <1>10. f[4] = w[4] /\ f[5] = w[5] /\ f[6] = w[6]  BY <1>8, <1>9
  <1>11. f[7] = w[7] /\ f[8] = w[8] /\ f[9] = w[9]  BY <1>8, <1>10
  <1> QED  BY <1>1, <1>2, <1>11

\* A part of the header behind the others.
LEMMA Following ==
  ASSUME NEW a \in Seq(Byte), NEW s \in Seq(Byte), NEW h \in Seq(Nat), Stands(a \o s, 0, h)
  PROVE  /\ Stands(a, 0, h) /\ Stands(s, Len(a), h)
         /\ a \o s \in Seq(Byte) /\ Len(a \o s) = Len(a) + Len(s)
         /\ Len(a) \in Nat /\ Len(s) \in Nat
  <1>1. Len(h) \in Nat /\ Len(a) \in Nat /\ Len(s) \in Nat  BY LenProperties
  <1>2. Stands(a, 0, h) /\ Stands(s, 0 + Len(a), h)  BY <1>1, StandsConcat
  <1> QED  BY <1>1, <1>2, BytesJoin

\* What ReadSegment finds at the element i, and where it goes on.
Found(h, i, m, body, q) ==
  /\ Word(h, i) = m /\ Word(h, i + 2) = Len(body) + 2
  /\ SubSeq(h, i + 4, i + 1 + (Len(body) + 2)) = body
  /\ ~(Len(h) < i + 3) /\ ~(Len(h) < i + 1 + (Len(body) + 2))
  /\ i + 2 + (Len(body) + 2) = q
LEMMA SegmentFound ==
  ASSUME NEW h \in Seq(Nat), NEW a \in Seq(Byte), NEW m \in Nat, m < 256 * 256, NEW body \in Seq(Byte), Len(body) < 256,
         Stands(a \o Segment(m, body), 0, h), NEW i, i = Len(a) + 1
  PROVE  Found(h, i, m, body, Len(a \o Segment(m, body)) + 1)
  <1> DEFINE p == Len(a)
             n == Len(body)
             s == Segment(m, body)
  <1>1. s \in Seq(Byte) /\ Len(s) = n + 4  BY ONLY m \in Nat, body \in Seq(Byte), SegmentIs
  <1>2. p \in Nat /\ n \in Nat /\ n < 256 /\ Len(h) \in Nat  BY LenProperties
  <1>3. Stands(s, p, h) /\ Len(a \o s) = p + (n + 4)
    <2>0. Stands(a \o s, 0, h)  OBVIOUS
    <2> HIDE DEF s
    <2>1. Stands(s, Len(a), h) /\ Len(a \o s) = Len(a) + Len(s)
      BY ONLY <1>1, <2>0, h \in Seq(Nat), a \in Seq(Byte), Following, Zenon
    <2> HIDE DEF n
    <2> QED  BY ONLY <1>1, <2>1, Zenon DEF p
  <1>4. /\ Word(h, p + 1) = m
        /\ Word(h, p + 3) = n + 2
        /\ SubSeq(h, p + 5, p + 4 + n) = body
        /\ Len(h) >= p + 4 + n
    BY <1>2, <1>3, SegmentRead
  <1> HIDE DEF p, n, s
  <1>5. i = p + 1  BY DEF p
  <1>6. i + 2 = p + 3 /\ i + 4 = p + 5 /\ i + 1 + (n + 2) = p + 4 + n
    <2>0. p \in Nat /\ n \in Nat  BY ONLY <1>2
    <2>1. i + 2 = p + 3 /\ i + 4 = p + 5  BY ONLY <2>0, <1>5
    <2>2. i + 1 + (n + 2) = p + 4 + n  BY ONLY <2>0, <1>5
    <2> QED  BY ONLY <2>1, <2>2
  <1>8. i + 2 + (n + 2) = p + (n + 4) + 1  BY <1>2, <1>5
  <1>7. ~(Len(h) < i + 3) /\ ~(Len(h) < i + 1 + (n + 2))  BY <1>2, <1>4, <1>5
  <1> QED  BY <1>3, <1>4, <1>5, <1>6, <1>7, <1>8 DEF n, s, p, Found

\* A segment is taken by its marker.
LEMMA TakenByMarker ==
  ASSUME NEW d, NEW b
  PROVE  /\ Take(DQT, d, b) = TakeDQT(d, b)
         /\ Take(DHT, d, b) = TakeDHT(d, b)
         /\ Take(SOF, d, b) = TakeSOF(d, b)
         /\ Take(DRI, d, b) = TakeDRI(d, b)
         /\ Take(SOS, d, b) = TakeSOS(d, b)
  BY DEF Take, DQT, DHT, SOF, DRI, SOS

\* A segment that follows what has been read is taken by its kind.
MovedTo(d, q) == [d EXCEPT !.at = q]

LEMMA SegmentTaken ==
  ASSUME NEW h \in Seq(Nat), NEW a \in Seq(Byte), NEW m \in Nat, m < 256 * 256, NEW body \in Seq(Byte), Len(body) < 256,
         Stands(a \o Segment(m, body), 0, h), NEW d, d.at = Len(a) + 1
  PROVE  ReadSegment(h, d) = Take(m, MovedTo(d, Len(a \o Segment(m, body)) + 1), body)
  <1> DEFINE l == Len(body) + 2
             i == d.at
             q == Len(a \o Segment(m, body)) + 1
  <1>0. i = Len(a) + 1  OBVIOUS
  <1>a. Found(h, i, m, body, q)
    <2> HIDE DEF i
    <2> QED  BY <1>0, SegmentFound
  <1> HIDE DEF i, q
  <1>1. /\ Word(h, i) = m /\ Word(h, i + 2) = l
        /\ SubSeq(h, i + 4, i + 1 + l) = body
        /\ ~(Len(h) < i + 3) /\ ~(Len(h) < i + 1 + l)
        /\ i + 2 + l = q
    BY <1>a DEF Found
  <1> HIDE DEF l
  <1>2. d.at = i  BY DEF i
  <1>3. MovedOn(d, l) = MovedTo(d, q)
    <2>1. MovedOn(d, l) = [d EXCEPT !.at = d.at + 2 + l]  BY DEF MovedOn
    <2>2. d.at + 2 + l = q  BY <1>1, <1>2
    <2> QED  BY ONLY <2>1, <2>2 DEF MovedTo
  <1>4. /\ Word(h, d.at) = m /\ Word(h, d.at + 2) = l
        /\ SubSeq(h, d.at + 4, d.at + 1 + l) = body
        /\ ~(Len(h) < d.at + 3) /\ ~(Len(h) < d.at + 1 + l)
    BY <1>1, <1>2
  <1>5. ReadSegment(h, d) = Take(m, MovedOn(d, l), body)  BY ONLY <1>4 DEF ReadSegment
  <1> QED  BY <1>3, <1>5 DEF q

\* What each segment leaves the decoder with.
Comps(b, Nf) == [c \in 1 .. Nf |-> SubSeq(b, 4 + 3 * c, 6 + 3 * c)]
Scans(b, Ns) == [c \in 1 .. Ns |-> SubSeq(b, 2 * c, 2 * c + 1)]
\* What a decoder can say of itself.
Yes == TRUE
No == FALSE
\* What a body adds to them.
StepsOf(b, steps) == With(b[1], Tail(b), steps)
TablesOf(b, huffman) == With(b[1], <<SubSeq(b, 2, 17), SubSeq(b, 18, Len(b))>>, huffman)
SizeOf(b) == <<Word(b, 4), Word(b, 2)>>
CompsOf(b) == Comps(b, b[6])
ScansOf(b) == Scans(b, b[1])
IsSteps(b) == Len(b) = 65
IsInterval(b) == Len(b) = 2
IsTable(b) == LET freq == SubSeq(b, 2, 17) IN Len(SubSeq(b, 18, Len(b))) = ValPtr(freq)[16] + freq[16]
IsFrame(b) == b[1] = 8 /\ Len(b) = 6 + 3 * b[6]
IsScan(b) == Len(b) = 4 + 2 * b[1] /\ SubSeq(b, 2 + 2 * b[1], 4 + 2 * b[1]) = <<0, 63, 0>>

LEMMA TakesDQT ==
  ASSUME NEW p, NEW q, NEW ok, NEW done, NEW sz, NEW comps, NEW scan, NEW interval, NEW steps, NEW huffman,
         NEW b, IsSteps(b)
  PROVE  TakeDQT(MovedTo(Decoder(p, ok, done, sz, comps, scan, interval, steps, huffman), q), b)
           = Decoder(q, ok, done, sz, comps, scan, interval, StepsOf(b, steps), huffman)
  BY DEF TakeDQT, IsSteps, StepsOf, MovedTo, Decoder

LEMMA TakesDRI ==
  ASSUME NEW p, NEW q, NEW ok, NEW done, NEW sz, NEW comps, NEW scan, NEW interval, NEW steps, NEW huffman,
         NEW b, IsInterval(b)
  PROVE  TakeDRI(MovedTo(Decoder(p, ok, done, sz, comps, scan, interval, steps, huffman), q), b)
           = Decoder(q, ok, done, sz, comps, scan, Word(b, 1), steps, huffman)
  BY DEF TakeDRI, IsInterval, MovedTo, Decoder

LEMMA TakesDHT ==
  ASSUME NEW p, NEW q, NEW ok, NEW done, NEW sz, NEW comps, NEW scan, NEW interval, NEW steps, NEW huffman,
         NEW b, IsTable(b)
  PROVE  TakeDHT(MovedTo(Decoder(p, ok, done, sz, comps, scan, interval, steps, huffman), q), b)
           = Decoder(q, ok, done, sz, comps, scan, interval, steps, TablesOf(b, huffman))
  BY DEF TakeDHT, IsTable, TablesOf, MovedTo, Decoder

LEMMA TakesSOF ==
  ASSUME NEW p, NEW q, NEW ok, NEW done, NEW sz, NEW comps, NEW scan, NEW interval, NEW steps, NEW huffman,
         NEW b, IsFrame(b)
  PROVE  TakeSOF(MovedTo(Decoder(p, ok, done, sz, comps, scan, interval, steps, huffman), q), b)
           = Decoder(q, ok, done, SizeOf(b), CompsOf(b), scan, interval, steps, huffman)
  BY DEF TakeSOF, IsFrame, SizeOf, CompsOf, Comps, MovedTo, Decoder

LEMMA TakesSOS ==
  ASSUME NEW p, NEW q, NEW ok, NEW done, NEW sz, NEW comps, NEW scan, NEW interval, NEW steps, NEW huffman,
         NEW b, IsScan(b)
  PROVE  TakeSOS(MovedTo(Decoder(p, ok, done, sz, comps, scan, interval, steps, huffman), q), b)
           = Decoder(q, ok, Yes, sz, comps, ScansOf(b), interval, steps, huffman)
  BY DEF TakeSOS, IsScan, ScansOf, Scans, Yes, MovedTo, Decoder

\* A byte before a sequence.
TailIs(b, t) == Tail(b) = t
Begun(b, x, t) ==
  /\ b \in Seq(Byte) /\ Len(b) = Len(t) + 1 /\ Len(t) \in Nat
  /\ b[1] = x /\ TailIs(b, t)
  /\ \A i \in 1 .. Len(t) : b[i + 1] = t[i]

LEMMA ByteBefore ==
  ASSUME NEW x \in Byte, NEW t \in Seq(Byte)
  PROVE  Begun(<<x>> \o t, x, t)
  <1> DEFINE b == <<x>> \o t
  <1>0. b = <<x>> \o t  OBVIOUS
  <1>1. <<x>> \in Seq(Byte) /\ Len(<<x>>) = 1 /\ <<x>>[1] = x  OBVIOUS
  <1>2. Len(t) \in Nat  BY LenProperties
  <1>3. b \in Seq(Byte) /\ Len(b) = Len(t) + 1 /\ \A i \in 1 .. Len(t) + 1 : b[i] = IF i <= 1 THEN <<x>>[i] ELSE t[i - 1]
    BY <1>1, <1>2, ConcatProperties
  <1> HIDE DEF b
  <1>4. b[1] = x /\ \A i \in 1 .. Len(t) : b[i + 1] = t[i]  BY <1>1, <1>2, <1>3
  <1>5. b # <<>>  BY <1>2, <1>3
  <1>6. Tail(b) \in Seq(Byte) /\ Len(Tail(b)) = Len(t) /\ \A i \in 1 .. Len(t) : Tail(b)[i] = b[i + 1]
    <2>1. Tail(b) \in Seq(Byte) /\ Len(Tail(b)) = Len(b) - 1 /\ \A i \in 1 .. Len(Tail(b)) : Tail(b)[i] = b[i + 1]
      BY <1>3, <1>5, HeadTailProperties
    <2> QED  BY <1>2, <1>3, <2>1
  <1>7. Tail(b) = t
    <2> DEFINE u == Tail(b)
    <2>1. u \in Seq(Byte) /\ Len(u) = Len(t) /\ \A i \in 1 .. Len(t) : u[i] = t[i]  BY <1>4, <1>6
    <2> HIDE DEF u
    <2>2. u = t  BY <2>1, SeqEqual
    <2> QED  BY <2>2 DEF u
  <1>8. Begun(b, x, t)  BY <1>2, <1>3, <1>4, <1>7 DEF Begun, TailIs
  <1> QED  BY <1>8 DEF b

-----------------------------------------------------------------------------
(* The segments, each with its body. *)

\* Concatenation is associative; the marker and the length before two, three and five
\* parts of a body.
Glued(s, t) == s \o t \in Seq(Byte)
Regrouped(a, b, c) == a \o b \o c = a \o (b \o c)
Regrouped3(o, a, b, c) == o \o a \o b \o c = o \o (a \o b \o c) /\ a \o b \o c \in Seq(Byte)
Regrouped5(o, a, b, c, d, e) ==
  o \o a \o b \o c \o d \o e = o \o (a \o b \o c \o d \o e) /\ a \o b \o c \o d \o e \in Seq(Byte)

LEMMA BytesJoined ==
  ASSUME NEW s \in Seq(Byte), NEW t \in Seq(Byte)
  PROVE  Glued(s, t)
  BY BytesJoin DEF Glued

LEMMA BytesAssoc ==
  ASSUME NEW a \in Seq(Byte), NEW b \in Seq(Byte), NEW c \in Seq(Byte)
  PROVE  Regrouped(a, b, c)
  BY ConcatAssociative DEF Regrouped

LEMMA Assoc3 ==
  ASSUME NEW o \in Seq(Byte), NEW a \in Seq(Byte), NEW b \in Seq(Byte), NEW c \in Seq(Byte)
  PROVE  Regrouped3(o, a, b, c)
  <1> DEFINE x == a \o b
  <1>1. x \in Seq(Byte) /\ x \o c \in Seq(Byte)
    <2>1. x \in Seq(Byte)  BY BytesJoined DEF Glued
    <2> HIDE DEF x
    <2>2. Glued(x, c)  BY <2>1, BytesJoined
    <2> QED  BY <2>1, <2>2 DEF Glued
  <1>2. Regrouped(o, a, b)  BY BytesAssoc
  <1>3. o \o a \o b = o \o x  BY ONLY <1>2 DEF Regrouped
  <1> HIDE DEF x
  <1>4. Regrouped(o, x, c)  BY <1>1, BytesAssoc
  <1>5. o \o a \o b \o c = o \o (x \o c)  BY ONLY <1>3, <1>4 DEF Regrouped
  <1> QED  BY ONLY <1>1, <1>5 DEF x, Regrouped3

LEMMA Assoc5 ==
  ASSUME NEW o \in Seq(Byte), NEW a \in Seq(Byte), NEW b \in Seq(Byte), NEW c \in Seq(Byte), NEW d \in Seq(Byte),
         NEW e \in Seq(Byte)
  PROVE  Regrouped5(o, a, b, c, d, e)
  <1> DEFINE x == a \o b \o c
             y == x \o d
  <1>0. Regrouped3(o, a, b, c)  BY Assoc3
  <1>1. x \in Seq(Byte) /\ o \o a \o b \o c = o \o x  BY ONLY <1>0 DEF Regrouped3
  <1> HIDE DEF x
  <1>2. y \in Seq(Byte) /\ y \o e \in Seq(Byte)
    <2>1. Glued(x, d)  BY <1>1, BytesJoined
    <2>2. y \in Seq(Byte)  BY ONLY <2>1 DEF Glued
    <2> HIDE DEF y
    <2>3. Glued(y, e)  BY <2>2, BytesJoined
    <2> QED  BY <2>2, <2>3 DEF Glued
  <1>3. Regrouped(o, x, d)  BY <1>1, BytesAssoc
  <1>4. o \o x \o d = o \o y  BY ONLY <1>3 DEF Regrouped
  <1> HIDE DEF y
  <1>5. Regrouped(o, y, e)  BY <1>2, BytesAssoc
  <1>6. o \o y \o e = o \o (y \o e)  BY ONLY <1>5 DEF Regrouped
  <1>7. o \o a \o b \o c \o d \o e = o \o (y \o e)  BY ONLY <1>1, <1>4, <1>6
  <1> QED  BY ONLY <1>2, <1>7 DEF x, y, Regrouped5

\* The marker and the length of a segment.
LEMMA OpenerIs ==
  ASSUME NEW m \in Nat, NEW n \in Nat
  PROVE  put_word(m) \o put_word(n) \in Seq(Byte)
  <1>1. put_word(m) \in Seq(Byte) /\ put_word(n) \in Seq(Byte)  BY WordIs
  <1> QED  BY <1>1, BytesJoin

\* The order of the zigzag is one of the indices of a block.
LEMMA IndicesInBlock == \A n \in 1 .. 64 : indices[n] \in 0 .. 63
  BY DEF indices

LEMMA PlacesInBlock == \A n \in 1 .. 64 : indices[n] + 1 \in 1 .. 64
  <1>1. ASSUME NEW x \in 0 .. 63 PROVE x + 1 \in 1 .. 64  OBVIOUS
  <1>2. ASSUME NEW n \in 1 .. 64 PROVE indices[n] + 1 \in 1 .. 64
    <2>1. indices[n] \in 0 .. 63  BY ONLY IndicesInBlock, n \in 1 .. 64
    <2> QED  BY ONLY <1>1, <2>1
  <1> QED  BY ONLY <1>2

\* The steps as the segment has them.
Announced(qtable) == [n \in 1 .. 64 |-> qtable[indices[n] + 1] % 256]

StepsBody(c, qtable) == <<c>> \o Announced(qtable)

LEMMA DQTIs ==
  ASSUME NEW c \in {0, 1}, NEW qtable \in [1 .. 64 -> Int]
  PROVE  /\ Announced(qtable) \in Seq(Byte) /\ Len(Announced(qtable)) = 64
         /\ create_DQT(c, qtable) = Segment(DQT, StepsBody(c, qtable))
         /\ StepsBody(c, qtable) \in Seq(Byte) /\ Len(StepsBody(c, qtable)) = 65
         /\ StepsBody(c, qtable)[1] = c /\ TailIs(StepsBody(c, qtable), Announced(qtable))
  <1> DEFINE t == Announced(qtable)
             b == StepsBody(c, qtable)
  <1>0. b = <<c>> \o t  BY DEF StepsBody
  <1>1. t \in Seq(Byte) /\ Len(t) = 64
    <2>1. ASSUME NEW n \in 1 .. 64 PROVE qtable[indices[n] + 1] % 256 \in Byte
      <3>1. indices[n] + 1 \in 1 .. 64  BY ONLY PlacesInBlock, n \in 1 .. 64
      <3> DEFINE i == indices[n] + 1
                 x == qtable[i]
      <3> HIDE DEF i
      <3>2. x \in Int  BY ONLY <3>1, qtable \in [1 .. 64 -> Int] DEF i
      <3> HIDE DEF x
      <3>3. x % 256 \in Byte  BY ONLY <3>2, ByteIs
      <3> QED  BY ONLY <3>3 DEF x, i
    <2>2. t \in [1 .. 64 -> Byte]  BY <2>1 DEF Announced
    <2> DEFINE k == 64
    <2>3. k \in Nat /\ t \in [1 .. k -> Byte]  BY <2>2
    <2> HIDE DEF t, k
    <2>4. t \in Seq(Byte) /\ Len(t) = k  BY <2>3, FunctionIsSeq
    <2> QED  BY <2>4 DEF k
  <1>2. c \in Byte /\ put_byte(c) = <<c>> /\ <<c>> \in Seq(Byte)
    <2>1. c \in Nat /\ c < 256  OBVIOUS
    <2>2. c \in Byte  BY <2>1, ByteIs
    <2>3. put_byte(c) = <<c>>  BY <2>1, SmallByte
    <2> QED  BY <2>2, <2>3
  <1>3. create_DQT(c, qtable) = put_word(DQT) \o put_word(67) \o put_byte(c) \o t  BY DEF create_DQT, Announced
  <1>4. put_word(DQT) \o put_word(67) \in Seq(Byte)
    <2>1. DQT \in Nat /\ 67 \in Nat  BY DEF DQT
    <2> QED  BY <2>1, OpenerIs
  <1> HIDE DEF t
  <1>5. b \in Seq(Byte) /\ Len(b) = 65 /\ b[1] = c /\ TailIs(b, t)
    <2>0. Begun(<<c>> \o t, c, t)  BY ONLY <1>1, <1>2, ByteBefore
    <2>1. Begun(b, c, t)  BY <1>0, <2>0
    <2> HIDE DEF b
    <2> QED  BY ONLY <1>1, <2>1 DEF Begun
  <1>6. create_DQT(c, qtable) = put_word(DQT) \o put_word(67) \o b
    <2> DEFINE o == put_word(DQT) \o put_word(67)
               x == <<c>>
    <2>1. o \in Seq(Byte) /\ x \in Seq(Byte) /\ t \in Seq(Byte)  BY <1>1, <1>2, <1>4
    <2> HIDE DEF o, x
    <2>2. Regrouped(o, x, t)  BY <2>1, BytesAssoc
    <2>3. create_DQT(c, qtable) = o \o x \o t  BY <1>2, <1>3 DEF o, x
    <2> QED  BY <1>0, <2>2, <2>3 DEF o, x, Regrouped
  <1>7. create_DQT(c, qtable) = Segment(DQT, b)
    <2> HIDE DEF b
    <2> QED  BY <1>5, <1>6 DEF Segment
  <1> QED  BY ONLY <1>1, <1>5, <1>7 DEF t, b

\* A part of a part is a part.
LEMMA StandsWithin ==
  ASSUME NEW x, NEW a, NEW t, NEW p \in Nat, NEW q \in Nat, Len(x) \in Nat, Len(a) \in Nat, Len(t) \in Nat,
         Stands(x, p, a), Stands(a, q, t)
  PROVE  Stands(x, q + p, t)
  <1>1. p + Len(x) <= Len(a) /\ \A i \in 1 .. Len(x) : a[p + i] = x[i]  BY DEF Stands
  <1>2. q + Len(a) <= Len(t) /\ \A i \in 1 .. Len(a) : t[q + i] = a[i]  BY DEF Stands
  <1>3. ASSUME NEW i \in 1 .. Len(x) PROVE t[(q + p) + i] = x[i]
    <2>1. p + i \in 1 .. Len(a) /\ q + (p + i) = (q + p) + i  BY <1>1
    <2>2. t[q + (p + i)] = a[p + i]  BY <1>2, <2>1
    <2> QED  BY <1>1, <2>1, <2>2
  <1>4. (q + p) + Len(x) <= Len(t)  BY <1>1, <1>2
  <1> QED  BY <1>3, <1>4 DEF Stands

\* Two parts, one behind the other, and the whole.
TwoParts(a, b, t) ==
  t \in Seq(Byte) /\ Len(t) = Len(a) + Len(b) /\ Len(a) \in Nat /\ Len(b) \in Nat /\ Stands(a, 0, t) /\ Stands(b, Len(a), t)

LEMMA ConcatParts ==
  ASSUME NEW a \in Seq(Byte), NEW b \in Seq(Byte)
  PROVE  TwoParts(a, b, a \o b)
  <1> DEFINE t == a \o b
             m == Len(a)
             n == Len(b)
  <1>1. m \in Nat /\ n \in Nat  BY LenProperties
  <1>2. t \in Seq(Byte) /\ Len(t) = m + n  BY BytesJoin
  <1>3. \A i \in 1 .. m + n : t[i] = IF i <= m THEN a[i] ELSE b[i - m]  BY ConcatProperties
  <1>4. ASSUME NEW i \in 1 .. m PROVE t[0 + i] = a[i]
    <2>1. i \in 1 .. m + n /\ i <= m /\ 0 + i = i  BY <1>1
    <2> HIDE DEF t, m, n
    <2> QED  BY <1>3, <2>1
  <1>5. ASSUME NEW i \in 1 .. n PROVE t[m + i] = b[i]
    <2>1. m + i \in 1 .. m + n /\ ~(m + i <= m) /\ (m + i) - m = i  BY <1>1
    <2> HIDE DEF t, m, n
    <2> QED  BY <1>3, <2>1
  <1> HIDE DEF t, m, n
  <1>6. 0 + m <= m + n  BY <1>1
  <1>7. Stands(a, 0, t) /\ Stands(b, m, t)  BY <1>1, <1>2, <1>4, <1>5, <1>6 DEF Stands, m, n
  <1>8. TwoParts(a, b, t)  BY <1>1, <1>2, <1>7 DEF TwoParts, m, n
  <1> QED  BY <1>8 DEF t

\* Three parts.
ThreeParts(a, b, c, t) ==
  /\ t \in Seq(Byte) /\ Len(t) = Len(a) + Len(b) + Len(c) /\ Len(a) \in Nat /\ Len(b) \in Nat /\ Len(c) \in Nat
  /\ Stands(a, 0, t) /\ Stands(b, Len(a), t) /\ Stands(c, Len(a) + Len(b), t)

LEMMA ConcatThree ==
  ASSUME NEW a \in Seq(Byte), NEW b \in Seq(Byte), NEW c \in Seq(Byte)
  PROVE  ThreeParts(a, b, c, a \o b \o c)
  <1> DEFINE x == a \o b
             t == x \o c
  <1>1. TwoParts(a, b, x)  BY ConcatParts
  <1> HIDE DEF x
  <1>2. x \in Seq(Byte)  BY <1>1 DEF TwoParts
  <1>3. TwoParts(x, c, t)  BY <1>2, ConcatParts
  <1> HIDE DEF t
  <1>4. Stands(a, 0 + 0, t) /\ Stands(b, 0 + Len(a), t)  BY <1>1, <1>3, StandsWithin DEF TwoParts
  <1>5. ThreeParts(a, b, c, t)  BY <1>1, <1>3, <1>4 DEF TwoParts, ThreeParts
  <1> QED  BY <1>5 DEF t, x

\* Five.
FiveParts(a, b, c, d, e, t) ==
  /\ t \in Seq(Byte) /\ Len(t) = Len(a) + Len(b) + Len(c) + Len(d) + Len(e)
  /\ Stands(a, 0, t) /\ Stands(b, Len(a), t) /\ Stands(c, Len(a) + Len(b), t)
  /\ Stands(d, Len(a) + Len(b) + Len(c), t) /\ Stands(e, Len(a) + Len(b) + Len(c) + Len(d), t)

LEMMA ConcatFive ==
  ASSUME NEW a \in Seq(Byte), NEW b \in Seq(Byte), NEW c \in Seq(Byte), NEW d \in Seq(Byte), NEW e \in Seq(Byte)
  PROVE  FiveParts(a, b, c, d, e, a \o b \o c \o d \o e)
  <1> DEFINE x == a \o b \o c
             t == x \o d \o e
  <1>1. ThreeParts(a, b, c, x)  BY ConcatThree
  <1> HIDE DEF x
  <1>2. x \in Seq(Byte)  BY <1>1 DEF ThreeParts
  <1>3. ThreeParts(x, d, e, t)  BY <1>2, ConcatThree
  <1> HIDE DEF t
  <1>4. Stands(a, 0 + 0, t) /\ Stands(b, 0 + Len(a), t)  BY <1>1, <1>3, StandsWithin DEF ThreeParts
  <1>5. Stands(c, 0 + (Len(a) + Len(b)), t)
    <2>1. Len(a) + Len(b) \in Nat /\ Len(c) \in Nat /\ Stands(c, Len(a) + Len(b), x)  BY <1>1 DEF ThreeParts
    <2>2. Len(x) \in Nat /\ Stands(x, 0, t) /\ Len(t) \in Nat
      <3>1. t \in Seq(Byte) /\ Len(x) \in Nat /\ Stands(x, 0, t)  BY <1>3 DEF ThreeParts
      <3> QED  BY <3>1, LenProperties
    <2> QED  BY ONLY <2>1, <2>2, StandsWithin
  <1>6. FiveParts(a, b, c, d, e, t)  BY <1>1, <1>3, <1>4, <1>5 DEF ThreeParts, FiveParts
  <1> QED  BY <1>6 DEF t, x

\* What FlattenSeq makes of one and of three sequences.
FlattensAs(a, b, c) == FlattenSeq(<<a, b, c>>) = a \o b \o c

LEMMA FlattenThree ==
  ASSUME NEW a, NEW b, NEW c
  PROVE  FlattensAs(a, b, c)
  <1> DEFINE s == <<a, b, c>>
             g == <<a, a \o b, a \o b \o c>>
  <1>1. 3 \in Nat \ {0} /\ Len(s) = 3 /\ g = [i \in 1 .. 3 |-> g[i]] /\ g[1] = s[1]  OBVIOUS
  <1>a. g[1] = a /\ g[2] = a \o b /\ g[3] = (a \o b) \o c  OBVIOUS
  <1>b. s[2] = b /\ s[3] = c  OBVIOUS
  <1>2. ASSUME NEW i \in 2 .. 3 PROVE g[i] = g[i - 1] \o s[i]
    <2>1. (i = 2 /\ i - 1 = 1) \/ (i = 3 /\ i - 1 = 2)  OBVIOUS
    <2> HIDE DEF g, s
    <2>2. CASE i = 2 /\ i - 1 = 1  BY <1>a, <1>b, <2>2
    <2>3. CASE i = 3 /\ i - 1 = 2  BY <1>a, <1>b, <2>3
    <2> QED  BY <2>1, <2>2, <2>3
  <1>3. g[3] = a \o b \o c  OBVIOUS
  <1> HIDE DEF g, s
  <1>4. FlattenSeq(s) = g[3]  BY <1>1, <1>2, FlattenByPrefixes
  <1> QED  BY <1>3, <1>4 DEF s, FlattensAs

\* The sampling factors fill their halves of a byte.
LEMMA FactorsFit ==
  ASSUME NEW ycc \in YCC, NEW chroma \in BOOLEAN
  PROVE  YCC_HV(ycc, chroma) \in Nat /\ YCC_HV(ycc, chroma) < 256
  <1>1. H[ycc] \in {1, 2, 4}  BY DEF H
  <1>2. V[ycc] \in {1, 2}  BY DEF V
  <1>3. 16 * H[ycc] + V[ycc] \in Nat /\ 16 * H[ycc] + V[ycc] < 256  BY <1>1, <1>2
  <1> QED  BY <1>3 DEF YCC_HV

\* One component of the frame, and of the scan.
Component(C, ycc) == put_byte(C - 1) \o put_byte(YCC_HV(ycc, C > 1)) \o put_byte(IF C > 1 THEN 1 ELSE 0)
ScanComponent(C) == put_byte(C - 1) \o put_byte(IF C > 1 THEN 17 ELSE 0)

LEMMA TripleIsConcat ==
  ASSUME NEW x, NEW y, NEW z
  PROVE  <<x, y>> \o <<z>> = <<x, y, z>>
  <1> DEFINE S == {x, y, z}
             u == <<x, y>>
             w == <<z>>
             v == <<x, y, z>>
  <1>1. u \in Seq(S) /\ w \in Seq(S) /\ v \in Seq(S) /\ Len(u) = 2 /\ Len(w) = 1 /\ Len(v) = 3  OBVIOUS
  <1>2. u[1] = x /\ u[2] = y /\ w[1] = z /\ v[1] = x /\ v[2] = y /\ v[3] = z  OBVIOUS
  <1> HIDE DEF S, u, v, w
  <1>3. /\ u \o w \in Seq(S) /\ Len(u \o w) = 3
        /\ (u \o w)[1] = x /\ (u \o w)[2] = y /\ (u \o w)[3] = z
    <2>1. u \in Seq(S) /\ w \in Seq(S)  BY <1>1
    <2>2. u \o w \in Seq(S) /\ Len(u \o w) = Len(u) + Len(w)
      BY ONLY <2>1, ConcatProperties
    <2>3. \A i \in 1 .. Len(u) + Len(w) : (u \o w)[i] = IF i <= Len(u) THEN u[i] ELSE w[i - Len(u)]
      BY ONLY <2>1, ConcatProperties
    <2> DEFINE m == Len(u)
               n == Len(w)
    <2>a. m = 2 /\ n = 1  BY <1>1
    <2>b. \A i \in 1 .. m + n : (u \o w)[i] = IF i <= m THEN u[i] ELSE w[i - m]  BY <2>3
    <2> DEFINE t == u \o w
    <2>c. \A i \in 1 .. m + n : t[i] = IF i <= m THEN u[i] ELSE w[i - m]  BY <2>b
    <2> HIDE DEF m, n, t
    <2>4. t[1] = u[1]
      <3>1. 1 \in 1 .. m + n /\ 1 <= m  BY <2>a
      <3> QED  BY ONLY <2>c, <3>1
    <2>5. t[2] = u[2]
      <3>1. 2 \in 1 .. m + n /\ 2 <= m  BY <2>a
      <3> QED  BY ONLY <2>c, <3>1
    <2>6. t[3] = w[1]
      <3>1. 3 \in 1 .. m + n /\ ~(3 <= m) /\ 3 - m = 1  BY <2>a
      <3>2. t[3] = w[3 - m]  BY ONLY <2>c, <3>1
      <3> QED  BY ONLY <3>1, <3>2
    <2> QED  BY <1>2, <2>2, <2>a, <2>4, <2>5, <2>6 DEF t, m, n
  <1>4. \A i \in 1 .. 3 : (u \o w)[i] = v[i]
    <2>1. \A i \in 1 .. 3 : i = 1 \/ i = 2 \/ i = 3  OBVIOUS
    <2> QED  BY ONLY <1>2, <1>3, <2>1
  <1>5. u \o w = v  BY <1>1, <1>3, <1>4, SeqEqual
  <1> QED  BY <1>5 DEF u, v, w

\* Three bytes, one after another.
LEMMA ThreeBytes ==
  ASSUME NEW x \in Nat, x < 256, NEW y \in Nat, y < 256, NEW z \in Nat, z < 256
  PROVE  /\ put_byte(x) \o put_byte(y) \o put_byte(z) = <<x, y, z>>
         /\ <<x, y, z>> \in Seq(Byte)
  <1>1. put_byte(x) = <<x>> /\ put_byte(y) = <<y>> /\ put_byte(z) = <<z>>  BY SmallByte
  <1>2. <<x>> \o <<y>> = <<x, y>>  BY PairIsConcat
  <1>3. <<x, y>> \o <<z>> = <<x, y, z>>  BY TripleIsConcat
  <1>4. x \in Byte /\ y \in Byte /\ z \in Byte  BY ByteIs
  <1>5. <<x, y, z>> \in Seq(Byte)  BY <1>4
  <1> QED  BY ONLY <1>1, <1>2, <1>3, <1>5

LEMMA TwoBytes ==
  ASSUME NEW x \in Nat, x < 256, NEW y \in Nat, y < 256
  PROVE  put_byte(x) \o put_byte(y) = <<x, y>> /\ <<x, y>> \in Seq(Byte)
  <1>1. put_byte(x) = <<x>> /\ put_byte(y) = <<y>>  BY SmallByte
  <1>2. <<x>> \o <<y>> = <<x, y>>  BY PairIsConcat
  <1>4. x \in Byte /\ y \in Byte  BY ByteIs
  <1>5. <<x, y>> \in Seq(Byte)  BY <1>4
  <1> QED  BY ONLY <1>1, <1>2, <1>5

LEMMA ComponentIs ==
  ASSUME NEW C \in 1 .. 3, NEW ycc \in YCC
  PROVE  /\ Component(C, ycc) = <<C - 1, YCC_HV(ycc, C > 1), IF C > 1 THEN 1 ELSE 0>>
         /\ Component(C, ycc) \in Seq(Byte) /\ Len(Component(C, ycc)) = 3
  <1> DEFINE x == C - 1
             y == YCC_HV(ycc, C > 1)
             z == IF C > 1 THEN 1 ELSE 0
  <1>1. x \in Nat /\ x < 256 /\ z \in Nat /\ z < 256  OBVIOUS
  <1>2. y \in Nat /\ y < 256
    <2>1. (C > 1) \in BOOLEAN  OBVIOUS
    <2> QED  BY <2>1, FactorsFit
  <1>3. Component(C, ycc) = put_byte(x) \o put_byte(y) \o put_byte(z)  BY DEF Component
  <1> HIDE DEF x, y, z
  <1>4. Component(C, ycc) = <<x, y, z>> /\ <<x, y, z>> \in Seq(Byte)  BY <1>1, <1>2, <1>3, ThreeBytes
  <1>5. Len(<<x, y, z>>) = 3  OBVIOUS
  <1> QED  BY ONLY <1>4, <1>5 DEF x, y, z

LEMMA ScanComponentIs ==
  ASSUME NEW C \in 1 .. 3
  PROVE  /\ ScanComponent(C) = <<C - 1, IF C > 1 THEN 17 ELSE 0>>
         /\ ScanComponent(C) \in Seq(Byte) /\ Len(ScanComponent(C)) = 2
  <1> DEFINE x == C - 1
             z == IF C > 1 THEN 17 ELSE 0
  <1>1. x \in Nat /\ x < 256 /\ z \in Nat /\ z < 256  OBVIOUS
  <1>3. ScanComponent(C) = put_byte(x) \o put_byte(z)  BY DEF ScanComponent
  <1> HIDE DEF x, z
  <1>4. ScanComponent(C) = <<x, z>> /\ <<x, z>> \in Seq(Byte)  BY <1>1, <1>3, TwoBytes
  <1>5. Len(<<x, z>>) = 2  OBVIOUS
  <1> QED  BY ONLY <1>4, <1>5 DEF x, z

\* One or three parts of the same length, one behind the other.
Parts(n, k, f, t) ==
  /\ t \in Seq(Byte) /\ Len(t) = k * n
  /\ \A C \in 1 .. n : Stands(f[C], k * (C - 1), t)

LEMMA PartsFlattened ==
  ASSUME NEW n \in {1, 3}, NEW k \in Nat, NEW f, f = [C \in 1 .. n |-> f[C]],
         \A C \in 1 .. n : f[C] \in Seq(Byte) /\ Len(f[C]) = k
  PROVE  Parts(n, k, f, FlattenSeq(f))
  <1>1. CASE n = 1
    <2> DEFINE a == f[1]
    <2>1. a \in Seq(Byte) /\ Len(a) = k  BY <1>1
    <2>2. f = <<a>>  BY <1>1
    <2>3. FlattenSeq(f) = a  BY <2>1, <2>2, FlattenOne
    <2>4. Stands(a, 0, a)  BY <2>1 DEF Stands
    <2>5. \A C \in 1 .. 1 : f[C] = a /\ k * (C - 1) = 0  OBVIOUS
    <2> HIDE DEF a
    <2>6. Parts(1, k, f, a)  BY <2>1, <2>4, <2>5 DEF Parts
    <2> QED  BY <1>1, <2>3, <2>6
  <1>2. CASE n = 3
    <2> DEFINE a == f[1]
               b == f[2]
               c == f[3]
               t == a \o b \o c
    <2>1. a \in Seq(Byte) /\ Len(a) = k /\ b \in Seq(Byte) /\ Len(b) = k /\ c \in Seq(Byte) /\ Len(c) = k  BY <1>2
    <2>2. f = <<a, b, c>>
      <3>1. f = [C \in 1 .. 3 |-> f[C]]  BY <1>2
      <3> QED  BY ONLY <3>1
    <2>5. \A C \in 1 .. 3 : (C = 1 /\ f[C] = a) \/ (C = 2 /\ f[C] = b) \/ (C = 3 /\ f[C] = c)  OBVIOUS
    <2> HIDE DEF a, b, c
    <2>3. FlattenSeq(f) = t
      <3>0. FlattensAs(a, b, c)  BY FlattenThree
      <3>1. FlattenSeq(<<a, b, c>>) = t  BY ONLY <3>0 DEF FlattensAs
      <3> QED  BY ONLY <2>2, <3>1
    <2>6. ThreeParts(a, b, c, t)  BY ONLY <2>1, ConcatThree
    <2> HIDE DEF t
    <2>7. t \in Seq(Byte) /\ Len(t) = k + k + k /\ Stands(a, 0, t) /\ Stands(b, k, t) /\ Stands(c, k + k, t)
      BY ONLY <2>1, <2>6 DEF ThreeParts
    <2>8. k + k + k = k * 3 /\ k * 0 = 0 /\ k * 1 = k /\ k * 2 = k + k  OBVIOUS
    <2>9. ASSUME NEW C \in 1 .. 3 PROVE Stands(f[C], k * (C - 1), t)
      <3>1. CASE C = 1 /\ f[C] = a
        <4>1. k * (C - 1) = 0  BY <3>1
        <4> QED  BY ONLY <2>7, <3>1, <4>1
      <3>2. CASE C = 2 /\ f[C] = b
        <4>1. k * (C - 1) = k  BY <3>2
        <4> QED  BY ONLY <2>7, <3>2, <4>1
      <3>3. CASE C = 3 /\ f[C] = c
        <4>1. k * (C - 1) = k + k  BY <3>3
        <4> QED  BY ONLY <2>7, <3>3, <4>1
      <3> QED  BY <2>5, <3>1, <3>2, <3>3
    <2>10. Parts(3, k, f, t)  BY ONLY <2>7, <2>8, <2>9 DEF Parts
    <2> QED  BY <1>2, <2>3, <2>10
  <1> QED  BY <1>1, <1>2

\* What stands in the body of a frame.
FrameBody(b, Y, X, Nf, ycc) ==
  /\ b \in Seq(Byte) /\ Len(b) = 6 + 3 * Nf /\ b[1] = 8 /\ b[6] = Nf
  /\ Stands(put_word(Y), 1, b) /\ Stands(put_word(X), 3, b)
  /\ \A C \in 1 .. Nf : Stands(Component(C, ycc), 3 + 3 * C, b)

SOFBody(Y, X, Nf, ycc) ==
  put_byte(8) \o put_word(Y) \o put_word(X) \o put_byte(Nf) \o FlattenSeq([C \in 1 .. Nf |-> Component(C, ycc)])

LEMMA SOFIs ==
  ASSUME NEW Y \in Nat, NEW X \in Nat, NEW Nf \in {1, 3}, NEW ycc \in YCC
  PROVE  /\ create_SOF(Y, X, Nf, ycc) = Segment(SOF, SOFBody(Y, X, Nf, ycc))
         /\ FrameBody(SOFBody(Y, X, Nf, ycc), Y, X, Nf, ycc)
  <1> DEFINE f == [C \in 1 .. Nf |-> Component(C, ycc)]
             p == put_byte(8)
             y == put_word(Y)
             x == put_word(X)
             n == put_byte(Nf)
             t == FlattenSeq(f)
             o == put_word(SOF) \o put_word(8 + 3 * Nf)
             b == SOFBody(Y, X, Nf, ycc)
  <1>1. p \in Seq(Byte) /\ Len(p) = 1 /\ p[1] = 8
    <2>1. 8 \in Nat /\ 8 < 256  OBVIOUS
    <2>2. p = <<8>> /\ p \in Seq(Byte) /\ Len(p) = 1  BY <2>1, SmallByte
    <2>3. <<8>>[1] = 8  OBVIOUS
    <2> QED  BY ONLY <2>2, <2>3
  <1>2. y \in Seq(Byte) /\ Len(y) = 2  BY WordIs
  <1>3. x \in Seq(Byte) /\ Len(x) = 2  BY WordIs
  <1>4. n \in Seq(Byte) /\ Len(n) = 1 /\ n[1] = Nf
    <2>1. Nf \in Nat /\ Nf < 256  OBVIOUS
    <2>2. n = <<Nf>> /\ n \in Seq(Byte) /\ Len(n) = 1  BY <2>1, SmallByte
    <2>3. <<Nf>>[1] = Nf  OBVIOUS
    <2> QED  BY ONLY <2>2, <2>3
  <1>5. Parts(Nf, 3, f, t)
    <2>1. \A C \in 1 .. Nf : f[C] \in Seq(Byte) /\ Len(f[C]) = 3
      <3>1. \A C \in 1 .. Nf : C \in 1 .. 3 /\ f[C] = Component(C, ycc)  OBVIOUS
      <3> HIDE DEF f
      <3> QED  BY <3>1, ComponentIs
    <2>2. f = [C \in 1 .. Nf |-> f[C]]  OBVIOUS
    <2> HIDE DEF f
    <2> QED  BY <2>1, <2>2, PartsFlattened
  <1>6. t \in Seq(Byte) /\ Len(t) = 3 * Nf  BY <1>5 DEF Parts
  <1>7. o \in Seq(Byte)
    <2>1. SOF \in Nat /\ 8 + 3 * Nf \in Nat  BY DEF SOF
    <2> QED  BY <2>1, OpenerIs
  <1>8. b = p \o y \o x \o n \o t  BY DEF SOFBody
  <1>9. create_SOF(Y, X, Nf, ycc) = o \o p \o y \o x \o n \o t  BY DEF create_SOF, Component
  <1>10. \A C \in 1 .. Nf : f[C] = Component(C, ycc)  OBVIOUS
  <1> HIDE DEF p, y, x, n, t, f
  <1>11. Regrouped5(o, p, y, x, n, t)
    <2> HIDE DEF o
    <2> QED  BY ONLY <1>1, <1>2, <1>3, <1>4, <1>6, <1>7, Assoc5
  <1>12. create_SOF(Y, X, Nf, ycc) = o \o b
    <2> HIDE DEF o, b
    <2> QED  BY ONLY <1>8, <1>9, <1>11 DEF Regrouped5
  <1>13. FiveParts(p, y, x, n, t, b)
    <2>1. FiveParts(p, y, x, n, t, p \o y \o x \o n \o t)  BY ONLY <1>1, <1>2, <1>3, <1>4, <1>6, ConcatFive
    <2> QED  BY ONLY <1>8, <2>1
  <1> HIDE DEF b
  <1>14. /\ b \in Seq(Byte) /\ Len(b) = 6 + 3 * Nf
         /\ Stands(p, 0, b) /\ Stands(y, 1, b) /\ Stands(x, 3, b) /\ Stands(n, 5, b) /\ Stands(t, 6, b)
    BY ONLY <1>1, <1>2, <1>3, <1>4, <1>6, <1>13, Nf \in {1, 3} DEF FiveParts
  <1>15. b[1] = 8 /\ b[6] = Nf
    <2>1. 1 \in 1 .. 1 /\ 0 + 1 = 1 /\ 5 + 1 = 6  OBVIOUS
    <2>2. b[0 + 1] = p[1]  BY ONLY <1>1, <1>14, <2>1 DEF Stands
    <2>3. b[5 + 1] = n[1]  BY ONLY <1>4, <1>14, <2>1 DEF Stands
    <2> QED  BY ONLY <1>1, <1>4, <2>1, <2>2, <2>3
  <1>16. ASSUME NEW C \in 1 .. Nf PROVE Stands(Component(C, ycc), 3 + 3 * C, b)
    <2> DEFINE z == Component(C, ycc)
    <2>1. C \in 1 .. 3  OBVIOUS
    <2>2. Stands(z, 3 * (C - 1), t)  BY <1>5, <1>10 DEF Parts
    <2>3. z \in Seq(Byte) /\ Len(z) = 3  BY <2>1, ComponentIs
    <2> HIDE DEF z
    <2>4. 3 * (C - 1) \in Nat /\ 6 + 3 * (C - 1) = 3 + 3 * C  BY <2>1
    <2>5. Len(z) \in Nat /\ Len(t) \in Nat /\ Len(b) \in Nat  BY <1>6, <1>14, <2>3, LenProperties
    <2>6. Stands(z, 6 + 3 * (C - 1), b)  BY ONLY <1>14, <2>2, <2>4, <2>5, StandsWithin
    <2> QED  BY ONLY <2>4, <2>6 DEF z
  <1>17. FrameBody(b, Y, X, Nf, ycc)  BY ONLY <1>14, <1>15, <1>16 DEF FrameBody, y, x
  <1>18. create_SOF(Y, X, Nf, ycc) = Segment(SOF, b)
    <2>1. Len(b) + 2 = 8 + 3 * Nf  BY <1>14
    <2> QED  BY ONLY <1>12, <2>1 DEF Segment, o
  <1> QED  BY ONLY <1>17, <1>18 DEF b

\* What stands somewhere can be cut out there.
LEMMA StandsIsCut ==
  ASSUME NEW x \in Seq(Byte), NEW p \in Nat, NEW b \in Seq(Byte), Stands(x, p, b)
  PROVE  SubSeq(b, p + 1, p + Len(x)) = x
  <1> DEFINE n == Len(x)
             part == SubSeq(b, p + 1, p + n)
  <1>1. n \in Nat /\ p + n <= Len(b) /\ \A i \in 1 .. n : b[p + i] = x[i]  BY LenProperties DEF Stands
  <1>2. part \in Seq(Byte) /\ Len(part) = n /\ \A i \in 1 .. n : part[i] = b[p + i]  BY <1>1, PartOfSeq
  <1> HIDE DEF part
  <1>3. \A i \in 1 .. n : part[i] = x[i]  BY <1>1, <1>2
  <1> QED  BY <1>1, <1>2, <1>3, SeqEqual DEF part

\* What stands in the body of a scan's header.
ScanBody(b, Ns) ==
  /\ b \in Seq(Byte) /\ Len(b) = 4 + 2 * Ns /\ b[1] = Ns
  /\ \A C \in 1 .. Ns : Stands(ScanComponent(C), 2 * C - 1, b)
  /\ Stands(<<0, 63, 0>>, 1 + 2 * Ns, b)

SOSBody(Ns) == put_byte(Ns) \o FlattenSeq([C \in 1 .. Ns |-> ScanComponent(C)]) \o <<0, 63, 0>>

LEMMA SOSIs ==
  ASSUME NEW Ns \in {1, 3}
  PROVE  create_SOS(Ns) = Segment(SOS, SOSBody(Ns)) /\ ScanBody(SOSBody(Ns), Ns)
  <1> DEFINE f == [C \in 1 .. Ns |-> ScanComponent(C)]
             n == put_byte(Ns)
             t == FlattenSeq(f)
             e == <<0, 63, 0>>
             o == put_word(SOS) \o put_word(6 + 2 * Ns)
             b == SOSBody(Ns)
  <1>1. n \in Seq(Byte) /\ Len(n) = 1 /\ n[1] = Ns
    <2>1. Ns \in Nat /\ Ns < 256  OBVIOUS
    <2>2. n = <<Ns>> /\ n \in Seq(Byte) /\ Len(n) = 1  BY <2>1, SmallByte
    <2>3. <<Ns>>[1] = Ns  OBVIOUS
    <2> QED  BY ONLY <2>2, <2>3
  <1>2. Parts(Ns, 2, f, t)
    <2>1. \A C \in 1 .. Ns : f[C] \in Seq(Byte) /\ Len(f[C]) = 2
      <3>1. \A C \in 1 .. Ns : C \in 1 .. 3 /\ f[C] = ScanComponent(C)  OBVIOUS
      <3> HIDE DEF f
      <3> QED  BY <3>1, ScanComponentIs
    <2>2. f = [C \in 1 .. Ns |-> f[C]]  OBVIOUS
    <2> HIDE DEF f
    <2> QED  BY <2>1, <2>2, PartsFlattened
  <1>3. t \in Seq(Byte) /\ Len(t) = 2 * Ns  BY <1>2 DEF Parts
  <1>4. e \in Seq(Byte) /\ Len(e) = 3
    <2>1. 0 \in Byte /\ 63 \in Byte  BY ByteIs
    <2> QED  BY <2>1
  <1>5. o \in Seq(Byte)
    <2>1. SOS \in Nat /\ 6 + 2 * Ns \in Nat  BY DEF SOS
    <2> QED  BY <2>1, OpenerIs
  <1>6. b = n \o t \o e  BY DEF SOSBody
  <1>7. create_SOS(Ns) = o \o n \o t \o e  BY DEF create_SOS, ScanComponent
  <1>8. \A C \in 1 .. Ns : f[C] = ScanComponent(C)  OBVIOUS
  <1> HIDE DEF n, t, f, e
  <1>9. Regrouped3(o, n, t, e)
    <2> HIDE DEF o
    <2> QED  BY ONLY <1>1, <1>3, <1>4, <1>5, Assoc3
  <1>10. create_SOS(Ns) = o \o b
    <2> HIDE DEF o, b
    <2> QED  BY ONLY <1>6, <1>7, <1>9 DEF Regrouped3
  <1>11. ThreeParts(n, t, e, b)
    <2>1. ThreeParts(n, t, e, n \o t \o e)  BY ONLY <1>1, <1>3, <1>4, ConcatThree
    <2> QED  BY ONLY <1>6, <2>1
  <1> HIDE DEF b
  <1>12. /\ b \in Seq(Byte) /\ Len(b) = 4 + 2 * Ns
         /\ Stands(n, 0, b) /\ Stands(t, 1, b) /\ Stands(e, 1 + 2 * Ns, b)
    BY ONLY <1>1, <1>3, <1>4, <1>11, Ns \in {1, 3} DEF ThreeParts
  <1>13. b[1] = Ns
    <2>1. 1 \in 1 .. 1 /\ 0 + 1 = 1  OBVIOUS
    <2>2. b[0 + 1] = n[1]  BY ONLY <1>1, <1>12, <2>1 DEF Stands
    <2> QED  BY ONLY <1>1, <2>1, <2>2
  <1>14. ASSUME NEW C \in 1 .. Ns PROVE Stands(ScanComponent(C), 2 * C - 1, b)
    <2> DEFINE z == ScanComponent(C)
    <2>1. C \in 1 .. 3  OBVIOUS
    <2>2. Stands(z, 2 * (C - 1), t)  BY <1>2, <1>8 DEF Parts
    <2>3. z \in Seq(Byte) /\ Len(z) = 2  BY <2>1, ScanComponentIs
    <2> HIDE DEF z
    <2>4. 2 * (C - 1) \in Nat /\ 1 + 2 * (C - 1) = 2 * C - 1  BY <2>1
    <2>5. Len(z) \in Nat /\ Len(t) \in Nat /\ Len(b) \in Nat  BY <1>3, <1>12, <2>3, LenProperties
    <2>6. Stands(z, 1 + 2 * (C - 1), b)  BY ONLY <1>12, <2>2, <2>4, <2>5, StandsWithin
    <2> QED  BY ONLY <2>4, <2>6 DEF z
  <1>15. ScanBody(b, Ns)  BY ONLY <1>12, <1>13, <1>14 DEF ScanBody, e
  <1>16. create_SOS(Ns) = Segment(SOS, b)
    <2>1. Len(b) + 2 = 6 + 2 * Ns  BY <1>12
    <2> QED  BY ONLY <1>10, <2>1 DEF Segment, o
  <1> QED  BY ONLY <1>15, <1>16 DEF b

\* A restart interval is a natural number, of MCUs of one strip.
Interval(width_, ycc) == CeilDiv(width_, DCTSIZE * H[ycc]) * (BUFLINES \div (DCTSIZE * V[ycc]))

LEMMA DRIIs ==
  ASSUME NEW X \in Nat, NEW ycc \in YCC
  PROVE  /\ create_DRI(X, ycc) = Segment(DRI, put_word(Interval(X, ycc)))
         /\ put_word(Interval(X, ycc)) \in Seq(Byte) /\ Len(put_word(Interval(X, ycc))) = 2
         /\ Interval(X, ycc) \in Nat
  <1>1. H[ycc] \in {1, 2, 4}  BY DEF H
  <1>2. V[ycc] \in {1, 2}  BY DEF V
  <1>3. CeilDiv(X, DCTSIZE * H[ycc]) \in Nat
    <2> DEFINE k == DCTSIZE * H[ycc]
    <2>1. k \in Nat /\ k >= 1  BY <1>1 DEF DCTSIZE
    <2> HIDE DEF k
    <2>2. X + k - 1 \in Nat  BY <2>1
    <2>3. (X + k - 1) \div k \in Nat  BY <2>1, <2>2
    <2> QED  BY <2>3 DEF CeilDiv, k
  <1>4. BUFLINES \div (DCTSIZE * V[ycc]) \in {1, 2}  BY <1>2 DEF BUFLINES, DCTSIZE
  <1>5. Interval(X, ycc) \in Nat
    <2> DEFINE p == CeilDiv(X, DCTSIZE * H[ycc])
               q == BUFLINES \div (DCTSIZE * V[ycc])
    <2>1. p \in Nat /\ q \in {1, 2}  BY <1>3, <1>4
    <2> HIDE DEF p, q
    <2>2. p * q \in Nat  BY <2>1
    <2> QED  BY <2>2 DEF p, q, Interval
  <1>6. put_word(Interval(X, ycc)) \in Seq(Byte) /\ Len(put_word(Interval(X, ycc))) = 2  BY <1>5, WordIs
  <1>7. create_DRI(X, ycc) = put_word(DRI) \o put_word(4) \o put_word(Interval(X, ycc))  BY DEF create_DRI, Interval
  <1> DEFINE b == put_word(Interval(X, ycc))
  <1> HIDE DEF b
  <1>8. Len(b) + 2 = 4  BY ONLY <1>6 DEF b
  <1>9. create_DRI(X, ycc) = Segment(DRI, b)  BY ONLY <1>7, <1>8 DEF Segment, b
  <1> QED  BY ONLY <1>5, <1>6, <1>9 DEF b

-----------------------------------------------------------------------------
(* The symbols of the tables. *)

\* No code is longer than 16 bits.
LEMMA ACRows == \A t \in 1 .. 2 : \A r \in 1 .. 16 : \A s \in 1 .. 11 : AC_len_[t][r][s] \in 0 .. 16
  <1>1. \A r \in 1 .. 16 : \A s \in 1 .. 11 : AC_len_[1][r][s] \in 0 .. 16  BY DEF AC_len_
  <1>2. \A r \in 1 .. 16 : \A s \in 1 .. 11 : AC_len_[2][r][s] \in 0 .. 16  BY DEF AC_len_
  <1>3. \A t \in 1 .. 2 : t = 1 \/ t = 2  OBVIOUS
  <1> QED  BY ONLY <1>1, <1>2, <1>3

LEMMA ACLengths == \A c \in Tables : \A v \in 0 .. 255 : AC_len(c, v) \in 0 .. 16
  <1> TAKE c \in Tables
  <1> TAKE v \in 0 .. 255
  <1>1. CASE v % 16 > 10  BY <1>1 DEF AC_len
  <1>2. CASE ~(v % 16 > 10)
    <2> DEFINE r == (v \div 16) + 1
               s == (v % 16) + 1
               t == c + 1
    <2>1. r \in 1 .. 16 /\ s \in 1 .. 11 /\ t \in 1 .. 2  BY <1>2 DEF Tables
    <2> HIDE DEF r, s, t
    <2>2. AC_len_[t][r][s] \in 0 .. 16  BY <2>1, ACRows
    <2> QED  BY <1>2, <2>2 DEF AC_len, r, s, t
  <1> QED  BY <1>1, <1>2

LEMMA DCLengths == \A c \in Tables : \A i \in 0 .. 15 : DC_len(c, i) \in 0 .. 16
  <1> TAKE c \in Tables
  <1> TAKE i \in 0 .. 15
  <1>1. CASE i > 11  BY <1>1 DEF DC_len
  <1>2. CASE ~(i > 11)
    <2>1. \A s \in 1 .. 12 : DC_len_[1][s] \in 0 .. 16  BY DEF DC_len_
    <2>2. \A s \in 1 .. 12 : DC_len_[2][s] \in 0 .. 16  BY DEF DC_len_
    <2>3. i + 1 \in 1 .. 12 /\ (c + 1 = 1 \/ c + 1 = 2)  BY <1>2 DEF Tables
    <2>4. DC_len_[c + 1][i + 1] \in 0 .. 16  BY ONLY <2>1, <2>2, <2>3
    <2> QED  BY <1>2, <2>4 DEF DC_len
  <1> QED  BY <1>1, <1>2

-----------------------------------------------------------------------------
(* Symbols in the order of their pairs. *)

\* How many elements of S come before v.
Lower(S, pair, v) == {w \in S : pair[w] < pair[v]}

\* Different elements have different numbers of elements before them, and every number
\* below their count is that of one of them.
LEMMA RanksFill ==
  ASSUME NEW S, IsFiniteSet(S), NEW pair, \A v \in S : pair[v] \in Nat,
         \A v, w \in S : pair[v] = pair[w] => v = w
  PROVE  /\ Cardinality(S) \in Nat
         /\ \A v \in S : IsFiniteSet(Lower(S, pair, v)) /\ Cardinality(Lower(S, pair, v)) \in 0 .. Cardinality(S) - 1
         /\ \A v, w \in S : pair[v] < pair[w] => Cardinality(Lower(S, pair, v)) < Cardinality(Lower(S, pair, w))
         /\ \A k \in 0 .. Cardinality(S) - 1 : \E v \in S : Cardinality(Lower(S, pair, v)) = k
  <1> DEFINE n == Cardinality(S)
             B(v) == Lower(S, pair, v)
             rank == [v \in S |-> Cardinality(B(v))]
  <1>1. n \in Nat  BY FS_CardinalityType
  <1>2. ASSUME NEW v \in S PROVE IsFiniteSet(B(v)) /\ Cardinality(B(v)) \in Nat /\ v \notin B(v)
    <2>1. B(v) \in SUBSET S  BY DEF Lower
    <2>2. IsFiniteSet(B(v))  BY <2>1, FS_Subset
    <2>3. v \notin B(v)  BY DEF Lower
    <2> QED  BY <2>2, <2>3, FS_CardinalityType
  <1>3. ASSUME NEW v \in S, NEW T, IsFiniteSet(T), B(v) \cup {v} \subseteq T PROVE Cardinality(B(v)) < Cardinality(T)
    <2> DEFINE U == B(v) \cup {v}
    <2>1. IsFiniteSet(U) /\ Cardinality(U) = Cardinality(B(v)) + 1  BY <1>2, FS_AddElement
    <2>2. U \in SUBSET T  BY <1>3
    <2>3. Cardinality(U) <= Cardinality(T) /\ Cardinality(T) \in Nat  BY <1>3, <2>2, FS_Subset, FS_CardinalityType
    <2> HIDE DEF U
    <2> QED  BY <1>2, <2>1, <2>3
  <1>4. ASSUME NEW v \in S, NEW w \in S, pair[v] < pair[w] PROVE Cardinality(B(v)) < Cardinality(B(w))
    <2>1. B(v) \cup {v} \subseteq B(w)  BY <1>4 DEF Lower
    <2> QED  BY <1>2, <1>3, <2>1
  <1>5. ASSUME NEW v \in S PROVE Cardinality(B(v)) < n
    <2>1. B(v) \cup {v} \subseteq S  BY DEF Lower
    <2> QED  BY <1>3, <2>1
  <1>6. \A v \in S : Cardinality(B(v)) \in 0 .. n - 1  BY <1>1, <1>2, <1>5
  <1>7. rank \in Injection(S, 0 .. n - 1)
    <2>1. rank \in [S -> 0 .. n - 1]  BY <1>6
    <2>2. ASSUME NEW v \in S, NEW w \in S, rank[v] = rank[w] PROVE v = w
      <3>1. Cardinality(B(v)) = Cardinality(B(w))  BY <2>2
      <3>2. ~(pair[v] < pair[w]) /\ ~(pair[w] < pair[v])  BY <1>2, <1>4, <3>1
      <3>3. pair[v] = pair[w]  BY <3>2
      <3> QED  BY <3>3
    <2> HIDE DEF rank
    <2> QED  BY <2>1, <2>2 DEF Injection, IsInjective
  <1>8. IsFiniteSet(0 .. n - 1) /\ Cardinality(0 .. n - 1) = n
    <2>1. 0 \in Int /\ n - 1 \in Int  BY <1>1
    <2>2. IsFiniteSet(0 .. n - 1) /\ Cardinality(0 .. n - 1) = IF 0 > n - 1 THEN 0 ELSE (n - 1) - 0 + 1  BY <2>1, FS_Interval
    <2> QED  BY <1>1, <2>2
  <1>9. rank \in Surjection(S, 0 .. n - 1)
    <2> HIDE DEF rank, n
    <2> QED  BY <1>7, <1>8, FS_Injection DEF n
  <1>10. \A k \in 0 .. n - 1 : \E v \in S : Cardinality(B(v)) = k
    <2> TAKE k \in 0 .. n - 1
    <2>1. \E v \in S : rank[v] = k
      <3> HIDE DEF rank
      <3> QED  BY <1>9 DEF Surjection
    <2> QED  BY <2>1
  <1> QED  BY <1>1, <1>2, <1>4, <1>6, <1>10

\* The symbols in order: each at the place of its rank.
Ordered(S, pair, f) ==
  /\ Cardinality(S) \in Nat /\ f \in [1 .. Cardinality(S) -> S]
  /\ \A k \in 1 .. Cardinality(S) : Cardinality(Lower(S, pair, f[k])) = k - 1
  /\ \A v \in S : \E k \in 1 .. Cardinality(S) : f[k] = v

LEMMA ViIs ==
  ASSUME NEW S, IsFiniteSet(S), NEW pair, \A v \in S : pair[v] \in Nat,
         \A v, w \in S : pair[v] = pair[w] => v = w
  PROVE  Ordered(S, pair, Vi(S, pair))
  <1> DEFINE n == Cardinality(S)
             f == Vi(S, pair)
             C(v) == Cardinality(Lower(S, pair, v))
  <1>1. /\ n \in Nat
        /\ \A v \in S : C(v) \in 0 .. n - 1
        /\ \A v, w \in S : pair[v] < pair[w] => C(v) < C(w)
        /\ \A k \in 0 .. n - 1 : \E v \in S : C(v) = k
    BY RanksFill
  <1>2. f = [k \in 1 .. n |-> CHOOSE v \in S : C(v) = k - 1]  BY DEF Vi, Lower
  <1> HIDE DEF f, n
  <1>3. ASSUME NEW k \in 1 .. n PROVE f[k] \in S /\ C(f[k]) = k - 1
    <2>1. k - 1 \in 0 .. n - 1  BY <1>1
    <2>2. \E v \in S : C(v) = k - 1  BY <1>1, <2>1
    <2>3. f[k] = CHOOSE v \in S : C(v) = k - 1  BY <1>2
    <2> HIDE DEF C
    <2> QED  BY <2>2, <2>3
  <1>4. f \in [1 .. n -> S]  BY <1>2, <1>3
  <1>5. ASSUME NEW v \in S PROVE \E k \in 1 .. n : f[k] = v
    <2> DEFINE k == C(v) + 1
    <2>1. C(v) \in 0 .. n - 1  BY <1>1
    <2>2. k \in 1 .. n /\ k - 1 = C(v)  BY <1>1, <2>1
    <2> HIDE DEF k
    <2>3. f[k] \in S /\ C(f[k]) = C(v)  BY <1>3, <2>2
    <2>4. ~(C(v) < C(f[k])) /\ ~(C(f[k]) < C(v))  BY <2>1, <2>3
    <2>5. ~(pair[v] < pair[f[k]]) /\ ~(pair[f[k]] < pair[v])  BY <1>1, <2>3, <2>4
    <2>6. pair[v] \in Nat /\ pair[f[k]] \in Nat  BY <2>3
    <2>7. pair[v] = pair[f[k]]  BY <2>5, <2>6
    <2>8. f[k] = v  BY <2>3, <2>7
    <2> QED  BY <2>2, <2>8
  <1>6. Ordered(S, pair, f)  BY <1>1, <1>3, <1>4, <1>5 DEF Ordered, n
  <1> QED  BY <1>6 DEF f

\* A decoder's count of the shorter codes; all of them in the end.
Shorter(D, len, l) == {v \in D : len[v] \in 1 .. l - 1}
Frequencies(D, len) == [l \in 1 .. 16 |-> Cardinality({v \in D : len[v] = l})]

LEMMA ShorterGrows ==
  ASSUME NEW D, IsFiniteSet(D), NEW len \in [D -> Nat], NEW l \in Nat, l >= 1
  PROVE  /\ IsFiniteSet({v \in D : len[v] = l}) /\ IsFiniteSet(Shorter(D, len, l))
         /\ Cardinality({v \in D : len[v] = l}) \in Nat
         /\ Cardinality(Shorter(D, len, l + 1)) = Cardinality(Shorter(D, len, l)) + Cardinality({v \in D : len[v] = l})
  <1> DEFINE E == {v \in D : len[v] = l}
             T == Shorter(D, len, l)
  <1>1. IsFiniteSet(E) /\ IsFiniteSet(T)
    <2>1. E \in SUBSET D /\ T \in SUBSET D  BY DEF Shorter
    <2> QED  BY <2>1, FS_Subset
  <1>2. T \cap E = {}  BY DEF Shorter
  <1>3. Shorter(D, len, l + 1) = T \cup E
    <2>1. ASSUME NEW v \in D PROVE len[v] \in 1 .. (l + 1) - 1 <=> len[v] \in 1 .. l - 1 \/ len[v] = l
      <3>1. len[v] \in Nat  OBVIOUS
      <3> QED  BY <3>1
    <2> QED  BY <2>1 DEF Shorter
  <1> HIDE DEF E, T
  <1>4. Cardinality(T \cup E) = Cardinality(T) + Cardinality(E) - Cardinality(T \cap E)  BY <1>1, FS_Union
  <1>5. Cardinality(T \cap E) = 0  BY <1>2, FS_EmptySet
  <1>6. Cardinality(T) \in Nat /\ Cardinality(E) \in Nat  BY <1>1, FS_CardinalityType
  <1>7. Cardinality(T \cup E) = Cardinality(T) + Cardinality(E)  BY <1>4, <1>5, <1>6
  <1> QED  BY <1>1, <1>3, <1>6, <1>7 DEF E, T

Counted(D, len, freq) ==
  /\ \A l \in 1 .. 16 : freq[l] \in Nat
  /\ \A l \in 1 .. 16 : ValPtr(freq)[l] = Cardinality(Shorter(D, len, l))
  /\ ValPtr(freq)[16] + freq[16] = Cardinality({v \in D : len[v] # 0})

LEMMA CodesCounted ==
  ASSUME NEW D, IsFiniteSet(D), NEW len \in [D -> 0 .. 16]
  PROVE  Counted(D, len, Frequencies(D, len))
  <1> DEFINE freq == Frequencies(D, len)
             F(f) == [l \in 1 .. 16 |-> IF l = 1 THEN 0 ELSE f[l - 1] + freq[l - 1]]
             f == CHOOSE f : f = F(f)
             g == [l \in 1 .. 16 |-> Cardinality(Shorter(D, len, l))]
  <1>1. len \in [D -> Nat]  OBVIOUS
  <1>2. ASSUME NEW l \in 1 .. 16
        PROVE  /\ Cardinality(Shorter(D, len, l)) \in Nat /\ freq[l] \in Nat
               /\ Cardinality(Shorter(D, len, l + 1)) = Cardinality(Shorter(D, len, l)) + freq[l]
    <2>1. l \in Nat /\ l >= 1 /\ freq[l] = Cardinality({v \in D : len[v] = l})  BY DEF Frequencies
    <2> HIDE DEF freq
    <2> QED  BY <1>1, <2>1, ShorterGrows, FS_CardinalityType
  <1>3. Cardinality(Shorter(D, len, 1)) = 0
    <2>1. Shorter(D, len, 1) = {}  BY DEF Shorter
    <2> QED  BY <2>1, FS_EmptySet
  <1>4. ValPtr(freq) = f  BY DEF ValPtr
  <1> HIDE DEF freq
  <1>5. g = F(g)
    <2>1. ASSUME NEW l \in 1 .. 16 PROVE g[l] = IF l = 1 THEN 0 ELSE g[l - 1] + freq[l - 1]
      <3>1. CASE l = 1  BY <1>3, <3>1
      <3>2. CASE l # 1
        <4>1. l - 1 \in 1 .. 16 /\ (l - 1) + 1 = l  BY <3>2
        <4>2. Cardinality(Shorter(D, len, (l - 1) + 1)) = Cardinality(Shorter(D, len, l - 1)) + freq[l - 1]  BY <1>2, <4>1
        <4> QED  BY <3>2, <4>1, <4>2
      <3> QED  BY <3>1, <3>2
    <2> QED  BY <2>1
  <1>6. f = F(f)  BY <1>5
  <1> HIDE DEF f
  <1>7. \A l \in 1 .. 16 : f[l] = IF l = 1 THEN 0 ELSE f[l - 1] + freq[l - 1]  BY <1>6
  <1>8. \A l \in 1 .. 16 : g[l] = IF l = 1 THEN 0 ELSE g[l - 1] + freq[l - 1]  BY <1>5
  <1> HIDE DEF g
  <1>9. \A l \in 1 .. 16 : f[l] = g[l]
    <2>1. f[1] = g[1]  BY ONLY <1>7, <1>8
    <2>2. ASSUME NEW l \in 1 .. 15, f[l] = g[l] PROVE f[l + 1] = g[l + 1]
      <3>1. l + 1 \in 1 .. 16 /\ l + 1 # 1 /\ (l + 1) - 1 = l  OBVIOUS
      <3> QED  BY ONLY <1>7, <1>8, <2>2, <3>1
    <2> DEFINE T == {l \in Nat : l + 1 \in 1 .. 16 => f[l + 1] = g[l + 1]}
    <2>3. 0 \in T  BY <2>1
    <2>4. ASSUME NEW l \in Nat, l \in T PROVE l + 1 \in T
      <3>1. CASE (l + 1) + 1 \in 1 .. 16
        <4>1. l + 1 \in 1 .. 15 /\ f[l + 1] = g[l + 1]  BY <2>4, <3>1
        <4> QED  BY <2>2, <4>1
      <3>2. CASE (l + 1) + 1 \notin 1 .. 16  BY <3>2
      <3> QED  BY <3>1, <3>2
    <2> HIDE DEF T
    <2>5. Nat \subseteq T  BY <2>3, <2>4, SetInduction
    <2>6. ASSUME NEW l \in 1 .. 16 PROVE f[l] = g[l]
      <3>1. l - 1 \in Nat /\ (l - 1) + 1 = l  OBVIOUS
      <3>2. l - 1 \in T  BY <2>5, <3>1
      <3> QED  BY <3>1, <3>2 DEF T
    <2> QED  BY <2>6
  <1>10. \A l \in 1 .. 16 : f[l] = Cardinality(Shorter(D, len, l))  BY <1>9 DEF g
  <1>11. f[16] + freq[16] = Cardinality({v \in D : len[v] # 0})
    <2>1. 16 \in 1 .. 16 /\ 16 + 1 = 17  OBVIOUS
    <2>2. Cardinality(Shorter(D, len, 17)) = Cardinality(Shorter(D, len, 16)) + freq[16]  BY <1>2, <2>1
    <2>3. Shorter(D, len, 17) = {v \in D : len[v] # 0}
      <3>1. \A v \in D : len[v] \in 1 .. 17 - 1 <=> len[v] # 0
        <4>1. \A x \in 0 .. 16 : x \in 1 .. 17 - 1 <=> x # 0  OBVIOUS
        <4> QED  BY <4>1
      <3> QED  BY <3>1 DEF Shorter
    <2> QED  BY <1>10, <2>1, <2>2, <2>3
  <1>12. Counted(D, len, freq)  BY <1>2, <1>4, <1>10, <1>11 DEF Counted
  <1> QED  BY <1>12 DEF freq

\* The bytes of a table, put one by one, are the table.
BytesPut(n, f) == FlattenSeq([i \in 1 .. n |-> put_byte(f[i])]) = f

LEMMA PutEach ==
  ASSUME NEW n \in Nat, NEW f \in [1 .. n -> Byte]
  PROVE  BytesPut(n, f) /\ f \in Seq(Byte) /\ Len(f) = n
  <1>1. ASSUME NEW i \in 1 .. n PROVE put_byte(f[i]) = <<f[i]>>
    <2>1. f[i] \in Nat /\ f[i] < 256  BY ByteIs
    <2> QED  BY <2>1, SmallByte
  <1>2. [i \in 1 .. n |-> put_byte(f[i])] = [i \in 1 .. n |-> <<f[i]>>]  BY <1>1
  <1>3. FlattenSeq([i \in 1 .. n |-> <<f[i]>>]) = f  BY FlattenSingletons
  <1>4. f \in Seq(Byte) /\ Len(f) = n  BY FunctionIsSeq
  <1> QED  BY <1>2, <1>3, <1>4 DEF BytesPut

\* A segment of create_DHT(), and its body.
TableSegment(k, freq, values) ==
  put_word(DHT) \o put_word((Len(freq) + Len(values) + 3) % 256) \o put_byte(k)
    \o FlattenSeq([l \in 1 .. 16 |-> put_byte(freq[l])]) \o FlattenSeq([n \in 1 .. Len(values) |-> put_byte(values[n])])
TableBody(k, freq, values) == <<k>> \o freq \o values
TableIn(b, k, freq, values) ==
  /\ b \in Seq(Byte) /\ Len(b) = 17 + Len(values) /\ b[1] = k
  /\ SubSeq(b, 2, 17) = freq /\ SubSeq(b, 18, Len(b)) = values

LEMMA TableBodyIs ==
  ASSUME NEW k \in Byte, NEW freq \in Seq(Byte), Len(freq) = 16, NEW values \in Seq(Byte)
  PROVE  TableIn(TableBody(k, freq, values), k, freq, values)
  <1> DEFINE o == <<k>>
             b == TableBody(k, freq, values)
             n == Len(values)
  <1>1. o \in Seq(Byte) /\ Len(o) = 1 /\ o[1] = k  OBVIOUS
  <1>2. b = o \o freq \o values  BY DEF TableBody
  <1>3. n \in Nat  BY LenProperties
  <1> HIDE DEF o, b
  <1>4. ThreeParts(o, freq, values, b)  BY ONLY <1>1, <1>2, freq \in Seq(Byte), values \in Seq(Byte), ConcatThree
  <1>5. /\ b \in Seq(Byte) /\ Len(b) = 17 + n
        /\ Stands(o, 0, b) /\ Stands(freq, 1, b) /\ Stands(values, 17, b)
    BY ONLY <1>1, <1>3, <1>4, Len(freq) = 16 DEF ThreeParts, n
  <1>6. b[1] = k
    <2>1. 1 \in 1 .. 1 /\ 0 + 1 = 1  OBVIOUS
    <2>2. b[0 + 1] = o[1]  BY ONLY <1>1, <1>5, <2>1 DEF Stands
    <2> QED  BY ONLY <1>1, <2>1, <2>2
  <1>7. SubSeq(b, 2, 17) = freq
    <2>1. SubSeq(b, 1 + 1, 1 + Len(freq)) = freq  BY <1>5, StandsIsCut
    <2>2. 1 + 1 = 2 /\ 1 + Len(freq) = 17  OBVIOUS
    <2> QED  BY ONLY <2>1, <2>2
  <1>8. SubSeq(b, 18, Len(b)) = values
    <2>1. SubSeq(b, 17 + 1, 17 + Len(values)) = values  BY <1>5, StandsIsCut
    <2>2. 17 + 1 = 18 /\ 17 + Len(values) = Len(b)  BY ONLY <1>5 DEF n
    <2> QED  BY ONLY <2>1, <2>2
  <1> QED  BY ONLY <1>5, <1>6, <1>7, <1>8 DEF TableIn, b, n

LEMMA TableSegmentIs ==
  ASSUME NEW k \in Byte, NEW freq \in [1 .. 16 -> Byte], NEW n \in Nat, n < 236, NEW values \in [1 .. n -> Byte]
  PROVE  /\ TableSegment(k, freq, values) = Segment(DHT, TableBody(k, freq, values))
         /\ TableIn(TableBody(k, freq, values), k, freq, values) /\ Len(values) = n
  <1> DEFINE b == TableBody(k, freq, values)
             o == put_word(DHT) \o put_word(19 + n)
             u == FlattenSeq([l \in 1 .. 16 |-> put_byte(freq[l])])
             w == FlattenSeq([m \in 1 .. n |-> put_byte(values[m])])
  <1>1. u = freq /\ freq \in Seq(Byte) /\ Len(freq) = 16
    <2> DEFINE x == 16
    <2>1. x \in Nat /\ freq \in [1 .. x -> Byte]  OBVIOUS
    <2> HIDE DEF x
    <2>2. BytesPut(x, freq) /\ freq \in Seq(Byte) /\ Len(freq) = x  BY ONLY <2>1, PutEach
    <2> QED  BY ONLY <2>2 DEF x, BytesPut
  <1>2. w = values /\ values \in Seq(Byte) /\ Len(values) = n  BY PutEach DEF BytesPut
  <1>3. put_byte(k) = <<k>> /\ <<k>> \in Seq(Byte)
    <2>1. k \in Nat /\ k < 256  BY ByteIs
    <2> QED  BY ONLY <2>1, SmallByte, k \in Byte
  <1>4. (Len(freq) + Len(values) + 3) % 256 = 19 + n
    <2>1. (16 + n + 3) % 256 = 19 + n  OBVIOUS
    <2> QED  BY ONLY <1>1, <1>2, <2>1
  <1>5. TableSegment(k, freq, values) = o \o put_byte(k) \o u \o w  BY ONLY <1>2, <1>4 DEF TableSegment
  <1>6. TableIn(b, k, freq, values)  BY ONLY <1>1, <1>2, TableBodyIs, k \in Byte
  <1>7. o \in Seq(Byte)
    <2>1. DHT \in Nat /\ 19 + n \in Nat  BY DEF DHT
    <2> QED  BY ONLY <2>1, OpenerIs
  <1> HIDE DEF o, u, w
  <1>8. TableSegment(k, freq, values) = o \o <<k>> \o freq \o values  BY ONLY <1>1, <1>2, <1>3, <1>5
  <1> DEFINE z == <<k>>
  <1>9. z \in Seq(Byte) /\ b = z \o freq \o values  BY ONLY <1>3 DEF TableBody
  <1> HIDE DEF z, b
  <1>10. Regrouped3(o, z, freq, values)  BY ONLY <1>1, <1>2, <1>7, <1>9, Assoc3
  <1>11. TableSegment(k, freq, values) = o \o b
    <2>1. TableSegment(k, freq, values) = o \o z \o freq \o values  BY ONLY <1>8 DEF z
    <2> QED  BY ONLY <1>9, <1>10, <2>1 DEF Regrouped3
  <1>12. Len(b) + 2 = 19 + n  BY ONLY <1>2, <1>6, n \in Nat DEF TableIn
  <1>13. TableSegment(k, freq, values) = Segment(DHT, b)  BY ONLY <1>11, <1>12 DEF Segment, o
  <1> QED  BY ONLY <1>2, <1>6, <1>13 DEF b

LEMMA TwoTables ==
  ASSUME NEW c
  PROVE  create_DHT(c) = TableSegment(16 * 0 + c, DC_freq[c], DC_values[c]) \o TableSegment(16 * 1 + c, AC_freq[c], AC_values[c])
  BY DEF create_DHT, TableSegment

\* The numbers up to n.
LEMMA UpTo ==
  ASSUME NEW n \in Nat
  PROVE  IsFiniteSet(0 .. n) /\ Cardinality(0 .. n) = n + 1
  <1>1. 0 \in Int /\ n \in Int  OBVIOUS
  <1>2. IsFiniteSet(0 .. n) /\ Cardinality(0 .. n) = IF 0 > n THEN 0 ELSE n - 0 + 1  BY <1>1, FS_Interval
  <1> QED  BY <1>2

\* A table's symbols: as many as the frequencies add up to, few enough for a length of one byte.
Coded(D, len) == {v \in D : len[v] # 0}
Listed(freq, values, n) ==
  /\ freq \in [1 .. 16 -> Byte] /\ n \in Nat /\ n < 236 /\ values \in [1 .. n -> Byte]
  /\ n = ValPtr(freq)[16] + freq[16]

LEMMA TableListed ==
  ASSUME NEW D \in SUBSET Byte, IsFiniteSet(D), NEW len \in [D -> 0 .. 16], Cardinality(Coded(D, len)) < 236,
         NEW pair, \A v \in D : pair[v] \in Nat, \A v, w \in D : pair[v] = pair[w] => v = w
  PROVE  /\ Listed(Frequencies(D, len), Vi(Coded(D, len), pair), Cardinality(Coded(D, len)))
         /\ Counted(D, len, Frequencies(D, len))
         /\ Ordered(Coded(D, len), pair, Vi(Coded(D, len), pair))
  <1> DEFINE S == Coded(D, len)
             n == Cardinality(S)
             freq == Frequencies(D, len)
             values == Vi(S, pair)
  <1>1. Counted(D, len, freq)  BY CodesCounted
  <1>2. S \in SUBSET D /\ IsFiniteSet(S)
    <2>1. S \in SUBSET D  BY DEF Coded
    <2> QED  BY <2>1, FS_Subset
  <1>3. Ordered(S, pair, values)
    <2>1. (\A v \in S : pair[v] \in Nat) /\ \A v, w \in S : pair[v] = pair[w] => v = w  BY <1>2
    <2> HIDE DEF S
    <2> QED  BY <1>2, <2>1, ViIs
  <1>4. n \in Nat  BY <1>2, FS_CardinalityType
  <1>5. values \in [1 .. n -> Byte]
    <2> HIDE DEF values
    <2>1. values \in [1 .. n -> S]  BY ONLY <1>3 DEF Ordered
    <2>2. S \subseteq Byte  BY <1>2
    <2> HIDE DEF S, n
    <2>3. \A k \in 1 .. n : values[k] \in Byte  BY <2>1, <2>2
    <2> QED  BY ONLY <2>1, <2>3
  <1>6. freq \in [1 .. 16 -> Byte]
    <2>1. ASSUME NEW l \in 1 .. 16 PROVE Cardinality({v \in D : len[v] = l}) \in Byte
      <3> DEFINE E == {v \in D : len[v] = l}
      <3>1. E \in SUBSET S  BY DEF Coded
      <3> HIDE DEF E, S
      <3>2. IsFiniteSet(E) /\ Cardinality(E) <= n /\ Cardinality(E) \in Nat
        <4>1. IsFiniteSet(E) /\ Cardinality(E) <= n  BY <1>2, <3>1, FS_Subset
        <4> QED  BY <4>1, FS_CardinalityType
      <3>3. n < 236  BY DEF S
      <3>4. Cardinality(E) < 256  BY ONLY <1>4, <3>2, <3>3
      <3> QED  BY ONLY <3>2, <3>4, ByteIs DEF E
    <2> QED  BY ONLY <2>1 DEF Frequencies
  <1>7. n = ValPtr(freq)[16] + freq[16]
    <2> HIDE DEF freq
    <2> QED  BY ONLY <1>1 DEF Counted, Coded
  <1> HIDE DEF freq, values
  <1>8. n < 236  OBVIOUS
  <1>9. Listed(freq, values, n)  BY ONLY <1>4, <1>5, <1>6, <1>7, <1>8 DEF Listed
  <1> QED  BY ONLY <1>1, <1>3, <1>9 DEF freq, values, S, n

DCLen(c) == [i \in 0 .. 15 |-> DC_len(c, i)]
ACLen(c) == [v \in 0 .. 255 |-> AC_len(c, v)]

\* A symbol has a code only if its size is 10 or less.
LEMMA CodedAreSmall ==
  ASSUME NEW c \in Tables
  PROVE  Coded(0 .. 255, ACLen(c)) \in SUBSET {v \in 0 .. 255 : v % 16 <= 10}
  <1>1. ASSUME NEW v \in 0 .. 255, ACLen(c)[v] # 0 PROVE v % 16 <= 10
    <2>1. ACLen(c)[v] = AC_len(c, v)  BY ONLY v \in 0 .. 255 DEF ACLen
    <2>2. v % 16 > 10 => AC_len(c, v) = 0  BY DEF AC_len
    <2>3. v % 16 \in 0 .. 15  BY ONLY v \in 0 .. 255
    <2> QED  BY ONLY <1>1, <2>1, <2>2, <2>3
  <1> QED  BY ONLY <1>1 DEF Coded

LEMMA DCTableIs ==
  ASSUME NEW c \in Tables
  PROVE  /\ DC_freq[c] = Frequencies(0 .. 15, DCLen(c)) /\ DC_coded[c] = Coded(0 .. 15, DCLen(c))
         /\ Listed(DC_freq[c], DC_values[c], Cardinality(DC_coded[c]))
         /\ Counted(0 .. 15, DCLen(c), DC_freq[c])
         /\ Ordered(DC_coded[c], [i \in 0 .. 15 |-> i], DC_values[c])
  <1> DEFINE D == 0 .. 15
             len == DCLen(c)
             pair == [i \in 0 .. 15 |-> i]
  <1>1. len \in [D -> 0 .. 16]  BY DCLengths DEF DCLen
  <1>2. D \in SUBSET Byte /\ IsFiniteSet(D) /\ Cardinality(D) = 16
    <2>1. IsFiniteSet(D) /\ Cardinality(D) = 16
      <3>1. 15 \in Nat /\ 15 + 1 = 16  OBVIOUS
      <3> QED  BY ONLY <3>1, UpTo
    <2>2. D \in SUBSET Byte  BY ByteIs
    <2> QED  BY <2>1, <2>2
  <1>3. Cardinality(Coded(D, len)) < 236
    <2>1. Coded(D, len) \in SUBSET D  BY DEF Coded
    <2> HIDE DEF D
    <2>2. Cardinality(Coded(D, len)) <= 16 /\ IsFiniteSet(Coded(D, len))  BY <1>2, <2>1, FS_Subset
    <2>3. Cardinality(Coded(D, len)) \in Nat  BY <2>2, FS_CardinalityType
    <2> QED  BY <2>2, <2>3
  <1>4. (\A v \in D : pair[v] \in Nat) /\ \A v, w \in D : pair[v] = pair[w] => v = w  OBVIOUS
  <1>5. DC_freq[c] = Frequencies(D, len)
    <2>1. \A i \in D : len[i] = DC_len(c, i)  BY DEF DCLen
    <2>2. \A l : {i \in D : len[i] = l} = {i \in D : DC_len(c, i) = l}  BY <2>1
    <2> QED  BY <2>2 DEF Frequencies, DC_freq
  <1>6. DC_coded[c] = Coded(D, len)  BY DEF DC_coded, DCLen, Coded
  <1>7. DC_values[c] = Vi(Coded(D, len), pair)  BY <1>6 DEF DC_values
  <1> HIDE DEF D, len, pair
  <1>8. /\ Listed(Frequencies(D, len), Vi(Coded(D, len), pair), Cardinality(Coded(D, len)))
        /\ Counted(D, len, Frequencies(D, len))
        /\ Ordered(Coded(D, len), pair, Vi(Coded(D, len), pair))
    BY ONLY <1>1, <1>2, <1>3, <1>4, TableListed
  <1> QED  BY ONLY <1>5, <1>6, <1>7, <1>8 DEF D, len, pair

\* No more than 176 symbols have a code: 16 runs, sizes from 0 to 10.
LEMMA FewSymbols ==
  ASSUME NEW S \in SUBSET {v \in 0 .. 255 : v % 16 <= 10}
  PROVE  IsFiniteSet(S) /\ Cardinality(S) <= 176 /\ Cardinality(S) \in Nat
  <1> DEFINE T == 0 .. 175
             f == [v \in S |-> (v \div 16) * 11 + (v % 16)]
  <1>1. IsFiniteSet(T) /\ Cardinality(T) = 176
    <2> DEFINE k == 175
    <2>1. k \in Nat /\ k + 1 = 176  OBVIOUS
    <2>2. T = 0 .. k  OBVIOUS
    <2> HIDE DEF k, T
    <2>3. IsFiniteSet(0 .. k) /\ Cardinality(0 .. k) = k + 1  BY ONLY <2>1, UpTo
    <2> QED  BY ONLY <2>1, <2>2, <2>3
  <1>2. IsFiniteSet(S)
    <2>1. IsFiniteSet(0 .. 255)
      <3>1. 255 \in Nat  OBVIOUS
      <3> QED  BY ONLY <3>1, UpTo
    <2>2. S \in SUBSET (0 .. 255)  OBVIOUS
    <2> QED  BY ONLY <2>1, <2>2, FS_Subset
  <1>3. f \in [S -> T]
    <2>1. ASSUME NEW v \in S PROVE (v \div 16) * 11 + (v % 16) \in T
      <3> DEFINE q == v \div 16
                 r == v % 16
      <3>1. q \in 0 .. 15 /\ r \in 0 .. 10  OBVIOUS
      <3> HIDE DEF q, r
      <3>2. q * 11 + r \in T  BY ONLY <3>1
      <3> QED  BY <3>2 DEF q, r
    <2> QED  BY <2>1
  <1>4. ASSUME NEW v \in S, NEW w \in S, f[v] = f[w] PROVE v = w
    <2> DEFINE q == v \div 16
               r == v % 16
               s == w \div 16
               t == w % 16
    <2>1. q \in 0 .. 15 /\ r \in 0 .. 10 /\ v = 16 * q + r  OBVIOUS
    <2>2. s \in 0 .. 15 /\ t \in 0 .. 10 /\ w = 16 * s + t  OBVIOUS
    <2>3. q * 11 + r = s * 11 + t
      <3>1. f[v] = (v \div 16) * 11 + (v % 16)  OBVIOUS
      <3>2. f[w] = (w \div 16) * 11 + (w % 16)  OBVIOUS
      <3> HIDE DEF f
      <3> QED  BY ONLY <1>4, <3>1, <3>2 DEF q, r, s, t
    <2> HIDE DEF q, r, s, t
    <2>4. q = s /\ r = t  BY ONLY <2>1, <2>2, <2>3
    <2> QED  BY ONLY <2>1, <2>2, <2>4
  <1>5. f \in Injection(S, T)
    <2> HIDE DEF f, T
    <2> QED  BY <1>3, <1>4 DEF Injection, IsInjective
  <1> HIDE DEF f, T
  <1>6. Cardinality(S) <= Cardinality(T)  BY <1>1, <1>2, <1>5, FS_Injection
  <1>7. Cardinality(S) \in Nat  BY <1>2, FS_CardinalityType
  <1> QED  BY ONLY <1>1, <1>2, <1>6, <1>7

LEMMA ACTableIs ==
  ASSUME NEW c \in Tables
  PROVE  /\ AC_freq[c] = Frequencies(0 .. 255, ACLen(c)) /\ AC_coded[c] = Coded(0 .. 255, ACLen(c))
         /\ Listed(AC_freq[c], AC_values[c], Cardinality(AC_coded[c]))
         /\ Counted(0 .. 255, ACLen(c), AC_freq[c])
         /\ Ordered(AC_coded[c], ACpair[c], AC_values[c])
  <1> DEFINE D == 0 .. 255
             len == ACLen(c)
             pair == ACpair[c]
  <1>1. len \in [D -> 0 .. 16]  BY ACLengths DEF ACLen
  <1>2. D \in SUBSET Byte /\ IsFiniteSet(D)
    <2>1. IsFiniteSet(D)
      <3>1. 255 \in Nat  OBVIOUS
      <3> QED  BY ONLY <3>1, UpTo
    <2>2. D \in SUBSET Byte  BY ByteIs
    <2> QED  BY <2>1, <2>2
  <1>3. Cardinality(Coded(D, len)) < 236
    <2>1. Coded(D, len) \in SUBSET {v \in 0 .. 255 : v % 16 <= 10}  BY CodedAreSmall
    <2> HIDE DEF D, len
    <2>2. Cardinality(Coded(D, len)) <= 176 /\ Cardinality(Coded(D, len)) \in Nat  BY <2>1, FewSymbols
    <2> QED  BY ONLY <2>2
  <1>4. (\A v \in D : pair[v] \in Nat) /\ \A v, w \in D : pair[v] = pair[w] => v = w
    <2>1. ASSUME NEW v \in D PROVE pair[v] = 256 * len[v] + v /\ len[v] \in 0 .. 16
      <3>1. len[v] = AC_len(c, v)  BY DEF ACLen
      <3>2. pair[v] = 256 * AC_len(c, v) + v  BY DEF ACpair
      <3> QED  BY <1>1, <3>1, <3>2
    <2> HIDE DEF len, pair
    <2>2. ASSUME NEW v \in D PROVE pair[v] \in Nat
      <3> DEFINE a == len[v]
      <3>1. a \in 0 .. 16 /\ pair[v] = 256 * a + v  BY <2>1
      <3>2. v \in 0 .. 255  OBVIOUS
      <3> HIDE DEF a
      <3> QED  BY ONLY <3>1, <3>2
    <2>3. ASSUME NEW v \in D, NEW w \in D, pair[v] = pair[w] PROVE v = w
      <3> DEFINE a == len[v]
                 b == len[w]
      <3>3. a \in 0 .. 16 /\ pair[v] = 256 * a + v  BY ONLY <2>1, v \in D
      <3>4. b \in 0 .. 16 /\ pair[w] = 256 * b + w  BY ONLY <2>1, w \in D
      <3> HIDE DEF a, b
      <3>1. a \in 0 .. 16 /\ b \in 0 .. 16 /\ 256 * a + v = 256 * b + w  BY ONLY <3>3, <3>4, <2>3
      <3>2. v \in 0 .. 255 /\ w \in 0 .. 255  OBVIOUS
      <3> HIDE DEF a, b
      <3> QED  BY ONLY <3>1, <3>2
    <2> QED  BY <2>2, <2>3
  <1>5. AC_freq[c] = Frequencies(D, len)
    <2>1. \A i \in D : len[i] = AC_len(c, i)  BY DEF ACLen
    <2> HIDE DEF len
    <2> DEFINE these(l) == {i \in D : len[i] = l}
               those(l) == {i \in D : AC_len(c, i) = l}
    <2>2. \A l \in 1 .. 16 : these(l) = those(l)  BY <2>1
    <2>3. AC_freq[c] = [l \in 1 .. 16 |-> Cardinality(those(l))]  BY DEF AC_freq
    <2>4. Frequencies(D, len) = [l \in 1 .. 16 |-> Cardinality(these(l))]  BY DEF Frequencies
    <2> HIDE DEF these, those
    <2> QED  BY ONLY <2>2, <2>3, <2>4
  <1>6. AC_coded[c] = Coded(D, len)  BY DEF AC_coded, ACLen, Coded
  <1>7. AC_values[c] = Vi(Coded(D, len), pair)  BY <1>6 DEF AC_values
  <1> HIDE DEF D, len, pair
  <1>8. /\ Listed(Frequencies(D, len), Vi(Coded(D, len), pair), Cardinality(Coded(D, len)))
        /\ Counted(D, len, Frequencies(D, len))
        /\ Ordered(Coded(D, len), pair, Vi(Coded(D, len), pair))
    BY ONLY <1>1, <1>2, <1>3, <1>4, TableListed
  <1> QED  BY ONLY <1>5, <1>6, <1>7, <1>8 DEF D, len, pair

\* The two segments of a component's tables.
DCBody(c) == TableBody(c, DC_freq[c], DC_values[c])
ACBody(c) == TableBody(16 + c, AC_freq[c], AC_values[c])
TableRead(b, k, freq, values) ==
  /\ TableIn(b, k, freq, values) /\ Len(b) < 256
  /\ Len(values) = ValPtr(freq)[16] + freq[16]

LEMMA DHTIs ==
  ASSUME NEW c \in Tables
  PROVE  /\ create_DHT(c) = Segment(DHT, DCBody(c)) \o Segment(DHT, ACBody(c))
         /\ TableRead(DCBody(c), c, DC_freq[c], DC_values[c])
         /\ TableRead(ACBody(c), 16 + c, AC_freq[c], AC_values[c])
  <1> DEFINE df == DC_freq[c]
             dv == DC_values[c]
             af == AC_freq[c]
             av == AC_values[c]
  <1>1. Listed(df, dv, Cardinality(DC_coded[c]))  BY DCTableIs
  <1>2. Listed(af, av, Cardinality(AC_coded[c]))  BY ACTableIs
  <1>3. 16 * 0 + c = c /\ 16 * 1 + c = 16 + c /\ c \in Byte /\ 16 + c \in Byte
    <2>1. c \in {0, 1}  BY DEF Tables
    <2> QED  BY <2>1, ByteIs
  <1>4. create_DHT(c) = TableSegment(c, df, dv) \o TableSegment(16 + c, af, av)
    <2>1. create_DHT(c) = TableSegment(16 * 0 + c, df, dv) \o TableSegment(16 * 1 + c, af, av)  BY TwoTables
    <2> HIDE DEF df, dv, af, av
    <2> QED  BY ONLY <1>3, <2>1
  <1> HIDE DEF df, dv, af, av
  <1>5. ASSUME NEW k \in Byte, NEW freq, NEW values, NEW n, Listed(freq, values, n)
        PROVE  TableSegment(k, freq, values) = Segment(DHT, TableBody(k, freq, values))
               /\ TableRead(TableBody(k, freq, values), k, freq, values)
    <2>1. /\ freq \in [1 .. 16 -> Byte] /\ n \in Nat /\ n < 236 /\ values \in [1 .. n -> Byte]
          /\ n = ValPtr(freq)[16] + freq[16]
      BY ONLY <1>5 DEF Listed
    <2>2. /\ TableSegment(k, freq, values) = Segment(DHT, TableBody(k, freq, values))
          /\ TableIn(TableBody(k, freq, values), k, freq, values) /\ Len(values) = n
      BY ONLY <2>1, k \in Byte, TableSegmentIs
    <2> DEFINE b == TableBody(k, freq, values)
    <2>3. Len(b) = 17 + Len(values)
      <3> HIDE DEF b
      <3> QED  BY ONLY <2>2 DEF TableIn, b
    <2> HIDE DEF b
    <2>4. Len(b) < 256  BY ONLY <2>1, <2>2, <2>3
    <2> QED  BY ONLY <2>1, <2>2, <2>4 DEF TableRead, b
  <1>6. /\ TableSegment(c, df, dv) = Segment(DHT, TableBody(c, df, dv))
        /\ TableRead(TableBody(c, df, dv), c, df, dv)
    BY ONLY <1>1, <1>3, <1>5
  <1>7. /\ TableSegment(16 + c, af, av) = Segment(DHT, TableBody(16 + c, af, av))
        /\ TableRead(TableBody(16 + c, af, av), 16 + c, af, av)
    BY ONLY <1>2, <1>3, <1>5
  <1> QED  BY ONLY <1>4, <1>6, <1>7 DEF DCBody, ACBody, df, dv, af, av

-----------------------------------------------------------------------------
(* The decoder reads the main header. *)

\* A header that begins with a leaves the decoder, after n rounds, just behind it.
Walked(h, n, a, done, sz, comps, scan, interval, steps, huffman) ==
  /\ a \in Seq(Byte) /\ n \in Nat
  /\ Stands(a, 0, h) => Walk(h, n, Decoder(Len(a) + 1, Yes, done, sz, comps, scan, interval, steps, huffman))

LEMMA DecoderHas ==
  ASSUME NEW p, NEW ok, NEW done, NEW sz, NEW comps, NEW scan, NEW interval, NEW steps, NEW huffman
  PROVE  /\ Decoder(p, ok, done, sz, comps, scan, interval, steps, huffman).at = p
         /\ Decoder(p, ok, done, sz, comps, scan, interval, steps, huffman).ok = ok
         /\ Decoder(p, ok, done, sz, comps, scan, interval, steps, huffman).done = done
  BY DEF Decoder

\* The decoder's next round.
LEMMA ReadsOn ==
  ASSUME NEW h \in Seq(Nat), NEW n \in Nat, NEW a \in Seq(Byte), NEW m \in Nat, m < 256 * 256,
         NEW body \in Seq(Byte), Len(body) < 256, Stands(a \o Segment(m, body), 0, h),
         NEW d, Walk(h, n, d), d.at = Len(a) + 1, d.ok, ~d.done
  PROVE  Walk(h, n + 1, Take(m, MovedTo(d, Len(a \o Segment(m, body)) + 1), body))
  <1>1. ReadSegment(h, d) = Take(m, MovedTo(d, Len(a \o Segment(m, body)) + 1), body)  BY SegmentTaken
  <1>2. ReadOn(h, d) = ReadSegment(h, d)  BY DEF ReadOn
  <1>3. Walk(h, n + 1, ReadOn(h, d))  BY ONLY n \in Nat, Walk(h, n, d), WalkGoesOn
  <1> QED  BY ONLY <1>1, <1>2, <1>3

\* A segment behind what has been read.
LEMMA ReadsSegment ==
  ASSUME NEW h \in Seq(Nat), NEW n, NEW a, NEW m \in Nat, m < 256 * 256, NEW body \in Seq(Byte), Len(body) < 256,
         NEW sz, NEW comps, NEW scan, NEW interval, NEW steps, NEW huffman,
         NEW done, NEW sz1, NEW comps1, NEW scan1, NEW interval1, NEW steps1, NEW huffman1,
         Walked(h, n, a, No, sz, comps, scan, interval, steps, huffman),
         \A p, q : Take(m, MovedTo(Decoder(p, Yes, No, sz, comps, scan, interval, steps, huffman), q), body)
                     = Decoder(q, Yes, done, sz1, comps1, scan1, interval1, steps1, huffman1)
  PROVE  Walked(h, n + 1, a \o Segment(m, body), done, sz1, comps1, scan1, interval1, steps1, huffman1)
  <1> DEFINE s == Segment(m, body)
             b == a \o s
             d == Decoder(Len(a) + 1, Yes, No, sz, comps, scan, interval, steps, huffman)
             e == Decoder(Len(b) + 1, Yes, done, sz1, comps1, scan1, interval1, steps1, huffman1)
  <1>1. a \in Seq(Byte) /\ n \in Nat /\ (Stands(a, 0, h) => Walk(h, n, d))  BY DEF Walked
  <1>2. s \in Seq(Byte)  BY SegmentIs
  <1>3. Take(m, MovedTo(d, Len(b) + 1), body) = e  OBVIOUS
  <1>4. d.at = Len(a) + 1 /\ d.ok = Yes /\ d.done = No  BY DecoderHas
  <1> HIDE DEF d, e
  <1>5. b \in Seq(Byte) /\ (Stands(b, 0, h) => Stands(a, 0, h))
    <2> HIDE DEF s
    <2>1. b \in Seq(Byte)  BY ONLY <1>1, <1>2, BytesJoin
    <2>2. Stands(b, 0, h) => Stands(a, 0, h)  BY ONLY h \in Seq(Nat), <1>1, <1>2, Following
    <2> QED  BY <2>1, <2>2
  <1>6. Stands(b, 0, h) => Walk(h, n + 1, e)
    <2> HAVE Stands(b, 0, h)
    <2>1. Walk(h, n, d)  BY ONLY <1>1, <1>5, Stands(b, 0, h)
    <2>2. d.ok /\ ~d.done  BY ONLY <1>4 DEF Yes, No
    <2>3. Walk(h, n + 1, Take(m, MovedTo(d, Len(a \o Segment(m, body)) + 1), body))
      BY ONLY h \in Seq(Nat), m \in Nat, m < 256 * 256, body \in Seq(Byte), Len(body) < 256, Stands(b, 0, h),
              <1>1, <1>4, <2>1, <2>2, ReadsOn
    <2> QED  BY ONLY <1>3, <2>3
  <1>7. n + 1 \in Nat  BY ONLY <1>1
  <1> HIDE DEF b
  <1> QED  BY ONLY <1>5, <1>6, <1>7 DEF Walked, e, b

\* The start of an image.
LEMMA ReadsStart ==
  ASSUME NEW h \in Seq(Nat)
  PROVE  Walked(h, 0, put_word(SOI), No, <<0, 0>>, <<>>, <<>>, 0, <<>>, <<>>)
  <1> DEFINE w == put_word(SOI)
             d == Decoder(3, Yes, No, <<0, 0>>, <<>>, <<>>, 0, <<>>, <<>>)
  <1>1. SOI \in Nat /\ SOI < 256 * 256  BY DEF SOI
  <1>2. w \in Seq(Byte) /\ Len(w) = 2  BY <1>1, WordIs
  <1>3. ASSUME Stands(w, 0, h) PROVE ReadStart(h) = d
    <2>1. Word(h, 0 + 1) = SOI
      <3>1. 0 \in Nat  OBVIOUS
      <3> QED  BY ONLY <1>1, <1>3, <3>1, WordAt
    <2>2. Len(h) >= 2
      <3> HIDE DEF w
      <3>1. Len(h) \in Nat  BY LenProperties
      <3> QED  BY ONLY <1>2, <1>3, <3>1 DEF Stands
    <2> DEFINE ok == Len(h) >= 2 /\ Word(h, 1) = SOI
    <2>3. 0 + 1 = 1  OBVIOUS
    <2>4. ok = TRUE  BY ONLY <2>1, <2>2, <2>3
    <2>5. ReadStart(h) = [Unread EXCEPT !.ok = ok]  BY DEF ReadStart
    <2> HIDE DEF ok
    <2> QED  BY ONLY <2>4, <2>5 DEF d, Unread, Decoder, Yes, No
  <1>4. Walk(h, 0, ReadStart(h))  BY WalkStarts
  <1>5. Len(w) + 1 = 3  BY ONLY <1>2
  <1>6. 0 \in Nat  OBVIOUS
  <1> HIDE DEF w, d
  <1>7. Stands(w, 0, h) => Walk(h, 0, d)  BY ONLY <1>3, <1>4
  <1> QED  BY ONLY <1>2, <1>5, <1>6, <1>7 DEF Walked, d, w

\* Steps.
LEMMA ReadsDQT ==
  ASSUME NEW h \in Seq(Nat), NEW n, NEW a, NEW c \in {0, 1}, NEW qtable \in [1 .. 64 -> Int],
         NEW sz, NEW comps, NEW scan, NEW interval, NEW steps, NEW huffman,
         Walked(h, n, a, No, sz, comps, scan, interval, steps, huffman)
  PROVE  Walked(h, n + 1, a \o create_DQT(c, qtable), No, sz, comps, scan, interval,
                 With(c, Announced(qtable), steps), huffman)
  <1> DEFINE b == StepsBody(c, qtable)
             t == Announced(qtable)
  <1>1. create_DQT(c, qtable) = Segment(DQT, b) /\ b \in Seq(Byte) /\ Len(b) = 65 /\ b[1] = c /\ TailIs(b, t)
    BY DQTIs
  <1>2. DQT \in Nat /\ DQT < 256 * 256  BY DEF DQT
  <1> HIDE DEF b, t
  <1>3. Len(b) < 256  BY ONLY <1>1
  <1> DEFINE steps1 == With(c, t, steps)
  <1>4. steps1 = StepsOf(b, steps) /\ IsSteps(b)  BY ONLY <1>1 DEF TailIs, StepsOf, IsSteps
  <1> HIDE DEF steps1
  <1>5. \A p, q : Take(DQT, MovedTo(Decoder(p, Yes, No, sz, comps, scan, interval, steps, huffman), q), b)
                    = Decoder(q, Yes, No, sz, comps, scan, interval, steps1, huffman)
    <2> TAKE p, q
    <2> DEFINE x == MovedTo(Decoder(p, Yes, No, sz, comps, scan, interval, steps, huffman), q)
    <2>1. TakeDQT(x, b) = Decoder(q, Yes, No, sz, comps, scan, interval, steps1, huffman)
      BY ONLY <1>4, TakesDQT
    <2> HIDE DEF x
    <2>2. Take(DQT, x, b) = TakeDQT(x, b)  BY ONLY TakenByMarker
    <2> QED  BY ONLY <2>1, <2>2 DEF x
  <1>6. Walked(h, n + 1, a \o Segment(DQT, b), No, sz, comps, scan, interval, steps1, huffman)
    BY ONLY h \in Seq(Nat), Walked(h, n, a, No, sz, comps, scan, interval, steps, huffman),
            <1>1, <1>2, <1>3, <1>5, ReadsSegment
  <1> QED  BY ONLY <1>1, <1>6 DEF steps1, t

\* The frame.
LEMMA ReadsSOF ==
  ASSUME NEW h \in Seq(Nat), NEW n, NEW a, NEW Y \in Nat, NEW X \in Nat, NEW Nf \in {1, 3}, NEW ycc \in YCC,
         NEW sz, NEW comps, NEW scan, NEW interval, NEW steps, NEW huffman,
         Walked(h, n, a, No, sz, comps, scan, interval, steps, huffman),
         NEW b, b = SOFBody(Y, X, Nf, ycc)
  PROVE  Walked(h, n + 1, a \o create_SOF(Y, X, Nf, ycc), No, <<Word(b, 4), Word(b, 2)>>, Comps(b, Nf), scan, interval,
                 steps, huffman)
  <1>1. create_SOF(Y, X, Nf, ycc) = Segment(SOF, b) /\ FrameBody(b, Y, X, Nf, ycc)  BY SOFIs
  <1>2. SOF \in Nat /\ SOF < 256 * 256  BY DEF SOF
  <1>3. b \in Seq(Byte) /\ Len(b) = 6 + 3 * Nf /\ b[1] = 8 /\ b[6] = Nf  BY ONLY <1>1 DEF FrameBody
  <1>4. Len(b) < 256 /\ Len(b) = 6 + 3 * b[6]  BY ONLY <1>3, Nf \in {1, 3}
  <1> DEFINE sz1 == <<Word(b, 4), Word(b, 2)>>
             comps1 == Comps(b, Nf)
  <1>5. comps1 = CompsOf(b) /\ sz1 = SizeOf(b) /\ IsFrame(b)  BY ONLY <1>3, <1>4 DEF CompsOf, SizeOf, IsFrame
  <1> HIDE DEF comps1, sz1
  <1>6. \A p, q : Take(SOF, MovedTo(Decoder(p, Yes, No, sz, comps, scan, interval, steps, huffman), q), b)
                    = Decoder(q, Yes, No, sz1, comps1, scan, interval, steps, huffman)
    <2> TAKE p, q
    <2> DEFINE x == MovedTo(Decoder(p, Yes, No, sz, comps, scan, interval, steps, huffman), q)
    <2>1. TakeSOF(x, b) = Decoder(q, Yes, No, sz1, comps1, scan, interval, steps, huffman)
      BY ONLY <1>5, TakesSOF
    <2> HIDE DEF x
    <2>2. Take(SOF, x, b) = TakeSOF(x, b)  BY ONLY TakenByMarker
    <2> QED  BY ONLY <2>1, <2>2 DEF x
  <1>7. Walked(h, n + 1, a \o Segment(SOF, b), No, sz1, comps1, scan, interval, steps, huffman)
    BY ONLY h \in Seq(Nat), Walked(h, n, a, No, sz, comps, scan, interval, steps, huffman),
            <1>2, <1>3, <1>4, <1>6, ReadsSegment
  <1> QED  BY ONLY <1>1, <1>7 DEF sz1, comps1

\* The tables, two segments for each component.
LEMMA ReadsTable ==
  ASSUME NEW h \in Seq(Nat), NEW n, NEW a, NEW b, NEW k, NEW freq, NEW values, TableRead(b, k, freq, values),
         NEW sz, NEW comps, NEW scan, NEW interval, NEW steps, NEW huffman,
         Walked(h, n, a, No, sz, comps, scan, interval, steps, huffman)
  PROVE  Walked(h, n + 1, a \o Segment(DHT, b), No, sz, comps, scan, interval, steps, With(k, <<freq, values>>, huffman))
  <1>1. /\ b \in Seq(Byte) /\ Len(b) = 17 + Len(values) /\ b[1] = k
        /\ SubSeq(b, 2, 17) = freq /\ SubSeq(b, 18, Len(b)) = values
        /\ Len(b) < 256 /\ Len(values) = ValPtr(freq)[16] + freq[16]
    BY ONLY TableRead(b, k, freq, values) DEF TableRead, TableIn
  <1>2. DHT \in Nat /\ DHT < 256 * 256  BY DEF DHT
  <1> DEFINE huffman1 == With(k, <<freq, values>>, huffman)
  <1>3. huffman1 = TablesOf(b, huffman) /\ IsTable(b)  BY ONLY <1>1 DEF TablesOf, IsTable
  <1> HIDE DEF huffman1
  <1>4. \A p, q : Take(DHT, MovedTo(Decoder(p, Yes, No, sz, comps, scan, interval, steps, huffman), q), b)
                    = Decoder(q, Yes, No, sz, comps, scan, interval, steps, huffman1)
    <2> TAKE p, q
    <2> DEFINE x == MovedTo(Decoder(p, Yes, No, sz, comps, scan, interval, steps, huffman), q)
    <2>1. TakeDHT(x, b) = Decoder(q, Yes, No, sz, comps, scan, interval, steps, huffman1)
      BY ONLY <1>3, TakesDHT
    <2> HIDE DEF x
    <2>2. Take(DHT, x, b) = TakeDHT(x, b)  BY ONLY TakenByMarker
    <2> QED  BY ONLY <2>1, <2>2 DEF x
  <1>5. Walked(h, n + 1, a \o Segment(DHT, b), No, sz, comps, scan, interval, steps, huffman1)
    BY ONLY h \in Seq(Nat), Walked(h, n, a, No, sz, comps, scan, interval, steps, huffman),
            <1>1, <1>2, <1>4, ReadsSegment
  <1> QED  BY ONLY <1>5 DEF huffman1

WithTables(c, huffman) ==
  With(16 + c, <<AC_freq[c], AC_values[c]>>, With(c, <<DC_freq[c], DC_values[c]>>, huffman))
LEMMA ReadsDHT ==
  ASSUME NEW h \in Seq(Nat), NEW n, NEW a, NEW c \in Tables,
         NEW sz, NEW comps, NEW scan, NEW interval, NEW steps, NEW huffman,
         Walked(h, n, a, No, sz, comps, scan, interval, steps, huffman)
  PROVE  Walked(h, n + 2, a \o AllDHT[c], No, sz, comps, scan, interval, steps, WithTables(c, huffman))
  <1> DEFINE s == Segment(DHT, DCBody(c))
             t == Segment(DHT, ACBody(c))
             df == DC_freq[c]
             dv == DC_values[c]
             af == AC_freq[c]
             av == AC_values[c]
  <1>1. create_DHT(c) = s \o t /\ TableRead(DCBody(c), c, df, dv) /\ TableRead(ACBody(c), 16 + c, af, av)
    BY DHTIs
  <1>2. AllDHT[c] = s \o t  BY ONLY <1>1, c \in Tables DEF AllDHT
  <1> HIDE DEF df, dv, af, av
  <1>3. Walked(h, n + 1, a \o s, No, sz, comps, scan, interval, steps, With(c, <<df, dv>>, huffman))
    BY ONLY h \in Seq(Nat), Walked(h, n, a, No, sz, comps, scan, interval, steps, huffman), <1>1, ReadsTable
  <1>4. Walked(h, (n + 1) + 1, (a \o s) \o t, No, sz, comps, scan, interval, steps,
                With(16 + c, <<af, av>>, With(c, <<df, dv>>, huffman)))
    BY ONLY h \in Seq(Nat), <1>1, <1>3, ReadsTable
  <1>5. a \in Seq(Byte) /\ n \in Nat
    BY ONLY Walked(h, n, a, No, sz, comps, scan, interval, steps, huffman) DEF Walked
  <1>6. s \in Seq(Byte) /\ t \in Seq(Byte)
    <2>1. DHT \in Nat  BY DEF DHT
    <2>2. DCBody(c) \in Seq(Byte) /\ ACBody(c) \in Seq(Byte)  BY ONLY <1>1 DEF TableRead, TableIn
    <2> QED  BY ONLY <2>1, <2>2, SegmentIs
  <1> HIDE DEF s, t
  <1>7. Regrouped(a, s, t)  BY ONLY <1>5, <1>6, BytesAssoc
  <1>8. (a \o s) \o t = a \o AllDHT[c]  BY ONLY <1>2, <1>7 DEF Regrouped
  <1>9. (n + 1) + 1 = n + 2  BY ONLY <1>5
  <1>10. Walked(h, n + 2, a \o AllDHT[c], No, sz, comps, scan, interval, steps,
                 With(16 + c, <<af, av>>, With(c, <<df, dv>>, huffman)))
    BY ONLY <1>4, <1>8, <1>9
  <1> QED  BY ONLY <1>10 DEF WithTables, df, dv, af, av

\* The restart interval.
LEMMA ReadsDRI ==
  ASSUME NEW h \in Seq(Nat), NEW n, NEW a, NEW X \in Nat, NEW ycc \in YCC,
         NEW sz, NEW comps, NEW scan, NEW interval, NEW steps, NEW huffman,
         Walked(h, n, a, No, sz, comps, scan, interval, steps, huffman)
  PROVE  Walked(h, n + 1, a \o create_DRI(X, ycc), No, sz, comps, scan, Word(put_word(Interval(X, ycc)), 1), steps, huffman)
  <1> DEFINE b == put_word(Interval(X, ycc))
  <1>1. create_DRI(X, ycc) = Segment(DRI, b) /\ b \in Seq(Byte) /\ Len(b) = 2  BY DRIIs
  <1>2. DRI \in Nat /\ DRI < 256 * 256  BY DEF DRI
  <1> HIDE DEF b
  <1>3. Len(b) < 256  BY ONLY <1>1
  <1> DEFINE interval1 == Word(b, 1)
  <1>4. IsInterval(b)  BY ONLY <1>1 DEF IsInterval
  <1>6. \A p, q : Take(DRI, MovedTo(Decoder(p, Yes, No, sz, comps, scan, interval, steps, huffman), q), b)
                    = Decoder(q, Yes, No, sz, comps, scan, interval1, steps, huffman)
    <2> TAKE p, q
    <2> DEFINE x == MovedTo(Decoder(p, Yes, No, sz, comps, scan, interval, steps, huffman), q)
    <2>1. TakeDRI(x, b) = Decoder(q, Yes, No, sz, comps, scan, interval1, steps, huffman)
      BY ONLY <1>4, TakesDRI
    <2> HIDE DEF x
    <2>2. Take(DRI, x, b) = TakeDRI(x, b)  BY ONLY TakenByMarker
    <2> QED  BY ONLY <2>1, <2>2 DEF x
  <1> HIDE DEF interval1
  <1>5. Walked(h, n + 1, a \o Segment(DRI, b), No, sz, comps, scan, interval1, steps, huffman)
    BY ONLY h \in Seq(Nat), Walked(h, n, a, No, sz, comps, scan, interval, steps, huffman),
            <1>1, <1>2, <1>3, <1>6, ReadsSegment
  <1> QED  BY ONLY <1>1, <1>5 DEF interval1, b

\* The scan's header, the last segment.
LEMMA ReadsSOS ==
  ASSUME NEW h \in Seq(Nat), NEW n, NEW a, NEW Ns \in {1, 3},
         NEW sz, NEW comps, NEW scan, NEW interval, NEW steps, NEW huffman,
         Walked(h, n, a, No, sz, comps, scan, interval, steps, huffman)
  PROVE  Walked(h, n + 1, a \o create_SOS(Ns), Yes, sz, comps, Scans(SOSBody(Ns), Ns), interval, steps, huffman)
  <1> DEFINE b == SOSBody(Ns)
  <1>1. create_SOS(Ns) = Segment(SOS, b) /\ ScanBody(b, Ns)  BY SOSIs
  <1>2. SOS \in Nat /\ SOS < 256 * 256  BY DEF SOS
  <1> HIDE DEF b
  <1>3. b \in Seq(Byte) /\ Len(b) = 4 + 2 * Ns /\ b[1] = Ns /\ Stands(<<0, 63, 0>>, 1 + 2 * Ns, b)
    BY ONLY <1>1 DEF ScanBody
  <1>4. Len(b) < 256 /\ Len(b) = 4 + 2 * b[1]  BY ONLY <1>3, Ns \in {1, 3}
  <1>5. SubSeq(b, 2 + 2 * b[1], 4 + 2 * b[1]) = <<0, 63, 0>>
    <2> DEFINE z == <<0, 63, 0>>
    <2>1. z \in Seq(Byte) /\ Len(z) = 3
      <3>1. 0 \in Byte /\ 63 \in Byte  BY ByteIs
      <3> QED  BY ONLY <3>1
    <2> HIDE DEF z
    <2>2. 1 + 2 * Ns \in Nat /\ (1 + 2 * Ns) + 1 = 2 + 2 * Ns /\ (1 + 2 * Ns) + 3 = 4 + 2 * Ns  BY ONLY Ns \in {1, 3}
    <2>3. Stands(z, 1 + 2 * Ns, b)  BY ONLY <1>3 DEF z
    <2>4. SubSeq(b, (1 + 2 * Ns) + 1, (1 + 2 * Ns) + Len(z)) = z  BY ONLY <1>3, <2>1, <2>2, <2>3, StandsIsCut
    <2> QED  BY ONLY <1>3, <2>1, <2>2, <2>4 DEF z
  <1> DEFINE scan1 == Scans(b, Ns)
  <1>6. scan1 = ScansOf(b) /\ IsScan(b)  BY ONLY <1>3, <1>4, <1>5 DEF ScansOf, IsScan
  <1> HIDE DEF scan1
  <1>7. \A p, q : Take(SOS, MovedTo(Decoder(p, Yes, No, sz, comps, scan, interval, steps, huffman), q), b)
                    = Decoder(q, Yes, Yes, sz, comps, scan1, interval, steps, huffman)
    <2> TAKE p, q
    <2> DEFINE x == MovedTo(Decoder(p, Yes, No, sz, comps, scan, interval, steps, huffman), q)
    <2>1. TakeSOS(x, b) = Decoder(q, Yes, Yes, sz, comps, scan1, interval, steps, huffman)
      BY ONLY <1>6, TakesSOS
    <2> HIDE DEF x
    <2>2. Take(SOS, x, b) = TakeSOS(x, b)  BY ONLY TakenByMarker
    <2> QED  BY ONLY <2>1, <2>2 DEF x
  <1>8. Walked(h, n + 1, a \o Segment(SOS, b), Yes, sz, comps, scan1, interval, steps, huffman)
    BY ONLY h \in Seq(Nat), Walked(h, n, a, No, sz, comps, scan, interval, steps, huffman),
            <1>2, <1>3, <1>4, <1>7, ReadsSegment
  <1> QED  BY ONLY <1>1, <1>8 DEF scan1, b

\* The announced steps are numbers.
LEMMA StepsAreNumbers ==
  ASSUME NEW QF \in 1 .. 100, NEW c \in 1 .. 2
  PROVE  announced_qtable(c, QF) \in [1 .. 64 -> Int]
  <1>1. ASSUME NEW i \in 1 .. 64 PROVE stepsize(c, QF, i) \in Int
    <2>1. qmatrix[c][i] \in Int
      <3>1. \A k \in 1 .. 64 : qmatrix[1][k] \in Int  BY DEF qmatrix
      <3>2. \A k \in 1 .. 64 : qmatrix[2][k] \in Int  BY DEF qmatrix
      <3>3. c = 1 \/ c = 2  OBVIOUS
      <3> QED  BY ONLY <3>1, <3>2, <3>3, i \in 1 .. 64
    <2>2. ASSUME NEW x \in Int PROVE Clamp(x) \in Int  BY DEF Clamp
    <2>3. CASE QF < 50
      <3>1. (qmatrix[c][i] * 5000 + 50 * QF) \div (100 * QF) \in Int
        <4> DEFINE m == qmatrix[c][i]
                   k == 100 * QF
        <4>1. k \in Nat /\ k >= 1  OBVIOUS
        <4>2. m * 5000 + 50 * QF \in Int  BY <2>1
        <4> HIDE DEF k, m
        <4>3. (m * 5000 + 50 * QF) \div k \in Int  BY <4>1, <4>2
        <4> QED  BY <4>3 DEF k, m
      <3>2. stepsize(c, QF, i) = Clamp((qmatrix[c][i] * 5000 + 50 * QF) \div (100 * QF))
        <4>1. ~(QF = 0) /\ QF \in 1 .. 49 /\ ~(QF >= 50)  BY <2>3
        <4> QED  BY ONLY <4>1 DEF stepsize
      <3> QED  BY <2>2, <3>1, <3>2
    <2>4. CASE ~(QF < 50)
      <3>1. (qmatrix[c][i] * (200 - 2 * QF) + 50) \div 100 \in Int
        <4> DEFINE m == qmatrix[c][i]
                   k == 200 - 2 * QF
        <4>1. k \in Int /\ m \in Int  BY <2>1
        <4> HIDE DEF k, m
        <4>2. m * k \in Int  BY <4>1
        <4> QED  BY <4>2 DEF k, m
      <3>2. stepsize(c, QF, i) = Clamp((qmatrix[c][i] * (200 - 2 * QF) + 50) \div 100)
        <4>1. ~(QF = 0) /\ ~(QF \in 1 .. 49) /\ QF >= 50  BY <2>4
        <4> QED  BY ONLY <4>1 DEF stepsize
      <3> QED  BY <2>2, <3>1, <3>2
    <2> QED  BY <2>3, <2>4
  <1> QED  BY <1>1 DEF announced_qtable

\* What a decoder has read at the end of the header.
Channels(ycc) == IF ycc \in {"GRAY", "GRAY2"} THEN 1 ELSE 3
StepsFor(n, QF) ==
  LET luma == With(0, Announced(announced_qtable(1, QF)), <<>>)
  IN IF n > 1 THEN With(1, Announced(announced_qtable(2, QF)), luma) ELSE luma
TablesFor(n) == IF n > 1 THEN WithTables(1, WithTables(0, <<>>)) ELSE WithTables(0, <<>>)
IntervalFor(X, ycc, reset) == IF reset THEN Word(put_word(Interval(X, ycc)), 1) ELSE 0
Announcement(at_, X, Y, QF, ycc, reset) ==
  LET n == Channels(ycc)
      b == SOFBody(Y, X, n, ycc)
  IN Decoder(at_, Yes, Yes, <<Word(b, 4), Word(b, 2)>>, Comps(b, n), Scans(SOSBody(n), n), IntervalFor(X, ycc, reset),
             StepsFor(n, QF), TablesFor(n))

\* Nothing more is nothing read.
LEMMA ReadsNothing ==
  ASSUME NEW h, NEW n, NEW a, NEW sz, NEW comps, NEW scan, NEW interval, NEW steps, NEW huffman,
         Walked(h, n, a, No, sz, comps, scan, interval, steps, huffman)
  PROVE  Walked(h, n, a \o <<>>, No, sz, comps, scan, interval, steps, huffman)
  <1>1. a \in Seq(Byte)  BY DEF Walked
  <1>2. a \o <<>> = a  BY ONLY <1>1, ConcatEmptySeq
  <1> QED  BY ONLY Walked(h, n, a, No, sz, comps, scan, interval, steps, huffman), <1>2

LEMMA ReadsMore ==
  ASSUME NEW h, NEW n, NEW a, NEW sz, NEW comps, NEW scan, NEW interval, NEW steps, NEW huffman,
         NEW cond \in BOOLEAN, NEW s, NEW k \in Nat, NEW interval1, NEW steps1, NEW huffman1,
         Walked(h, n, a, No, sz, comps, scan, interval, steps, huffman),
         cond => Walked(h, n + k, a \o s, No, sz, comps, scan, interval1, steps1, huffman1)
  PROVE  Walked(h, IF cond THEN n + k ELSE n, a \o (IF cond THEN s ELSE <<>>), No, sz, comps, scan,
                 IF cond THEN interval1 ELSE interval, IF cond THEN steps1 ELSE steps, IF cond THEN huffman1 ELSE huffman)
  <1>1. CASE cond  BY ONLY <1>1, cond => Walked(h, n + k, a \o s, No, sz, comps, scan, interval1, steps1, huffman1)
  <1>2. CASE ~cond
    <2>1. Walked(h, n, a \o <<>>, No, sz, comps, scan, interval, steps, huffman)
      BY ONLY Walked(h, n, a, No, sz, comps, scan, interval, steps, huffman), ReadsNothing
    <2> QED  BY ONLY <1>2, <2>1
  <1> QED  BY ONLY <1>1, <1>2, cond \in BOOLEAN

\* Up to the tables, and from there on.
Opening(X, Y, QF, ycc, n) ==
  put_word(SOI)
    \o create_DQT(0, announced_qtable(1, QF)) \o (IF n > 1 THEN create_DQT(1, announced_qtable(2, QF)) ELSE <<>>)
    \o create_SOF(Y, X, n, ycc)
Closing(a, X, ycc, reset, n) ==
  a \o AllDHT[0] \o (IF n > 1 THEN AllDHT[1] ELSE <<>>)
    \o (IF reset THEN create_DRI(X, ycc) ELSE <<>>)
    \o create_SOS(n)

LEMMA HeaderHalves ==
  ASSUME NEW X, NEW Y, NEW QF, NEW ycc, NEW reset
  PROVE  create_mainheader(X, Y, QF, ycc, reset) = Closing(Opening(X, Y, QF, ycc, Channels(ycc)), X, ycc, reset, Channels(ycc))
  BY DEF create_mainheader, Opening, Closing, Channels

LEMMA ReadsOpening ==
  ASSUME NEW h \in Seq(Nat), NEW X \in Nat, NEW Y \in Nat, NEW QF \in 1 .. 100, NEW ycc \in YCC, NEW n \in {1, 3},
         NEW b, b = SOFBody(Y, X, n, ycc)
  PROVE  \E k \in 0 .. 3 : Walked(h, k, Opening(X, Y, QF, ycc, n), No, <<Word(b, 4), Word(b, 2)>>, Comps(b, n), <<>>, 0,
                                   StepsFor(n, QF), <<>>)
  <1> DEFINE q1 == announced_qtable(1, QF)
             q2 == announced_qtable(2, QF)
             w == put_word(SOI)
             s1 == create_DQT(0, q1)
             s2 == create_DQT(1, q2)
             e == <<>>
             sz == <<0, 0>>
             l == With(0, Announced(q1), e)
             m == With(1, Announced(q2), l)
             cond == n > 1
             a == w \o s1 \o (IF cond THEN s2 ELSE <<>>)
             k == IF cond THEN 2 ELSE 1
  <1>1. q1 \in [1 .. 64 -> Int] /\ q2 \in [1 .. 64 -> Int]
    <2>1. 1 \in 1 .. 2 /\ 2 \in 1 .. 2  OBVIOUS
    <2> QED  BY ONLY <2>1, QF \in 1 .. 100, StepsAreNumbers
  <1>2. 0 \in {0, 1} /\ 1 \in {0, 1} /\ cond \in BOOLEAN /\ 1 \in Nat  OBVIOUS
  <1> HIDE DEF q1, q2, cond, k
  <1>3. Walked(h, 0, w, No, sz, e, e, 0, e, e)  BY ONLY h \in Seq(Nat), ReadsStart
  <1> HIDE DEF sz, e
  <1>4. Walked(h, 0 + 1, w \o s1, No, sz, e, e, 0, l, e)
    <2> HIDE DEF w
    <2> QED  BY ONLY h \in Seq(Nat), <1>1, <1>2, <1>3, ReadsDQT
  <1>5. 0 + 1 = 1 /\ 1 + 1 = 2  OBVIOUS
  <1>6. Walked(h, 1, w \o s1, No, sz, e, e, 0, l, e)  BY ONLY <1>4, <1>5
  <1>7. Walked(h, 1 + 1, (w \o s1) \o s2, No, sz, e, e, 0, m, e)
    <2> DEFINE x == w \o s1
    <2>1. Walked(h, 1, x, No, sz, e, e, 0, l, e)  BY ONLY <1>6
    <2> HIDE DEF x, l
    <2>2. Walked(h, 1 + 1, x \o s2, No, sz, e, e, 0, m, e)  BY ONLY h \in Seq(Nat), <1>1, <1>2, <2>1, ReadsDQT
    <2> HIDE DEF s1, s2, m, w
    <2> QED  BY ONLY <2>2 DEF x
  <1> HIDE DEF w, s1, s2, l, m
  <1>8. Walked(h, IF cond THEN 1 + 1 ELSE 1, a, No, sz, e, e, IF cond THEN 0 ELSE 0, IF cond THEN m ELSE l, IF cond THEN e ELSE e)
    BY ONLY <1>2, <1>6, <1>7, ReadsMore
  <1>9. Walked(h, k, a, No, sz, e, e, 0, StepsFor(n, QF), e)
    <2>1. (IF cond THEN 1 + 1 ELSE 1) = k /\ (IF cond THEN 0 ELSE 0) = 0 /\ (IF cond THEN e ELSE e) = e  BY ONLY <1>2 DEF k
    <2>2. (IF cond THEN m ELSE l) = StepsFor(n, QF)  BY ONLY <1>2 DEF StepsFor, m, l, cond, q1, q2, e
    <2> HIDE DEF a
    <2> QED  BY ONLY <1>8, <2>1, <2>2
  <1>10. Opening(X, Y, QF, ycc, n) = a \o create_SOF(Y, X, n, ycc)  BY DEF Opening, w, s1, s2, q1, q2, cond
  <1> HIDE DEF a
  <1>11. Walked(h, k + 1, a \o create_SOF(Y, X, n, ycc), No, <<Word(b, 4), Word(b, 2)>>, Comps(b, n), e, 0, StepsFor(n, QF), e)
    BY ONLY h \in Seq(Nat), X \in Nat, Y \in Nat, ycc \in YCC, n \in {1, 3}, b = SOFBody(Y, X, n, ycc), <1>9, ReadsSOF
  <1>12. k + 1 \in 0 .. 3  BY ONLY <1>2 DEF k
  <1> QED  BY ONLY <1>10, <1>11, <1>12 DEF e

LEMMA ReadsClosing ==
  ASSUME NEW h \in Seq(Nat), NEW r \in 0 .. 3, NEW a, NEW X \in Nat, NEW ycc \in YCC, NEW n \in {1, 3}, NEW reset \in BOOLEAN,
         NEW sz, NEW comps, NEW steps, Walked(h, r, a, No, sz, comps, <<>>, 0, steps, <<>>)
  PROVE  \E k \in 0 .. 9 : Walked(h, k, Closing(a, X, ycc, reset, n), Yes, sz, comps, Scans(SOSBody(n), n),
                                   IntervalFor(X, ycc, reset), steps, TablesFor(n))
  <1> DEFINE e == <<>>
             i == Word(put_word(Interval(X, ycc)), 1)
             j == IntervalFor(X, ycc, reset)
             l == WithTables(0, e)
             m == WithTables(1, l)
             t == TablesFor(n)
             cond == n > 1
             a1 == a \o AllDHT[0]
             a2 == a1 \o (IF cond THEN AllDHT[1] ELSE <<>>)
             a3 == a2 \o (IF reset THEN create_DRI(X, ycc) ELSE <<>>)
             r1 == r + 2
             r2 == IF cond THEN r1 + 2 ELSE r1
             r3 == IF reset THEN r2 + 1 ELSE r2
  <1>1. cond \in BOOLEAN /\ 0 \in Tables /\ 1 \in Tables /\ 1 \in Nat /\ 2 \in Nat  BY DEF Tables
  <1>2. r1 \in 0 .. 5 /\ r2 \in 0 .. 7 /\ r3 \in 0 .. 8  OBVIOUS
  <1>3. Closing(a, X, ycc, reset, n) = a3 \o create_SOS(n)  BY DEF Closing
  <1>a. Walked(h, r, a, No, sz, comps, e, 0, steps, e)  OBVIOUS
  <1> HIDE DEF e
  <1>4. Walked(h, r1, a1, No, sz, comps, e, 0, steps, l)  BY ONLY h \in Seq(Nat), <1>a, <1>1, ReadsDHT
  <1> HIDE DEF a1, l, r1, cond
  <1>5. Walked(h, r1 + 2, a1 \o AllDHT[1], No, sz, comps, e, 0, steps, m)  BY ONLY h \in Seq(Nat), <1>4, <1>1, ReadsDHT
  <1> HIDE DEF m
  <1>6. Walked(h, IF cond THEN r1 + 2 ELSE r1, a2, No, sz, comps, e, IF cond THEN 0 ELSE 0,
                IF cond THEN steps ELSE steps, IF cond THEN m ELSE l)
    BY ONLY <1>1, <1>4, <1>5, ReadsMore
  <1>7. Walked(h, r2, a2, No, sz, comps, e, 0, steps, t)
    <2>1. (IF cond THEN 0 ELSE 0) = 0 /\ (IF cond THEN steps ELSE steps) = steps  BY ONLY <1>1
    <2>2. (IF cond THEN m ELSE l) = t  BY ONLY <1>1 DEF TablesFor, m, l, cond, e
    <2> HIDE DEF a2, t
    <2> QED  BY ONLY <1>6, <2>1, <2>2
  <1> HIDE DEF a2, t, r2
  <1>8. Walked(h, r2 + 1, a2 \o create_DRI(X, ycc), No, sz, comps, e, i, steps, t)
    BY ONLY h \in Seq(Nat), X \in Nat, ycc \in YCC, <1>7, ReadsDRI
  <1> HIDE DEF i
  <1>9. Walked(h, IF reset THEN r2 + 1 ELSE r2, a3, No, sz, comps, e, IF reset THEN i ELSE 0,
                IF reset THEN steps ELSE steps, IF reset THEN t ELSE t)
    BY ONLY reset \in BOOLEAN, <1>1, <1>7, <1>8, ReadsMore
  <1>10. Walked(h, r3, a3, No, sz, comps, e, j, steps, t)
    <2>1. (IF reset THEN t ELSE t) = t /\ (IF reset THEN steps ELSE steps) = steps  BY ONLY reset \in BOOLEAN
    <2>2. (IF reset THEN i ELSE 0) = j  BY ONLY reset \in BOOLEAN DEF IntervalFor, i
    <2> HIDE DEF a3, j
    <2> QED  BY ONLY <1>9, <2>1, <2>2
  <1> HIDE DEF a3, j, r3
  <1>11. Walked(h, r3 + 1, a3 \o create_SOS(n), Yes, sz, comps, Scans(SOSBody(n), n), j, steps, t)
    BY ONLY h \in Seq(Nat), n \in {1, 3}, <1>10, ReadsSOS
  <1>12. r3 + 1 \in 0 .. 9  BY ONLY <1>2
  <1> QED  BY ONLY <1>3, <1>11, <1>12 DEF j, t

\* What is written is bytes, and however it goes on, a decoder reads all of it.
ReadInFull(z, X, Y, QF, ycc, reset) ==
  /\ z \in Seq(Byte)
  /\ \A h \in Seq(Nat) : Stands(z, 0, h) => ReadHeader(h) = Announcement(Len(z) + 1, X, Y, QF, ycc, reset)

\* The main header is bytes, and whatever stands behind it, a decoder reads all of it.
LEMMA HeaderIsRead ==
  ASSUME NEW X \in Nat, NEW Y \in Nat, NEW QF \in 1 .. 100, NEW ycc \in YCC, NEW reset \in BOOLEAN,
         NEW header_, header_ = create_mainheader(X, Y, QF, ycc, reset)
  PROVE  ReadInFull(header_, X, Y, QF, ycc, reset)
  <1> DEFINE n == Channels(ycc)
             b == SOFBody(Y, X, n, ycc)
             a == Opening(X, Y, QF, ycc, n)
             d == Announcement(Len(header_) + 1, X, Y, QF, ycc, reset)
  <1>1. n \in {1, 3}  BY DEF Channels
  <1>2. header_ = Closing(a, X, ycc, reset, n)  BY HeaderHalves
  <1> HIDE DEF n, b, a
  <1>3. ASSUME NEW h \in Seq(Nat)
        PROVE  \E k \in 0 .. 9 : Walked(h, k, header_, Yes, <<Word(b, 4), Word(b, 2)>>, Comps(b, n), Scans(SOSBody(n), n),
                                         IntervalFor(X, ycc, reset), StepsFor(n, QF), TablesFor(n))
    <2>1. PICK r \in 0 .. 3 : Walked(h, r, a, No, <<Word(b, 4), Word(b, 2)>>, Comps(b, n), <<>>, 0, StepsFor(n, QF), <<>>)
      BY <1>1, ReadsOpening DEF a, b
    <2> DEFINE sz == <<Word(b, 4), Word(b, 2)>>
               comps == Comps(b, n)
               steps == StepsFor(n, QF)
    <2> HIDE DEF sz, comps, steps
    <2>2. Walked(h, r, a, No, sz, comps, <<>>, 0, steps, <<>>)  BY ONLY <2>1 DEF sz, comps, steps
    <2>3. \E k \in 0 .. 9 : Walked(h, k, Closing(a, X, ycc, reset, n), Yes, sz, comps, Scans(SOSBody(n), n),
                                    IntervalFor(X, ycc, reset), steps, TablesFor(n))
      BY ONLY h \in Seq(Nat), r \in 0 .. 3, X \in Nat, ycc \in YCC, reset \in BOOLEAN, <1>1, <2>2, ReadsClosing
    <2> QED  BY ONLY <1>2, <2>3 DEF sz, comps, steps
  <1>4. d = Decoder(Len(header_) + 1, Yes, Yes, <<Word(b, 4), Word(b, 2)>>, Comps(b, n), Scans(SOSBody(n), n),
                    IntervalFor(X, ycc, reset), StepsFor(n, QF), TablesFor(n))
    BY DEF Announcement, n, b
  <1>5. d.done
    <2>1. d.done = Yes  BY ONLY <1>4, DecoderHas
    <2> QED  BY ONLY <2>1 DEF Yes
  <1> HIDE DEF d
  <1>6. header_ \in Seq(Byte)
    <2>1. <<>> \in Seq(Nat)  OBVIOUS
    <2> QED  BY ONLY <1>3, <2>1 DEF Walked
  <1>7. ASSUME NEW h \in Seq(Nat), Stands(header_, 0, h) PROVE ReadHeader(h) = d
    <2>1. PICK k \in 0 .. 9 : Walk(h, k, d)  BY ONLY <1>3, <1>4, <1>7 DEF Walked
    <2>2. k \in Nat /\ 9 - k \in Nat /\ k + (9 - k) = 9  OBVIOUS
    <2>3. Walk(h, k + (9 - k), d)  BY ONLY <1>5, <2>1, <2>2, WalkRests
    <2>4. Walk(h, 9, d)  BY ONLY <2>2, <2>3
    <2> QED  BY ONLY <2>4, ReadHeaderIs
  <1> QED  BY ONLY <1>6, <1>7 DEF ReadInFull, d

-----------------------------------------------------------------------------
(* From the constructor to the output file. *)

\* The header's fields are the image's and the command line's.
Sized == width \in Nat /\ height \in Nat
MainHeader(reset) == create_mainheader(width, height, opts.QF, YCCtype, reset)
ThisHeader == IF workers > 1 THEN MainHeader(Yes) ELSE MainHeader(No)
Marks == [s \in 1 .. CeilDiv(height, BUFLINES) |-> Strip(s)] \o EOI
WholeStream == ThisHeader \o Marks

\* From the constructor to the output file.
StreamInv ==
  /\ header \in Seq(Byte)
  /\ main_pc \in {"construct", "invoke", "output", "write"} => Sized
  /\ main_pc \in {"invoke", "output", "write"} => strips = CeilDiv(height, BUFLINES)
  /\ main_pc = "invoke" /\ workers > 1 => header = MainHeader(Yes)
  /\ main_pc \in {"output", "write"} => header = ThisHeader /\ codestream = WholeStream
  /\ main_pc = "write" => opts.outfile \in DOMAIN disk
  /\ FullDisk \subseteq {FALSE} /\ exit = "success" => Sized /\ disk[opts.outfile] = WholeStream

\* A header of these is bytes, and a decoder reads it whatever stands behind it.
LEMMA HeaderOfThese ==
  ASSUME Sized, ArgsInv, NEW reset \in {Yes, No}
  PROVE  ReadInFull(MainHeader(reset), width, height, opts.QF, YCCtype, reset)
  <1>1. width \in Nat /\ height \in Nat  BY DEF Sized
  <1>2. opts.QF \in 1 .. 100 /\ opts.YCCtype \in YCC  BY DEF ArgsInv, Settings
  <1>3. YCCtype \in YCC
    <2>1. "GRAY" \in YCC  BY DEF YCC
    <2> QED  BY ONLY <1>2, <2>1 DEF YCCtype, compute_ncomp_out
  <1>4. reset \in BOOLEAN  BY DEF Yes, No
  <1> DEFINE z == MainHeader(reset)
             X == width
             Y == height
             QF == opts.QF
             ycc == YCCtype
  <1>5. z = create_mainheader(X, Y, QF, ycc, reset)  BY DEF MainHeader
  <1>6. X \in Nat /\ Y \in Nat /\ QF \in 1 .. 100 /\ ycc \in YCC  BY ONLY <1>1, <1>2, <1>3
  <1> HIDE DEF z, X, Y, QF, ycc
  <1>7. ReadInFull(z, X, Y, QF, ycc, reset)  BY ONLY <1>4, <1>5, <1>6, HeaderIsRead
  <1> QED  BY ONLY <1>7 DEF z, X, Y, QF, ycc

\* The constructor rounds the height up to MCUs before it counts the strips; they are as
\* many as without.
LEMMA StripsCounted ==
  ASSUME NEW h \in Nat, NEW v \in {1, 2}
  PROVE  CeilDiv(round_up(h, DCTSIZE * v), BUFLINES) = CeilDiv(h, BUFLINES)
  <1>1. CASE v = 1
    <2>1. (8 * ((h + 8 - 1) \div 8) + 16 - 1) \div 16 = (h + 16 - 1) \div 16  OBVIOUS
    <2>2. DCTSIZE * v = 8  BY <1>1 DEF DCTSIZE
    <2> QED  BY ONLY <2>1, <2>2 DEF CeilDiv, round_up, BUFLINES
  <1>2. CASE v = 2
    <2>1. (16 * ((h + 16 - 1) \div 16) + 16 - 1) \div 16 = (h + 16 - 1) \div 16  OBVIOUS
    <2>2. DCTSIZE * v = 16  BY <1>2 DEF DCTSIZE
    <2> QED  BY ONLY <2>1, <2>2 DEF CeilDiv, round_up, BUFLINES
  <1> QED  BY <1>1, <1>2

LEMMA StreamKept ==
  ASSUME UNCHANGED <<size, ncomp, opts>>
  PROVE  /\ Sized' = Sized /\ height' = height /\ width' = width /\ YCCtype' = YCCtype /\ Marks' = Marks
         /\ MainHeader(Yes)' = MainHeader(Yes) /\ MainHeader(No)' = MainHeader(No)
         /\ workers' = workers => ThisHeader' = ThisHeader /\ WholeStream' = WholeStream
  <1>1. height' = height /\ width' = width /\ YCCtype' = YCCtype  BY DEF height, width, YCCtype
  <1>2. MainHeader(Yes)' = MainHeader(Yes) /\ MainHeader(No)' = MainHeader(No)  BY <1>1 DEF MainHeader
  <1>3. Marks' = Marks  BY <1>1 DEF Marks
  <1>4. Sized' = Sized  BY <1>1 DEF Sized
  <1>5. workers' = workers => ThisHeader' = ThisHeader  BY <1>2 DEF ThisHeader
  <1>6. workers' = workers => WholeStream' = WholeStream  BY <1>3, <1>5 DEF WholeStream
  <1> QED  BY <1>1, <1>2, <1>3, <1>4, <1>5, <1>6

\* The strips and the end of the image behind the header.
LEMMA MarksAre ==
  ASSUME Sized
  PROVE  /\ [s \in 1 .. CeilDiv(height, BUFLINES) |-> Strip(s)] \in Seq(Nat) /\ EOI \in Seq(Nat) /\ Marks \in Seq(Nat)
  <1> DEFINE n == CeilDiv(height, BUFLINES)
             m == [s \in 1 .. n |-> Strip(s)]
  <1>1. n \in Nat  BY DEF Sized, CeilDiv, BUFLINES
  <1> HIDE DEF n
  <1>2. m \in [1 .. n -> Nat]  BY ONLY <1>1 DEF Strip
  <1>3. Marks = m \o EOI  BY DEF Marks, n
  <1> HIDE DEF m
  <1>4. m \in Seq(Nat)  BY ONLY <1>1, <1>2, FunctionIsSeq
  <1>5. EOI \in Seq(Nat)  BY DEF EOI
  <1> HIDE DEF EOI
  <1>6. m \o EOI \in Seq(Nat)  BY ONLY <1>4, <1>5, ConcatProperties
  <1> QED  BY ONLY <1>3, <1>4, <1>5, <1>6 DEF m, n

\* What a call of invoke() leaves.
LEMMA EncodeStep ==
  ASSUME ArgsInv, StreamInv, main_pc = "invoke", Encode, UNCHANGED <<size, ncomp, opts, workers>>
  PROVE  header' \in Seq(Byte) /\ header' = ThisHeader' /\ codestream' = WholeStream' /\ Sized'
         /\ (workers > 1 => header' = MainHeader(Yes)')
  <1>1. Sized /\ strips = CeilDiv(height, BUFLINES) /\ (workers > 1 => header = MainHeader(Yes))  BY DEF StreamInv
  <1>2. /\ header' = IF workers > 1 THEN header ELSE create_mainheader(width, height, opts.QF, YCCtype, FALSE)
        /\ codestream' = header' \o [s \in 1 .. strips |-> Strip(s)] \o EOI
    BY DEF Encode
  <1>3. MainHeader(No) = create_mainheader(width, height, opts.QF, YCCtype, FALSE)  BY DEF MainHeader, No
  <1>4. header' = ThisHeader  BY ONLY <1>1, <1>2, <1>3 DEF ThisHeader
  <1>5. MainHeader(Yes) \in Seq(Byte) /\ MainHeader(No) \in Seq(Byte)  BY <1>1, HeaderOfThese DEF ReadInFull
  <1>6. header' \in Seq(Byte)  BY ONLY <1>4, <1>5 DEF ThisHeader
  <1>7. codestream' = WholeStream
    <2> DEFINE a == header'
               m == [s \in 1 .. CeilDiv(height, BUFLINES) |-> Strip(s)]
    <2>1. a \in Seq(Nat)  BY ONLY <1>6, BytesAreNumbers
    <2>2. m \in Seq(Nat) /\ EOI \in Seq(Nat)  BY <1>1, MarksAre
    <2>3. codestream' = (a \o m) \o EOI  BY ONLY <1>1, <1>2
    <2>4. WholeStream = a \o (m \o EOI)  BY ONLY <1>4 DEF WholeStream, Marks
    <2> HIDE DEF a, m
    <2>5. (a \o m) \o EOI = a \o (m \o EOI)  BY ONLY <2>1, <2>2, ConcatAssociative
    <2> QED  BY ONLY <2>3, <2>4, <2>5
  <1>8. ThisHeader' = ThisHeader /\ WholeStream' = WholeStream /\ Sized' = Sized /\ MainHeader(Yes)' = MainHeader(Yes)
    BY StreamKept
  <1>9. workers > 1 => ThisHeader = MainHeader(Yes)  BY DEF ThisHeader
  <1> QED  BY ONLY <1>1, <1>4, <1>6, <1>7, <1>8, <1>9

LEMMA StreamInit == Init => StreamInv
  <1> SUFFICES ASSUME Init PROVE StreamInv  OBVIOUS
  <1>1. header = <<>> /\ main_pc = "args" /\ exit = "none"  BY DEF Init
  <1>2. header \in Seq(Byte)  BY <1>1
  <1> QED  BY ONLY <1>1, <1>2 DEF StreamInv

LEMMA StreamStep == ArgsInv /\ MainInv /\ StreamInv /\ [Next]_vars => StreamInv'
  <1> SUFFICES ASSUME ArgsInv, MainInv, StreamInv, [Next]_vars PROVE StreamInv'  OBVIOUS
  <1>1. exit # "none" <=> main_pc = "exit"  BY DEF MainInv, MainTyped
  <1>2. header \in Seq(Byte)  BY DEF StreamInv
  <1>3. ASSUME header' = header, exit' # "success", main_pc' \in {"args", "pnm", "exit"} PROVE StreamInv'
    BY ONLY <1>2, <1>3 DEF StreamInv
  <1>4. CASE ReadArguments
    <2>1. main_pc = "args" /\ UNCHANGED main_vars  BY <1>4 DEF ReadArguments
    <2> QED  BY <1>1, <1>3, <2>1 DEF main_vars
  <1>5. CASE ArgumentsRead
    <2>1. header' = header  BY <1>5 DEF ArgumentsRead, Exit
    <2>2. (main_pc' = "pnm" /\ exit' = exit /\ main_pc = "args") \/ (main_pc' = "exit" /\ exit' # "success")
      BY <1>5 DEF ArgumentsRead, Exit
    <2> QED  BY <1>1, <1>3, <2>1, <2>2
  <1>6. CASE ReadImage
    <2>1. main_pc = "pnm" /\ UNCHANGED main_vars  BY <1>6 DEF ReadImage
    <2> QED  BY <1>1, <1>3, <2>1 DEF main_vars
  <1>7. CASE ImageRead
    <2>1. main_pc = "pnm" /\ header' = header /\ UNCHANGED <<opts, pnm_vars>>  BY <1>7 DEF ImageRead, Exit, arg_vars
    <2>2. CASE main_pc' = "exit" /\ exit' # "success"  BY <1>3, <2>1, <2>2
    <2>3. CASE main_pc' = "construct" /\ exit' = exit /\ pnm_pc = "done" /\ ~(width < 0 \/ height < 0)
      <3>1. status = 3 /\ size \in Seq(Int) /\ status = Len(size)  BY <2>3 DEF MainInv, PnmTyped
      <3>2. size[1] \in Int /\ size[2] \in Int
        <4>1. Len(size) = 3  BY ONLY <3>1
        <4>2. 1 \in 1 .. 3 /\ 2 \in 1 .. 3  OBVIOUS
        <4> QED  BY ONLY <3>1, <4>1, <4>2, ElementOfSeq
      <3>3. Sized  BY <2>3, <3>2 DEF Sized, width, height
      <3>4. Sized'  BY <2>1, <3>3, StreamKept DEF pnm_vars
      <3>5. exit' # "success"  BY <1>1, <2>1, <2>3
      <3> QED  BY ONLY <1>2, <2>1, <2>3, <3>4, <3>5 DEF StreamInv
    <2>4. (main_pc' = "exit" /\ exit' # "success")
          \/ (main_pc' = "construct" /\ exit' = exit /\ pnm_pc = "done" /\ ~(width < 0 \/ height < 0))
      BY <1>7 DEF ImageRead, Exit
    <2> QED  BY <2>2, <2>3, <2>4
  <1>8. CASE Construct
    <2>1. main_pc = "construct" /\ main_pc' = "invoke" /\ exit' = exit /\ UNCHANGED <<opts, size, ncomp>>
      BY <1>8 DEF Construct, arg_vars, pnm_vars
    <2>2. Sized /\ exit' # "success"  BY <1>1, <2>1 DEF StreamInv
    <2>3. strips' = CeilDiv(height, BUFLINES)
      <3>1. strips' = CeilDiv(round_up(height, DCTSIZE * V[opts.YCCtype]), BUFLINES)  BY <1>8 DEF Construct
      <3>2. opts.YCCtype \in YCC  BY DEF ArgsInv, Settings
      <3>3. V[opts.YCCtype] \in {1, 2}  BY <3>2 DEF V
      <3>4. height \in Nat  BY <2>2 DEF Sized
      <3> QED  BY ONLY <3>1, <3>3, <3>4, StripsCounted
    <2>4. header' = IF workers' > 1 THEN MainHeader(Yes) ELSE <<>>  BY <1>8 DEF Construct, MainHeader, Yes
    <2>5. header' \in Seq(Byte)
      <3>1. MainHeader(Yes) \in Seq(Byte)  BY <2>2, HeaderOfThese DEF ReadInFull
      <3>2. <<>> \in Seq(Byte)  OBVIOUS
      <3> QED  BY ONLY <2>4, <3>1, <3>2
    <2>6. Sized' /\ height' = height /\ MainHeader(Yes)' = MainHeader(Yes)  BY <2>1, <2>2, StreamKept
    <2> QED  BY ONLY <2>1, <2>2, <2>3, <2>4, <2>5, <2>6 DEF StreamInv
  \* A call of invoke(), and what comes after it.
  <1>9. ASSUME main_pc = "invoke", Encode, UNCHANGED <<opts, size, ncomp, exit, strips, workers>>, main_pc' \in {"invoke", "output"}
        PROVE  StreamInv'
    <2>1. header' \in Seq(Byte) /\ header' = ThisHeader' /\ codestream' = WholeStream' /\ Sized'
          /\ (workers > 1 => header' = MainHeader(Yes)')
      BY <1>9, EncodeStep
    <2>2. strips' = CeilDiv(height', BUFLINES)  BY <1>9, StreamKept DEF StreamInv
    <2>3. exit' # "success"  BY <1>1, <1>9
    <2> QED  BY ONLY <1>9, <2>1, <2>2, <2>3 DEF StreamInv
  <1>10. CASE InvokeOnce  BY <1>9, <1>10 DEF InvokeOnce, arg_vars, pnm_vars
  <1>11. CASE InvokeWarmup  BY <1>9, <1>11 DEF InvokeWarmup, arg_vars, pnm_vars
  <1>12. CASE InvokeMeasured
    <2>1. main_pc' \in {"invoke", "output"}  BY <1>12 DEF InvokeMeasured
    <2> QED  BY <1>9, <1>12, <2>1 DEF InvokeMeasured, arg_vars, pnm_vars
  <1>13. CASE OpenOutput
    <2>1. main_pc = "output" /\ UNCHANGED <<opts, size, ncomp>>  BY <1>13 DEF OpenOutput, pnm_vars
    <2>2. CASE opts.outfile \notin Writable  BY <1>3, <1>13, <2>2 DEF OpenOutput, Exit
    <2>3. CASE opts.outfile \in Writable
      <3>1. /\ disk' = [n \in DOMAIN disk \cup {opts.outfile} |-> IF n = opts.outfile THEN <<>> ELSE disk[n]]
            /\ main_pc' = "write" /\ UNCHANGED <<exit, strips, workers, header, codestream>>
        BY <1>13, <2>3 DEF OpenOutput
      <3>2. opts'.outfile \in DOMAIN disk'  BY <2>1, <3>1
      <3>3. Sized /\ strips = CeilDiv(height, BUFLINES) /\ header = ThisHeader /\ codestream = WholeStream
        BY <2>1 DEF StreamInv
      <3>4. Sized' /\ height' = height /\ ThisHeader' = ThisHeader /\ WholeStream' = WholeStream  BY <2>1, <3>1, <3>3, StreamKept
      <3>5. exit' # "success"  BY <1>1, <2>1, <3>1
      <3> QED  BY ONLY <1>2, <3>1, <3>2, <3>3, <3>4, <3>5 DEF StreamInv
    <2> QED  BY <2>2, <2>3
  <1>14. CASE WriteOutput
    <2>1. /\ main_pc = "write" /\ main_pc' = "exit" /\ header' = header /\ workers' = workers
          /\ UNCHANGED <<opts, size, ncomp>>
      BY <1>14 DEF WriteOutput, Exit, pnm_vars
    <2>2. ASSUME FullDisk \subseteq {FALSE} PROVE Sized' /\ disk'[opts'.outfile] = WholeStream'
      <3>1. Sized /\ codestream = WholeStream /\ opts.outfile \in DOMAIN disk  BY <2>1 DEF StreamInv
      <3>2. PICK full \in FullDisk : \E n \in IF full THEN 0 .. Len(codestream) - 1 ELSE {Len(codestream)} :
                disk' = [disk EXCEPT ![opts.outfile] = SubSeq(codestream, 1, n)]
        BY <1>14 DEF WriteOutput
      <3>3. full = FALSE  BY <2>2
      <3>4. disk' = [disk EXCEPT ![opts.outfile] = SubSeq(codestream, 1, Len(codestream))]  BY ONLY <3>2, <3>3
      <3>5. disk'[opts.outfile] = SubSeq(codestream, 1, Len(codestream))  BY ONLY <3>1, <3>4
      <3>6. codestream \in Seq(Nat)
        <4>1. ThisHeader \in Seq(Nat)
          <5>1. MainHeader(Yes) \in Seq(Byte) /\ MainHeader(No) \in Seq(Byte)  BY <3>1, HeaderOfThese DEF ReadInFull
          <5>2. ThisHeader \in Seq(Byte)  BY ONLY <5>1 DEF ThisHeader
          <5> QED  BY ONLY <5>2, BytesAreNumbers
        <4>2. Marks \in Seq(Nat)  BY <3>1, MarksAre
        <4>3. WholeStream \in Seq(Nat)  BY ONLY <4>1, <4>2, ConcatProperties DEF WholeStream
        <4> QED  BY ONLY <3>1, <4>3
      <3>7. SubSeq(codestream, 1, Len(codestream)) = codestream
        <4> DEFINE c == codestream
                   part == SubSeq(c, 0 + 1, 0 + Len(c))
        <4>1. Len(c) \in Nat /\ 0 \in Nat /\ 0 + Len(c) <= Len(c) /\ 0 + 1 = 1 /\ 0 + Len(c) = Len(c)
          BY ONLY <3>6, LenProperties
        <4>2. part \in Seq(Nat) /\ Len(part) = Len(c) /\ \A i \in 1 .. Len(c) : part[i] = c[0 + i]
          BY ONLY <3>6, <4>1, PartOfSeq
        <4>3. part = SubSeq(c, 1, Len(c))  BY ONLY <4>1
        <4> HIDE DEF part, c
        <4>4. \A i \in 1 .. Len(c) : 0 + i = i  BY ONLY <4>1
        <4>5. \A i \in 1 .. Len(c) : part[i] = c[i]  BY ONLY <4>2, <4>4
        <4>6. part = c  BY ONLY <3>6, <4>2, <4>5, SeqEqual DEF c
        <4> QED  BY ONLY <4>3, <4>6 DEF c
      <3>8. WholeStream' = WholeStream /\ Sized'  BY <2>1, <3>1, StreamKept
      <3> QED  BY ONLY <2>1, <3>1, <3>5, <3>7, <3>8
    <2> QED  BY ONLY <1>2, <2>1, <2>2 DEF StreamInv
  <1>15. CASE UNCHANGED vars
    <2>1. UNCHANGED <<size, ncomp, opts, workers, header, codestream, main_pc, exit, strips, disk>>
      BY <1>15 DEF vars, arg_vars, pnm_vars, main_vars
    <2>2. /\ Sized' = Sized /\ height' = height /\ MainHeader(Yes)' = MainHeader(Yes)
          /\ ThisHeader' = ThisHeader /\ WholeStream' = WholeStream
      BY <2>1, StreamKept
    <2> QED  BY ONLY StreamInv, <2>1, <2>2 DEF StreamInv
  <1> QED  BY <1>4, <1>5, <1>6, <1>7, <1>8, <1>10, <1>11, <1>12, <1>13, <1>14, <1>15 DEF Next, Exited

\* Behind a header, the rest of a stream.
Followed(a, t, o) == o \in Seq(Nat) /\ Stands(a, 0, o) /\ SubSeq(o, Len(a) + 1, Len(o)) = t
LEMMA RestIsThere ==
  ASSUME NEW a \in Seq(Byte), NEW t \in Seq(Nat)
  PROVE  Followed(a, t, a \o t)
  <1> DEFINE o == a \o t
             m == Len(a)
             n == Len(t)
  <1>1. m \in Nat /\ n \in Nat /\ a \in Seq(Nat)  BY BytesAreNumbers, LenProperties
  <1>2. o \in Seq(Nat) /\ Len(o) = m + n /\ \A i \in 1 .. m + n : o[i] = IF i <= m THEN a[i] ELSE t[i - m]
    BY <1>1, ConcatProperties
  <1> HIDE DEF o
  <1>3. ASSUME NEW i \in 1 .. m PROVE o[0 + i] = a[i]
    <2>1. i \in 1 .. m + n /\ i <= m /\ 0 + i = i  BY ONLY <1>1, i \in 1 .. m
    <2> QED  BY ONLY <1>2, <2>1
  <1>4. Stands(a, 0, o)
    <2>1. 0 + m <= Len(o)  BY ONLY <1>1, <1>2
    <2> QED  BY ONLY <1>3, <2>1 DEF Stands, m
  <1>5. SubSeq(o, m + 1, Len(o)) = t
    <2> DEFINE part == SubSeq(o, m + 1, m + n)
    <2>1. m + n <= Len(o)  BY ONLY <1>1, <1>2
    <2> HIDE DEF m, n
    <2>8. \A s \in Seq(Nat) : \A p, q \in Nat :
            p + q <= Len(s) => /\ SubSeq(s, p + 1, p + q) \in Seq(Nat)
                               /\ Len(SubSeq(s, p + 1, p + q)) = q
                               /\ \A i \in 1 .. q : SubSeq(s, p + 1, p + q)[i] = s[p + i]
      BY ONLY PartOfSeq
    <2>2. part \in Seq(Nat) /\ Len(part) = n /\ \A i \in 1 .. n : part[i] = o[m + i]  BY ONLY <1>1, <1>2, <2>1, <2>8
    <2>3. ASSUME NEW i \in 1 .. n PROVE o[m + i] = t[i]
      <3>1. m + i \in 1 .. m + n /\ ~(m + i <= m) /\ (m + i) - m = i  BY ONLY <1>1, i \in 1 .. n
      <3> QED  BY ONLY <1>2, <3>1
    <2> HIDE DEF part
    <2>4. \A i \in 1 .. n : part[i] = t[i]  BY ONLY <2>2, <2>3
    <2>5. part \in Seq(Nat) /\ t \in Seq(Nat) /\ Len(part) = Len(t)  BY <2>2 DEF n
    <2>6. \A i \in 1 .. Len(part) : part[i] = t[i]  BY ONLY <2>2, <2>4
    <2>7. part = t  BY ONLY <2>5, <2>6, SeqEqual
    <2> QED  BY ONLY <1>2, <2>7 DEF part
  <1>6. Followed(a, t, o)  BY ONLY <1>2, <1>4, <1>5 DEF Followed, m
  <1> QED  BY ONLY <1>6 DEF o

LEMMA StreamIsWhole == ArgsInv /\ FilesInv /\ StreamInv /\ FullDisk \subseteq {FALSE} => OutputWhole
  <1> SUFFICES ASSUME ArgsInv, FilesInv, StreamInv, FullDisk \subseteq {FALSE}, exit = "success"
               PROVE  LET out == disk[opts.outfile]
                          d == ReadHeader(out)
                      IN d.ok /\ d.done /\ SubSeq(out, d.at, Len(out)) = [s \in 1 .. CeilDiv(height, BUFLINES) |-> Strip(s)] \o EOI
    BY DEF OutputWhole, FilesInv
  <1> DEFINE out == disk[opts.outfile]
             d == ReadHeader(out)
             z == ThisHeader
             t == Marks
  <1>1. Sized /\ out = z \o t  BY DEF StreamInv, WholeStream
  <1>2. PICK reset \in {Yes, No} : z = MainHeader(reset)  BY DEF ThisHeader
  <1>3. ReadInFull(z, width, height, opts.QF, YCCtype, reset)  BY <1>1, <1>2, HeaderOfThese
  <1>4. t \in Seq(Nat)  BY <1>1, MarksAre
  <1>5. t = [s \in 1 .. CeilDiv(height, BUFLINES) |-> Strip(s)] \o EOI  BY DEF Marks
  <1> HIDE DEF out, z, t
  <1>6. z \in Seq(Byte)  BY ONLY <1>3 DEF ReadInFull
  <1>7. Followed(z, t, out)  BY ONLY <1>1, <1>4, <1>6, RestIsThere
  <1>8. out \in Seq(Nat) /\ Stands(z, 0, out) /\ SubSeq(out, Len(z) + 1, Len(out)) = t  BY ONLY <1>7 DEF Followed
  <1>9. d = Announcement(Len(z) + 1, width, height, opts.QF, YCCtype, reset)  BY ONLY <1>3, <1>8 DEF ReadInFull, d
  <1> HIDE DEF d
  <1>10. d.at = Len(z) + 1 /\ d.ok = Yes /\ d.done = Yes
    BY ONLY <1>9, DecoderHas DEF Announcement
  <1>11. d.ok /\ d.done /\ SubSeq(out, d.at, Len(out)) = t  BY ONLY <1>8, <1>10 DEF Yes
  <1> QED  BY ONLY <1>5, <1>11 DEF out, d

-----------------------------------------------------------------------------
(* The chains of a Huffman table: symbols from one to the next, each with its code. *)

\* Small powers of two.
LEMMA Powers == 2^0 = 1 /\ 2^1 = 2 /\ 2^2 = 4 /\ 2^3 = 8  OBVIOUS

\* Symbol w comes next after v, and so does its code.
Next_(len, code, v, w) ==
  /\ len[v] \in 1 .. 16 /\ len[w] \in 1 .. 16 /\ len[v] <= len[w] /\ (len[v] = len[w] => v < w)
  /\ code[w] = (code[v] + 1) * 2^(len[w] - len[v])

Run(a, b) == a .. b

\* A list of symbols: those from the a-th to the b-th have l bits, and consecutive codes.
Group(len, code, K, a, b, l, o) ==
  /\ \A n \in Run(a, b) : K[n] \in Byte /\ len[K[n]] = l /\ code[K[n]] = n + o
  /\ \A n \in Run(a + 1, b) : K[n-1] < K[n]

\* The first a symbols have their codes in order, and the last of them one of l bits.
Chain(len, code, K, a, l, o) ==
  /\ \A n \in 1 .. a : K[n] \in Byte
  /\ code[K[1]] = 0 /\ \A n \in 2 .. a : Next_(len, code, K[n-1], K[n])
  /\ len[K[a]] = l /\ code[K[a]] = a + o

LEMMA InGroup ==
  ASSUME NEW len, NEW code, NEW K, NEW a \in Nat, NEW b \in Nat, NEW l \in 1 .. 16, NEW o \in Int,
         Group(len, code, K, a, b, l, o), NEW n \in a + 1 .. b
  PROVE  Next_(len, code, K[n-1], K[n])
  <1> DEFINE v == K[n-1]
             w == K[n]
  <1>1. n \in a .. b /\ n - 1 \in a .. b /\ n \in Int  OBVIOUS
  <1>2. len[v] = l /\ code[v] = (n - 1) + o /\ len[w] = l /\ code[w] = n + o /\ v < w  BY ONLY <1>1, Group(len, code, K, a, b, l, o), n \in a + 1 .. b DEF Group, Run
  <1> HIDE DEF v, w
  <1>3. len[w] - len[v] = 0  BY ONLY <1>2, l \in 1 .. 16
  <1>4. code[w] = (code[v] + 1) * 2^(len[w] - len[v])
    <2>1. code[w] = (code[v] + 1) * 1  BY ONLY <1>1, <1>2, o \in Int
    <2> QED  BY ONLY <1>3, <2>1, Powers
  <1>5. Next_(len, code, v, w)  BY ONLY <1>2, <1>4, l \in 1 .. 16 DEF Next_
  <1> QED  BY ONLY <1>5 DEF v, w

LEMMA FirstGroup ==
  ASSUME NEW len, NEW code, NEW K, NEW b \in Nat, b >= 1, NEW l \in 1 .. 16, Group(len, code, K, 1, b, l, -1)
  PROVE  Chain(len, code, K, b, l, -1)
  <1>1. \A n \in 1 .. b : K[n] \in Byte /\ len[K[n]] = l /\ code[K[n]] = n + (-1)  BY DEF Group, Run
  <1>2. ASSUME NEW n \in 2 .. b PROVE Next_(len, code, K[n-1], K[n])
    <2>1. n \in 1 + 1 .. b /\ 1 \in Nat /\ -1 \in Int  OBVIOUS
    <2> QED  BY <2>1, InGroup
  <1>3. 1 \in 1 .. b /\ b \in 1 .. b  OBVIOUS
  <1>4. code[K[1]] = 0
    <2>1. code[K[1]] = 1 + (-1)  BY ONLY <1>1, <1>3
    <2> QED  BY ONLY <2>1
  <1> QED  BY ONLY <1>1, <1>2, <1>3, <1>4 DEF Chain

\* A group continues the chain if its first code is the one after the last, with zeros
\* behind it.
Continues(a, l, o, first, b, m, p, d) ==
  /\ a \in Nat /\ a >= 1 /\ l \in 1 .. 16 /\ o \in Int /\ first = a + 1 /\ b \in Nat /\ b >= first
  /\ m \in 1 .. 16 /\ p \in Int /\ d \in 1 .. 3 /\ m - l = d /\ first + p = (a + o + 1) * 2^d

LEMMA NextGroup ==
  ASSUME NEW a, NEW l, NEW o, NEW first, NEW b, NEW m, NEW p, NEW d, Continues(a, l, o, first, b, m, p, d),
         NEW len, NEW code, NEW K, Chain(len, code, K, a, l, o), Group(len, code, K, first, b, m, p)
  PROVE  Chain(len, code, K, b, m, p)
  <1>0. /\ a \in Nat /\ a >= 1 /\ l \in 1 .. 16 /\ o \in Int /\ first = a + 1 /\ b \in Nat /\ b >= a + 1
        /\ m \in 1 .. 16 /\ p \in Int /\ d \in 1 .. 3 /\ m - l = d /\ (a + 1) + p = (a + o + 1) * 2^d
        /\ Group(len, code, K, a + 1, b, m, p)
    BY DEF Continues
  <1> DEFINE v == K[a]
             w == K[a + 1]
  <1>1. \A n \in a + 1 .. b : K[n] \in Byte /\ len[K[n]] = m /\ code[K[n]] = n + p  BY ONLY <1>0 DEF Group, Run
  <1>2. a + 1 \in a + 1 .. b /\ b \in a + 1 .. b /\ (a + 1) - 1 = a  BY ONLY <1>0
  <1>3. len[w] = m /\ code[w] = (a + 1) + p  BY ONLY <1>1, <1>2
  <1>4. len[v] = l /\ code[v] = a + o  BY DEF Chain
  <1> HIDE DEF v, w
  <1>5. Next_(len, code, v, w)
    <2>1. len[w] - len[v] = d  BY ONLY <1>0, <1>3, <1>4
    <2>2. code[w] = (code[v] + 1) * 2^(len[w] - len[v])
      <3>1. code[w] = (code[v] + 1) * 2^d  BY ONLY <1>0, <1>3, <1>4
      <3> QED  BY ONLY <2>1, <3>1
    <2>3. len[v] \in 1 .. 16 /\ len[w] \in 1 .. 16 /\ len[v] <= len[w] /\ len[v] # len[w]  BY ONLY <1>0, <1>3, <1>4
    <2> QED  BY ONLY <2>2, <2>3 DEF Next_
  <1>6. ASSUME NEW n \in 2 .. b PROVE Next_(len, code, K[n-1], K[n])
    <2>1. CASE n <= a
      <3>1. n \in 2 .. a  BY <1>0, <2>1
      <3> QED  BY ONLY <3>1, Chain(len, code, K, a, l, o) DEF Chain
    <2>2. CASE n = a + 1  BY ONLY <1>2, <1>5, <2>2 DEF v, w
    <2>3. CASE n > a + 1
      <3>1. n \in (a + 1) + 1 .. b /\ a + 1 \in Nat  BY <1>0, <2>3
      <3> QED  BY <1>0, <3>1, InGroup
    <2> QED  BY <1>0, <2>1, <2>2, <2>3
  <1>7. ASSUME NEW n \in 1 .. b PROVE K[n] \in Byte
    <2>1. CASE n <= a
      <3>1. n \in 1 .. a  BY <1>0, <2>1
      <3> QED  BY ONLY <3>1, Chain(len, code, K, a, l, o) DEF Chain
    <2>2. CASE n > a
      <3>1. n \in a + 1 .. b  BY <1>0, <2>2
      <3> QED  BY ONLY <1>1, <3>1
    <2> QED  BY <1>0, <2>1, <2>2
  <1>8. code[K[1]] = 0  BY DEF Chain
  <1>9. len[K[b]] = m /\ code[K[b]] = b + p  BY ONLY <1>1, <1>2
  <1> QED  BY ONLY <1>6, <1>7, <1>8, <1>9 DEF Chain

DCCode(c) == [i \in 0 .. 15 |-> DC_cwd(c, i)]
ACCode(c) == [v \in 0 .. 255 |-> AC_cwd(c, v)]

\* The symbols in the order of their codes' lengths.
DCOrder == [n \in 1 .. 12 |-> n - 1]
LumaOrder ==
  <<  1,   2,   3,   0,   4,  17,   5,  18,  33,  49,  65,   6,  19,  81,  97,   7,  34, 113,
     20,  50, 129, 145, 161,   8,  35,  66, 177, 193,  21,  82, 209, 240,  36,  51,  98, 114,
    130,   9,  10,  22,  23,  24,  25,  26,  37,  38,  39,  40,  41,  42,  52,  53,  54,  55,
     56,  57,  58,  67,  68,  69,  70,  71,  72,  73,  74,  83,  84,  85,  86,  87,  88,  89,
     90,  99, 100, 101, 102, 103, 104, 105, 106, 115, 116, 117, 118, 119, 120, 121, 122, 131,
    132, 133, 134, 135, 136, 137, 138, 146, 147, 148, 149, 150, 151, 152, 153, 154, 162, 163,
    164, 165, 166, 167, 168, 169, 170, 178, 179, 180, 181, 182, 183, 184, 185, 186, 194, 195,
    196, 197, 198, 199, 200, 201, 202, 210, 211, 212, 213, 214, 215, 216, 217, 218, 225, 226,
    227, 228, 229, 230, 231, 232, 233, 234, 241, 242, 243, 244, 245, 246, 247, 248, 249, 250>>
ChromaOrder ==
  <<  0,   1,   2,   3,  17,   4,   5,  33,  49,   6,  18,  65,  81,   7,  97, 113,  19,  34,
     50, 129,   8,  20,  66, 145, 161, 177, 193,   9,  35,  51,  82, 240,  21,  98, 114, 209,
     10,  22,  36,  52, 225,  37, 241,  23,  24,  25,  26,  38,  39,  40,  41,  42,  53,  54,
     55,  56,  57,  58,  67,  68,  69,  70,  71,  72,  73,  74,  83,  84,  85,  86,  87,  88,
     89,  90,  99, 100, 101, 102, 103, 104, 105, 106, 115, 116, 117, 118, 119, 120, 121, 122,
    130, 131, 132, 133, 134, 135, 136, 137, 138, 146, 147, 148, 149, 150, 151, 152, 153, 154,
    162, 163, 164, 165, 166, 167, 168, 169, 170, 178, 179, 180, 181, 182, 183, 184, 185, 186,
    194, 195, 196, 197, 198, 199, 200, 201, 202, 210, 211, 212, 213, 214, 215, 216, 217, 218,
    226, 227, 228, 229, 230, 231, 232, 233, 234, 242, 243, 244, 245, 246, 247, 248, 249, 250>>

\* The luma DC table is a chain.
LEMMA DCLumaChain == Chain(DCLen(0), DCCode(0), DCOrder, 12, 9, 498)
  <1> DEFINE len == DCLen(0)
             code == DCCode(0)
             K == DCOrder
  <1>1. \A v \in Run(0, 15) : v \in Byte /\ len[v] = DC_len(0, v) /\ code[v] = DC_cwd(0, v)  BY ByteIs DEF Run, DCLen, DCCode
  <1>2. \A n \in Run(1, 12) : K[n] \in Run(0, 15)  BY DEF Run, DCOrder
  <1>3. \A n \in Run(1, 12) : K[n] \in Byte /\ len[K[n]] = DC_len(0, K[n]) /\ code[K[n]] = DC_cwd(0, K[n])
    <2> HIDE DEF len, code, K
    <2> QED  BY ONLY <1>1, <1>2
  <1>4. Group(len, code, K, 1, 1, 2, -1)
    <2>1. \A n \in Run(1, 1) : DC_len(0, K[n]) = 2  BY DEF Run, DCOrder, DC_len, DC_len_
    <2>2. \A n \in Run(1, 1) : DC_cwd(0, K[n]) = n + (-1)  BY DEF Run, DCOrder, DC_cwd, DC_cwd_
    <2>3. \A n \in Run(1 + 1, 1) : K[n-1] < K[n]  BY DEF Run, DCOrder
    <2>4. \A n \in Run(1, 1) : n \in Run(1, 12)  BY DEF Run
    <2> HIDE DEF len, code, K
    <2>5. ASSUME NEW n \in Run(1, 1) PROVE K[n] \in Byte /\ len[K[n]] = 2 /\ code[K[n]] = n + (-1)
      BY ONLY <1>3, <2>1, <2>2, <2>4, n \in Run(1, 1)
    <2> QED  BY ONLY <2>3, <2>5 DEF Group
  <1>5. Group(len, code, K, 2, 6, 3, 0)
    <2>1. \A n \in Run(2, 6) : DC_len(0, K[n]) = 3  BY DEF Run, DCOrder, DC_len, DC_len_
    <2>2. \A n \in Run(2, 6) : DC_cwd(0, K[n]) = n + (0)  BY DEF Run, DCOrder, DC_cwd, DC_cwd_
    <2>3. \A n \in Run(2 + 1, 6) : K[n-1] < K[n]  BY DEF Run, DCOrder
    <2>4. \A n \in Run(2, 6) : n \in Run(1, 12)  BY DEF Run
    <2> HIDE DEF len, code, K
    <2>5. ASSUME NEW n \in Run(2, 6) PROVE K[n] \in Byte /\ len[K[n]] = 3 /\ code[K[n]] = n + (0)
      BY ONLY <1>3, <2>1, <2>2, <2>4, n \in Run(2, 6)
    <2> QED  BY ONLY <2>3, <2>5 DEF Group
  <1>6. Group(len, code, K, 7, 7, 4, 7)
    <2>1. \A n \in Run(7, 7) : DC_len(0, K[n]) = 4  BY DEF Run, DCOrder, DC_len, DC_len_
    <2>2. \A n \in Run(7, 7) : DC_cwd(0, K[n]) = n + (7)  BY DEF Run, DCOrder, DC_cwd, DC_cwd_
    <2>3. \A n \in Run(7 + 1, 7) : K[n-1] < K[n]  BY DEF Run, DCOrder
    <2>4. \A n \in Run(7, 7) : n \in Run(1, 12)  BY DEF Run
    <2> HIDE DEF len, code, K
    <2>5. ASSUME NEW n \in Run(7, 7) PROVE K[n] \in Byte /\ len[K[n]] = 4 /\ code[K[n]] = n + (7)
      BY ONLY <1>3, <2>1, <2>2, <2>4, n \in Run(7, 7)
    <2> QED  BY ONLY <2>3, <2>5 DEF Group
  <1>7. Group(len, code, K, 8, 8, 5, 22)
    <2>1. \A n \in Run(8, 8) : DC_len(0, K[n]) = 5  BY DEF Run, DCOrder, DC_len, DC_len_
    <2>2. \A n \in Run(8, 8) : DC_cwd(0, K[n]) = n + (22)  BY DEF Run, DCOrder, DC_cwd, DC_cwd_
    <2>3. \A n \in Run(8 + 1, 8) : K[n-1] < K[n]  BY DEF Run, DCOrder
    <2>4. \A n \in Run(8, 8) : n \in Run(1, 12)  BY DEF Run
    <2> HIDE DEF len, code, K
    <2>5. ASSUME NEW n \in Run(8, 8) PROVE K[n] \in Byte /\ len[K[n]] = 5 /\ code[K[n]] = n + (22)
      BY ONLY <1>3, <2>1, <2>2, <2>4, n \in Run(8, 8)
    <2> QED  BY ONLY <2>3, <2>5 DEF Group
  <1>8. Group(len, code, K, 9, 9, 6, 53)
    <2>1. \A n \in Run(9, 9) : DC_len(0, K[n]) = 6  BY DEF Run, DCOrder, DC_len, DC_len_
    <2>2. \A n \in Run(9, 9) : DC_cwd(0, K[n]) = n + (53)  BY DEF Run, DCOrder, DC_cwd, DC_cwd_
    <2>3. \A n \in Run(9 + 1, 9) : K[n-1] < K[n]  BY DEF Run, DCOrder
    <2>4. \A n \in Run(9, 9) : n \in Run(1, 12)  BY DEF Run
    <2> HIDE DEF len, code, K
    <2>5. ASSUME NEW n \in Run(9, 9) PROVE K[n] \in Byte /\ len[K[n]] = 6 /\ code[K[n]] = n + (53)
      BY ONLY <1>3, <2>1, <2>2, <2>4, n \in Run(9, 9)
    <2> QED  BY ONLY <2>3, <2>5 DEF Group
  <1>9. Group(len, code, K, 10, 10, 7, 116)
    <2>1. \A n \in Run(10, 10) : DC_len(0, K[n]) = 7  BY DEF Run, DCOrder, DC_len, DC_len_
    <2>2. \A n \in Run(10, 10) : DC_cwd(0, K[n]) = n + (116)  BY DEF Run, DCOrder, DC_cwd, DC_cwd_
    <2>3. \A n \in Run(10 + 1, 10) : K[n-1] < K[n]  BY DEF Run, DCOrder
    <2>4. \A n \in Run(10, 10) : n \in Run(1, 12)  BY DEF Run
    <2> HIDE DEF len, code, K
    <2>5. ASSUME NEW n \in Run(10, 10) PROVE K[n] \in Byte /\ len[K[n]] = 7 /\ code[K[n]] = n + (116)
      BY ONLY <1>3, <2>1, <2>2, <2>4, n \in Run(10, 10)
    <2> QED  BY ONLY <2>3, <2>5 DEF Group
  <1>10. Group(len, code, K, 11, 11, 8, 243)
    <2>1. \A n \in Run(11, 11) : DC_len(0, K[n]) = 8  BY DEF Run, DCOrder, DC_len, DC_len_
    <2>2. \A n \in Run(11, 11) : DC_cwd(0, K[n]) = n + (243)  BY DEF Run, DCOrder, DC_cwd, DC_cwd_
    <2>3. \A n \in Run(11 + 1, 11) : K[n-1] < K[n]  BY DEF Run, DCOrder
    <2>4. \A n \in Run(11, 11) : n \in Run(1, 12)  BY DEF Run
    <2> HIDE DEF len, code, K
    <2>5. ASSUME NEW n \in Run(11, 11) PROVE K[n] \in Byte /\ len[K[n]] = 8 /\ code[K[n]] = n + (243)
      BY ONLY <1>3, <2>1, <2>2, <2>4, n \in Run(11, 11)
    <2> QED  BY ONLY <2>3, <2>5 DEF Group
  <1>11. Group(len, code, K, 12, 12, 9, 498)
    <2>1. \A n \in Run(12, 12) : DC_len(0, K[n]) = 9  BY DEF Run, DCOrder, DC_len, DC_len_
    <2>2. \A n \in Run(12, 12) : DC_cwd(0, K[n]) = n + (498)  BY DEF Run, DCOrder, DC_cwd, DC_cwd_
    <2>3. \A n \in Run(12 + 1, 12) : K[n-1] < K[n]  BY DEF Run, DCOrder
    <2>4. \A n \in Run(12, 12) : n \in Run(1, 12)  BY DEF Run
    <2> HIDE DEF len, code, K
    <2>5. ASSUME NEW n \in Run(12, 12) PROVE K[n] \in Byte /\ len[K[n]] = 9 /\ code[K[n]] = n + (498)
      BY ONLY <1>3, <2>1, <2>2, <2>4, n \in Run(12, 12)
    <2> QED  BY ONLY <2>3, <2>5 DEF Group
  <1> HIDE DEF len, code, K
  <1>12. Chain(len, code, K, 1, 2, -1)  BY <1>4, FirstGroup
  <1>13. Chain(len, code, K, 6, 3, 0)
    <2>1. Continues(1, 2, -1, 2, 6, 3, 0, 1)  BY Powers DEF Continues
    <2> QED  BY ONLY <1>12, <1>5, <2>1, NextGroup
  <1>14. Chain(len, code, K, 7, 4, 7)
    <2>1. Continues(6, 3, 0, 7, 7, 4, 7, 1)  BY Powers DEF Continues
    <2> QED  BY ONLY <1>13, <1>6, <2>1, NextGroup
  <1>15. Chain(len, code, K, 8, 5, 22)
    <2>1. Continues(7, 4, 7, 8, 8, 5, 22, 1)  BY Powers DEF Continues
    <2> QED  BY ONLY <1>14, <1>7, <2>1, NextGroup
  <1>16. Chain(len, code, K, 9, 6, 53)
    <2>1. Continues(8, 5, 22, 9, 9, 6, 53, 1)  BY Powers DEF Continues
    <2> QED  BY ONLY <1>15, <1>8, <2>1, NextGroup
  <1>17. Chain(len, code, K, 10, 7, 116)
    <2>1. Continues(9, 6, 53, 10, 10, 7, 116, 1)  BY Powers DEF Continues
    <2> QED  BY ONLY <1>16, <1>9, <2>1, NextGroup
  <1>18. Chain(len, code, K, 11, 8, 243)
    <2>1. Continues(10, 7, 116, 11, 11, 8, 243, 1)  BY Powers DEF Continues
    <2> QED  BY ONLY <1>17, <1>10, <2>1, NextGroup
  <1>19. Chain(len, code, K, 12, 9, 498)
    <2>1. Continues(11, 8, 243, 12, 12, 9, 498, 1)  BY Powers DEF Continues
    <2> QED  BY ONLY <1>18, <1>11, <2>1, NextGroup
  <1> QED  BY ONLY <1>19 DEF len, code, K

\* The chroma DC table, too.
LEMMA DCChromaChain == Chain(DCLen(1), DCCode(1), DCOrder, 12, 11, 2034)
  <1> DEFINE len == DCLen(1)
             code == DCCode(1)
             K == DCOrder
  <1>1. \A v \in Run(0, 15) : v \in Byte /\ len[v] = DC_len(1, v) /\ code[v] = DC_cwd(1, v)  BY ByteIs DEF Run, DCLen, DCCode
  <1>2. \A n \in Run(1, 12) : K[n] \in Run(0, 15)  BY DEF Run, DCOrder
  <1>3. \A n \in Run(1, 12) : K[n] \in Byte /\ len[K[n]] = DC_len(1, K[n]) /\ code[K[n]] = DC_cwd(1, K[n])
    <2> HIDE DEF len, code, K
    <2> QED  BY ONLY <1>1, <1>2
  <1>4. Group(len, code, K, 1, 3, 2, -1)
    <2>1. \A n \in Run(1, 3) : DC_len(1, K[n]) = 2  BY DEF Run, DCOrder, DC_len, DC_len_
    <2>2. \A n \in Run(1, 3) : DC_cwd(1, K[n]) = n + (-1)  BY DEF Run, DCOrder, DC_cwd, DC_cwd_
    <2>3. \A n \in Run(1 + 1, 3) : K[n-1] < K[n]  BY DEF Run, DCOrder
    <2>4. \A n \in Run(1, 3) : n \in Run(1, 12)  BY DEF Run
    <2> HIDE DEF len, code, K
    <2>5. ASSUME NEW n \in Run(1, 3) PROVE K[n] \in Byte /\ len[K[n]] = 2 /\ code[K[n]] = n + (-1)
      BY ONLY <1>3, <2>1, <2>2, <2>4, n \in Run(1, 3)
    <2> QED  BY ONLY <2>3, <2>5 DEF Group
  <1>5. Group(len, code, K, 4, 4, 3, 2)
    <2>1. \A n \in Run(4, 4) : DC_len(1, K[n]) = 3  BY DEF Run, DCOrder, DC_len, DC_len_
    <2>2. \A n \in Run(4, 4) : DC_cwd(1, K[n]) = n + (2)  BY DEF Run, DCOrder, DC_cwd, DC_cwd_
    <2>3. \A n \in Run(4 + 1, 4) : K[n-1] < K[n]  BY DEF Run, DCOrder
    <2>4. \A n \in Run(4, 4) : n \in Run(1, 12)  BY DEF Run
    <2> HIDE DEF len, code, K
    <2>5. ASSUME NEW n \in Run(4, 4) PROVE K[n] \in Byte /\ len[K[n]] = 3 /\ code[K[n]] = n + (2)
      BY ONLY <1>3, <2>1, <2>2, <2>4, n \in Run(4, 4)
    <2> QED  BY ONLY <2>3, <2>5 DEF Group
  <1>6. Group(len, code, K, 5, 5, 4, 9)
    <2>1. \A n \in Run(5, 5) : DC_len(1, K[n]) = 4  BY DEF Run, DCOrder, DC_len, DC_len_
    <2>2. \A n \in Run(5, 5) : DC_cwd(1, K[n]) = n + (9)  BY DEF Run, DCOrder, DC_cwd, DC_cwd_
    <2>3. \A n \in Run(5 + 1, 5) : K[n-1] < K[n]  BY DEF Run, DCOrder
    <2>4. \A n \in Run(5, 5) : n \in Run(1, 12)  BY DEF Run
    <2> HIDE DEF len, code, K
    <2>5. ASSUME NEW n \in Run(5, 5) PROVE K[n] \in Byte /\ len[K[n]] = 4 /\ code[K[n]] = n + (9)
      BY ONLY <1>3, <2>1, <2>2, <2>4, n \in Run(5, 5)
    <2> QED  BY ONLY <2>3, <2>5 DEF Group
  <1>7. Group(len, code, K, 6, 6, 5, 24)
    <2>1. \A n \in Run(6, 6) : DC_len(1, K[n]) = 5  BY DEF Run, DCOrder, DC_len, DC_len_
    <2>2. \A n \in Run(6, 6) : DC_cwd(1, K[n]) = n + (24)  BY DEF Run, DCOrder, DC_cwd, DC_cwd_
    <2>3. \A n \in Run(6 + 1, 6) : K[n-1] < K[n]  BY DEF Run, DCOrder
    <2>4. \A n \in Run(6, 6) : n \in Run(1, 12)  BY DEF Run
    <2> HIDE DEF len, code, K
    <2>5. ASSUME NEW n \in Run(6, 6) PROVE K[n] \in Byte /\ len[K[n]] = 5 /\ code[K[n]] = n + (24)
      BY ONLY <1>3, <2>1, <2>2, <2>4, n \in Run(6, 6)
    <2> QED  BY ONLY <2>3, <2>5 DEF Group
  <1>8. Group(len, code, K, 7, 7, 6, 55)
    <2>1. \A n \in Run(7, 7) : DC_len(1, K[n]) = 6  BY DEF Run, DCOrder, DC_len, DC_len_
    <2>2. \A n \in Run(7, 7) : DC_cwd(1, K[n]) = n + (55)  BY DEF Run, DCOrder, DC_cwd, DC_cwd_
    <2>3. \A n \in Run(7 + 1, 7) : K[n-1] < K[n]  BY DEF Run, DCOrder
    <2>4. \A n \in Run(7, 7) : n \in Run(1, 12)  BY DEF Run
    <2> HIDE DEF len, code, K
    <2>5. ASSUME NEW n \in Run(7, 7) PROVE K[n] \in Byte /\ len[K[n]] = 6 /\ code[K[n]] = n + (55)
      BY ONLY <1>3, <2>1, <2>2, <2>4, n \in Run(7, 7)
    <2> QED  BY ONLY <2>3, <2>5 DEF Group
  <1>9. Group(len, code, K, 8, 8, 7, 118)
    <2>1. \A n \in Run(8, 8) : DC_len(1, K[n]) = 7  BY DEF Run, DCOrder, DC_len, DC_len_
    <2>2. \A n \in Run(8, 8) : DC_cwd(1, K[n]) = n + (118)  BY DEF Run, DCOrder, DC_cwd, DC_cwd_
    <2>3. \A n \in Run(8 + 1, 8) : K[n-1] < K[n]  BY DEF Run, DCOrder
    <2>4. \A n \in Run(8, 8) : n \in Run(1, 12)  BY DEF Run
    <2> HIDE DEF len, code, K
    <2>5. ASSUME NEW n \in Run(8, 8) PROVE K[n] \in Byte /\ len[K[n]] = 7 /\ code[K[n]] = n + (118)
      BY ONLY <1>3, <2>1, <2>2, <2>4, n \in Run(8, 8)
    <2> QED  BY ONLY <2>3, <2>5 DEF Group
  <1>10. Group(len, code, K, 9, 9, 8, 245)
    <2>1. \A n \in Run(9, 9) : DC_len(1, K[n]) = 8  BY DEF Run, DCOrder, DC_len, DC_len_
    <2>2. \A n \in Run(9, 9) : DC_cwd(1, K[n]) = n + (245)  BY DEF Run, DCOrder, DC_cwd, DC_cwd_
    <2>3. \A n \in Run(9 + 1, 9) : K[n-1] < K[n]  BY DEF Run, DCOrder
    <2>4. \A n \in Run(9, 9) : n \in Run(1, 12)  BY DEF Run
    <2> HIDE DEF len, code, K
    <2>5. ASSUME NEW n \in Run(9, 9) PROVE K[n] \in Byte /\ len[K[n]] = 8 /\ code[K[n]] = n + (245)
      BY ONLY <1>3, <2>1, <2>2, <2>4, n \in Run(9, 9)
    <2> QED  BY ONLY <2>3, <2>5 DEF Group
  <1>11. Group(len, code, K, 10, 10, 9, 500)
    <2>1. \A n \in Run(10, 10) : DC_len(1, K[n]) = 9  BY DEF Run, DCOrder, DC_len, DC_len_
    <2>2. \A n \in Run(10, 10) : DC_cwd(1, K[n]) = n + (500)  BY DEF Run, DCOrder, DC_cwd, DC_cwd_
    <2>3. \A n \in Run(10 + 1, 10) : K[n-1] < K[n]  BY DEF Run, DCOrder
    <2>4. \A n \in Run(10, 10) : n \in Run(1, 12)  BY DEF Run
    <2> HIDE DEF len, code, K
    <2>5. ASSUME NEW n \in Run(10, 10) PROVE K[n] \in Byte /\ len[K[n]] = 9 /\ code[K[n]] = n + (500)
      BY ONLY <1>3, <2>1, <2>2, <2>4, n \in Run(10, 10)
    <2> QED  BY ONLY <2>3, <2>5 DEF Group
  <1>12. Group(len, code, K, 11, 11, 10, 1011)
    <2>1. \A n \in Run(11, 11) : DC_len(1, K[n]) = 10  BY DEF Run, DCOrder, DC_len, DC_len_
    <2>2. \A n \in Run(11, 11) : DC_cwd(1, K[n]) = n + (1011)  BY DEF Run, DCOrder, DC_cwd, DC_cwd_
    <2>3. \A n \in Run(11 + 1, 11) : K[n-1] < K[n]  BY DEF Run, DCOrder
    <2>4. \A n \in Run(11, 11) : n \in Run(1, 12)  BY DEF Run
    <2> HIDE DEF len, code, K
    <2>5. ASSUME NEW n \in Run(11, 11) PROVE K[n] \in Byte /\ len[K[n]] = 10 /\ code[K[n]] = n + (1011)
      BY ONLY <1>3, <2>1, <2>2, <2>4, n \in Run(11, 11)
    <2> QED  BY ONLY <2>3, <2>5 DEF Group
  <1>13. Group(len, code, K, 12, 12, 11, 2034)
    <2>1. \A n \in Run(12, 12) : DC_len(1, K[n]) = 11  BY DEF Run, DCOrder, DC_len, DC_len_
    <2>2. \A n \in Run(12, 12) : DC_cwd(1, K[n]) = n + (2034)  BY DEF Run, DCOrder, DC_cwd, DC_cwd_
    <2>3. \A n \in Run(12 + 1, 12) : K[n-1] < K[n]  BY DEF Run, DCOrder
    <2>4. \A n \in Run(12, 12) : n \in Run(1, 12)  BY DEF Run
    <2> HIDE DEF len, code, K
    <2>5. ASSUME NEW n \in Run(12, 12) PROVE K[n] \in Byte /\ len[K[n]] = 11 /\ code[K[n]] = n + (2034)
      BY ONLY <1>3, <2>1, <2>2, <2>4, n \in Run(12, 12)
    <2> QED  BY ONLY <2>3, <2>5 DEF Group
  <1> HIDE DEF len, code, K
  <1>14. Chain(len, code, K, 3, 2, -1)  BY <1>4, FirstGroup
  <1>15. Chain(len, code, K, 4, 3, 2)
    <2>1. Continues(3, 2, -1, 4, 4, 3, 2, 1)  BY Powers DEF Continues
    <2> QED  BY ONLY <1>14, <1>5, <2>1, NextGroup
  <1>16. Chain(len, code, K, 5, 4, 9)
    <2>1. Continues(4, 3, 2, 5, 5, 4, 9, 1)  BY Powers DEF Continues
    <2> QED  BY ONLY <1>15, <1>6, <2>1, NextGroup
  <1>17. Chain(len, code, K, 6, 5, 24)
    <2>1. Continues(5, 4, 9, 6, 6, 5, 24, 1)  BY Powers DEF Continues
    <2> QED  BY ONLY <1>16, <1>7, <2>1, NextGroup
  <1>18. Chain(len, code, K, 7, 6, 55)
    <2>1. Continues(6, 5, 24, 7, 7, 6, 55, 1)  BY Powers DEF Continues
    <2> QED  BY ONLY <1>17, <1>8, <2>1, NextGroup
  <1>19. Chain(len, code, K, 8, 7, 118)
    <2>1. Continues(7, 6, 55, 8, 8, 7, 118, 1)  BY Powers DEF Continues
    <2> QED  BY ONLY <1>18, <1>9, <2>1, NextGroup
  <1>20. Chain(len, code, K, 9, 8, 245)
    <2>1. Continues(8, 7, 118, 9, 9, 8, 245, 1)  BY Powers DEF Continues
    <2> QED  BY ONLY <1>19, <1>10, <2>1, NextGroup
  <1>21. Chain(len, code, K, 10, 9, 500)
    <2>1. Continues(9, 8, 245, 10, 10, 9, 500, 1)  BY Powers DEF Continues
    <2> QED  BY ONLY <1>20, <1>11, <2>1, NextGroup
  <1>22. Chain(len, code, K, 11, 10, 1011)
    <2>1. Continues(10, 9, 500, 11, 11, 10, 1011, 1)  BY Powers DEF Continues
    <2> QED  BY ONLY <1>21, <1>12, <2>1, NextGroup
  <1>23. Chain(len, code, K, 12, 11, 2034)
    <2>1. Continues(11, 10, 1011, 12, 12, 11, 2034, 1)  BY Powers DEF Continues
    <2> QED  BY ONLY <1>22, <1>13, <2>1, NextGroup
  <1> QED  BY ONLY <1>23 DEF len, code, K

\* The luma AC table of Annex K is such a chain, and its codes end below 2^16 - 1.
LEMMA LumaChain == Chain(ACLen(0), ACCode(0), LumaOrder, 162, 16, 65372)
  <1> DEFINE len == ACLen(0)
             code == ACCode(0)
             K == LumaOrder
  <1>1. \A v \in Run(0, 255) : v \in Byte /\ len[v] = AC_len(0, v) /\ code[v] = AC_cwd(0, v)  BY ByteIs DEF Run, ACLen, ACCode
  <1>2. \A n \in Run(1, 162) : K[n] \in Run(0, 255)
    <2>1. \A n \in Run(1, 40) : K[n] \in Run(0, 255)  BY DEF Run, LumaOrder
    <2>2. \A n \in Run(41, 80) : K[n] \in Run(0, 255)  BY DEF Run, LumaOrder
    <2>3. \A n \in Run(81, 120) : K[n] \in Run(0, 255)  BY DEF Run, LumaOrder
    <2>4. \A n \in Run(121, 162) : K[n] \in Run(0, 255)  BY DEF Run, LumaOrder
    <2>5. \A n \in Run(1, 162) : n \in Run(1, 40) \/ n \in Run(41, 80) \/ n \in Run(81, 120) \/ n \in Run(121, 162)  BY DEF Run
    <2> HIDE DEF K
    <2> QED  BY ONLY <2>1, <2>2, <2>3, <2>4, <2>5
  <1>3. \A n \in Run(1, 162) : K[n] \in Byte /\ len[K[n]] = AC_len(0, K[n]) /\ code[K[n]] = AC_cwd(0, K[n])
    <2> HIDE DEF len, code, K
    <2> QED  BY ONLY <1>1, <1>2
  <1>4. Group(len, code, K, 1, 2, 2, -1)
    <2>1. \A n \in Run(1, 2) : AC_len(0, K[n]) = 2
      <3>1. AC_len(0, K[1]) = 2  BY DEF LumaOrder, AC_len, AC_len_
      <3>2. AC_len(0, K[2]) = 2  BY DEF LumaOrder, AC_len, AC_len_
      <3>3. \A n \in Run(1, 2) : n = 1 \/ n = 2  BY DEF Run
      <3> HIDE DEF K
      <3> QED  BY ONLY <3>1, <3>2, <3>3
    <2>2. \A n \in Run(1, 2) : AC_cwd(0, K[n]) = n + (-1)  BY DEF Run, LumaOrder, AC_cwd, AC_cwd_
    <2>3. \A n \in Run(1 + 1, 2) : K[n-1] < K[n]  BY DEF Run, LumaOrder
    <2>4. \A n \in Run(1, 2) : n \in Run(1, 162)  BY DEF Run
    <2> HIDE DEF len, code, K
    <2>5. ASSUME NEW n \in Run(1, 2) PROVE K[n] \in Byte /\ len[K[n]] = 2 /\ code[K[n]] = n + (-1)
      BY ONLY <1>3, <2>1, <2>2, <2>4, n \in Run(1, 2)
    <2> QED  BY ONLY <2>3, <2>5 DEF Group
  <1>5. Group(len, code, K, 3, 3, 3, 1)
    <2>1. \A n \in Run(3, 3) : AC_len(0, K[n]) = 3  BY DEF Run, LumaOrder, AC_len, AC_len_
    <2>2. \A n \in Run(3, 3) : AC_cwd(0, K[n]) = n + (1)  BY DEF Run, LumaOrder, AC_cwd, AC_cwd_
    <2>3. \A n \in Run(3 + 1, 3) : K[n-1] < K[n]  BY DEF Run, LumaOrder
    <2>4. \A n \in Run(3, 3) : n \in Run(1, 162)  BY DEF Run
    <2> HIDE DEF len, code, K
    <2>5. ASSUME NEW n \in Run(3, 3) PROVE K[n] \in Byte /\ len[K[n]] = 3 /\ code[K[n]] = n + (1)
      BY ONLY <1>3, <2>1, <2>2, <2>4, n \in Run(3, 3)
    <2> QED  BY ONLY <2>3, <2>5 DEF Group
  <1>6. Group(len, code, K, 4, 6, 4, 6)
    <2>1. \A n \in Run(4, 6) : AC_len(0, K[n]) = 4  BY DEF Run, LumaOrder, AC_len, AC_len_
    <2>2. \A n \in Run(4, 6) : AC_cwd(0, K[n]) = n + (6)  BY DEF Run, LumaOrder, AC_cwd, AC_cwd_
    <2>3. \A n \in Run(4 + 1, 6) : K[n-1] < K[n]  BY DEF Run, LumaOrder
    <2>4. \A n \in Run(4, 6) : n \in Run(1, 162)  BY DEF Run
    <2> HIDE DEF len, code, K
    <2>5. ASSUME NEW n \in Run(4, 6) PROVE K[n] \in Byte /\ len[K[n]] = 4 /\ code[K[n]] = n + (6)
      BY ONLY <1>3, <2>1, <2>2, <2>4, n \in Run(4, 6)
    <2> QED  BY ONLY <2>3, <2>5 DEF Group
  <1>7. Group(len, code, K, 7, 9, 5, 19)
    <2>1. \A n \in Run(7, 9) : AC_len(0, K[n]) = 5  BY DEF Run, LumaOrder, AC_len, AC_len_
    <2>2. \A n \in Run(7, 9) : AC_cwd(0, K[n]) = n + (19)  BY DEF Run, LumaOrder, AC_cwd, AC_cwd_
    <2>3. \A n \in Run(7 + 1, 9) : K[n-1] < K[n]  BY DEF Run, LumaOrder
    <2>4. \A n \in Run(7, 9) : n \in Run(1, 162)  BY DEF Run
    <2> HIDE DEF len, code, K
    <2>5. ASSUME NEW n \in Run(7, 9) PROVE K[n] \in Byte /\ len[K[n]] = 5 /\ code[K[n]] = n + (19)
      BY ONLY <1>3, <2>1, <2>2, <2>4, n \in Run(7, 9)
    <2> QED  BY ONLY <2>3, <2>5 DEF Group
  <1>8. Group(len, code, K, 10, 11, 6, 48)
    <2>1. \A n \in Run(10, 11) : AC_len(0, K[n]) = 6  BY DEF Run, LumaOrder, AC_len, AC_len_
    <2>2. \A n \in Run(10, 11) : AC_cwd(0, K[n]) = n + (48)  BY DEF Run, LumaOrder, AC_cwd, AC_cwd_
    <2>3. \A n \in Run(10 + 1, 11) : K[n-1] < K[n]  BY DEF Run, LumaOrder
    <2>4. \A n \in Run(10, 11) : n \in Run(1, 162)  BY DEF Run
    <2> HIDE DEF len, code, K
    <2>5. ASSUME NEW n \in Run(10, 11) PROVE K[n] \in Byte /\ len[K[n]] = 6 /\ code[K[n]] = n + (48)
      BY ONLY <1>3, <2>1, <2>2, <2>4, n \in Run(10, 11)
    <2> QED  BY ONLY <2>3, <2>5 DEF Group
  <1>9. Group(len, code, K, 12, 15, 7, 108)
    <2>1. \A n \in Run(12, 15) : AC_len(0, K[n]) = 7  BY DEF Run, LumaOrder, AC_len, AC_len_
    <2>2. \A n \in Run(12, 15) : AC_cwd(0, K[n]) = n + (108)  BY DEF Run, LumaOrder, AC_cwd, AC_cwd_
    <2>3. \A n \in Run(12 + 1, 15) : K[n-1] < K[n]  BY DEF Run, LumaOrder
    <2>4. \A n \in Run(12, 15) : n \in Run(1, 162)  BY DEF Run
    <2> HIDE DEF len, code, K
    <2>5. ASSUME NEW n \in Run(12, 15) PROVE K[n] \in Byte /\ len[K[n]] = 7 /\ code[K[n]] = n + (108)
      BY ONLY <1>3, <2>1, <2>2, <2>4, n \in Run(12, 15)
    <2> QED  BY ONLY <2>3, <2>5 DEF Group
  <1>10. Group(len, code, K, 16, 18, 8, 232)
    <2>1. \A n \in Run(16, 18) : AC_len(0, K[n]) = 8  BY DEF Run, LumaOrder, AC_len, AC_len_
    <2>2. \A n \in Run(16, 18) : AC_cwd(0, K[n]) = n + (232)  BY DEF Run, LumaOrder, AC_cwd, AC_cwd_
    <2>3. \A n \in Run(16 + 1, 18) : K[n-1] < K[n]  BY DEF Run, LumaOrder
    <2>4. \A n \in Run(16, 18) : n \in Run(1, 162)  BY DEF Run
    <2> HIDE DEF len, code, K
    <2>5. ASSUME NEW n \in Run(16, 18) PROVE K[n] \in Byte /\ len[K[n]] = 8 /\ code[K[n]] = n + (232)
      BY ONLY <1>3, <2>1, <2>2, <2>4, n \in Run(16, 18)
    <2> QED  BY ONLY <2>3, <2>5 DEF Group
  <1>11. Group(len, code, K, 19, 23, 9, 483)
    <2>1. \A n \in Run(19, 23) : AC_len(0, K[n]) = 9  BY DEF Run, LumaOrder, AC_len, AC_len_
    <2>2. \A n \in Run(19, 23) : AC_cwd(0, K[n]) = n + (483)  BY DEF Run, LumaOrder, AC_cwd, AC_cwd_
    <2>3. \A n \in Run(19 + 1, 23) : K[n-1] < K[n]  BY DEF Run, LumaOrder
    <2>4. \A n \in Run(19, 23) : n \in Run(1, 162)  BY DEF Run
    <2> HIDE DEF len, code, K
    <2>5. ASSUME NEW n \in Run(19, 23) PROVE K[n] \in Byte /\ len[K[n]] = 9 /\ code[K[n]] = n + (483)
      BY ONLY <1>3, <2>1, <2>2, <2>4, n \in Run(19, 23)
    <2> QED  BY ONLY <2>3, <2>5 DEF Group
  <1>12. Group(len, code, K, 24, 28, 10, 990)
    <2>1. \A n \in Run(24, 28) : AC_len(0, K[n]) = 10  BY DEF Run, LumaOrder, AC_len, AC_len_
    <2>2. \A n \in Run(24, 28) : AC_cwd(0, K[n]) = n + (990)  BY DEF Run, LumaOrder, AC_cwd, AC_cwd_
    <2>3. \A n \in Run(24 + 1, 28) : K[n-1] < K[n]  BY DEF Run, LumaOrder
    <2>4. \A n \in Run(24, 28) : n \in Run(1, 162)  BY DEF Run
    <2> HIDE DEF len, code, K
    <2>5. ASSUME NEW n \in Run(24, 28) PROVE K[n] \in Byte /\ len[K[n]] = 10 /\ code[K[n]] = n + (990)
      BY ONLY <1>3, <2>1, <2>2, <2>4, n \in Run(24, 28)
    <2> QED  BY ONLY <2>3, <2>5 DEF Group
  <1>13. Group(len, code, K, 29, 32, 11, 2009)
    <2>1. \A n \in Run(29, 32) : AC_len(0, K[n]) = 11  BY DEF Run, LumaOrder, AC_len, AC_len_
    <2>2. \A n \in Run(29, 32) : AC_cwd(0, K[n]) = n + (2009)  BY DEF Run, LumaOrder, AC_cwd, AC_cwd_
    <2>3. \A n \in Run(29 + 1, 32) : K[n-1] < K[n]  BY DEF Run, LumaOrder
    <2>4. \A n \in Run(29, 32) : n \in Run(1, 162)  BY DEF Run
    <2> HIDE DEF len, code, K
    <2>5. ASSUME NEW n \in Run(29, 32) PROVE K[n] \in Byte /\ len[K[n]] = 11 /\ code[K[n]] = n + (2009)
      BY ONLY <1>3, <2>1, <2>2, <2>4, n \in Run(29, 32)
    <2> QED  BY ONLY <2>3, <2>5 DEF Group
  <1>14. Group(len, code, K, 33, 36, 12, 4051)
    <2>1. \A n \in Run(33, 36) : AC_len(0, K[n]) = 12  BY DEF Run, LumaOrder, AC_len, AC_len_
    <2>2. \A n \in Run(33, 36) : AC_cwd(0, K[n]) = n + (4051)  BY DEF Run, LumaOrder, AC_cwd, AC_cwd_
    <2>3. \A n \in Run(33 + 1, 36) : K[n-1] < K[n]  BY DEF Run, LumaOrder
    <2>4. \A n \in Run(33, 36) : n \in Run(1, 162)  BY DEF Run
    <2> HIDE DEF len, code, K
    <2>5. ASSUME NEW n \in Run(33, 36) PROVE K[n] \in Byte /\ len[K[n]] = 12 /\ code[K[n]] = n + (4051)
      BY ONLY <1>3, <2>1, <2>2, <2>4, n \in Run(33, 36)
    <2> QED  BY ONLY <2>3, <2>5 DEF Group
  <1>15. Group(len, code, K, 37, 37, 15, 32667)
    <2>1. \A n \in Run(37, 37) : AC_len(0, K[n]) = 15  BY DEF Run, LumaOrder, AC_len, AC_len_
    <2>2. \A n \in Run(37, 37) : AC_cwd(0, K[n]) = n + (32667)  BY DEF Run, LumaOrder, AC_cwd, AC_cwd_
    <2>3. \A n \in Run(37 + 1, 37) : K[n-1] < K[n]  BY DEF Run, LumaOrder
    <2>4. \A n \in Run(37, 37) : n \in Run(1, 162)  BY DEF Run
    <2> HIDE DEF len, code, K
    <2>5. ASSUME NEW n \in Run(37, 37) PROVE K[n] \in Byte /\ len[K[n]] = 15 /\ code[K[n]] = n + (32667)
      BY ONLY <1>3, <2>1, <2>2, <2>4, n \in Run(37, 37)
    <2> QED  BY ONLY <2>3, <2>5 DEF Group
  <1>16. Group(len, code, K, 38, 162, 16, 65372)
    <2>1. \A n \in Run(38, 162) : AC_len(0, K[n]) = 16  BY DEF Run, LumaOrder, AC_len, AC_len_
    <2>2. \A n \in Run(38, 162) : AC_cwd(0, K[n]) = n + (65372)  BY DEF Run, LumaOrder, AC_cwd, AC_cwd_
    <2>3. \A n \in Run(38 + 1, 162) : K[n-1] < K[n]  BY DEF Run, LumaOrder
    <2>4. \A n \in Run(38, 162) : n \in Run(1, 162)  BY DEF Run
    <2> HIDE DEF len, code, K
    <2>5. ASSUME NEW n \in Run(38, 162) PROVE K[n] \in Byte /\ len[K[n]] = 16 /\ code[K[n]] = n + (65372)
      BY ONLY <1>3, <2>1, <2>2, <2>4, n \in Run(38, 162)
    <2> QED  BY ONLY <2>3, <2>5 DEF Group
  <1> HIDE DEF len, code, K
  <1>17. Chain(len, code, K, 2, 2, -1)  BY <1>4, FirstGroup
  <1>18. Chain(len, code, K, 3, 3, 1)
    <2>1. Continues(2, 2, -1, 3, 3, 3, 1, 1)  BY Powers DEF Continues
    <2> QED  BY ONLY <1>17, <1>5, <2>1, NextGroup
  <1>19. Chain(len, code, K, 6, 4, 6)
    <2>1. Continues(3, 3, 1, 4, 6, 4, 6, 1)  BY Powers DEF Continues
    <2> QED  BY ONLY <1>18, <1>6, <2>1, NextGroup
  <1>20. Chain(len, code, K, 9, 5, 19)
    <2>1. Continues(6, 4, 6, 7, 9, 5, 19, 1)  BY Powers DEF Continues
    <2> QED  BY ONLY <1>19, <1>7, <2>1, NextGroup
  <1>21. Chain(len, code, K, 11, 6, 48)
    <2>1. Continues(9, 5, 19, 10, 11, 6, 48, 1)  BY Powers DEF Continues
    <2> QED  BY ONLY <1>20, <1>8, <2>1, NextGroup
  <1>22. Chain(len, code, K, 15, 7, 108)
    <2>1. Continues(11, 6, 48, 12, 15, 7, 108, 1)  BY Powers DEF Continues
    <2> QED  BY ONLY <1>21, <1>9, <2>1, NextGroup
  <1>23. Chain(len, code, K, 18, 8, 232)
    <2>1. Continues(15, 7, 108, 16, 18, 8, 232, 1)  BY Powers DEF Continues
    <2> QED  BY ONLY <1>22, <1>10, <2>1, NextGroup
  <1>24. Chain(len, code, K, 23, 9, 483)
    <2>1. Continues(18, 8, 232, 19, 23, 9, 483, 1)  BY Powers DEF Continues
    <2> QED  BY ONLY <1>23, <1>11, <2>1, NextGroup
  <1>25. Chain(len, code, K, 28, 10, 990)
    <2>1. Continues(23, 9, 483, 24, 28, 10, 990, 1)  BY Powers DEF Continues
    <2> QED  BY ONLY <1>24, <1>12, <2>1, NextGroup
  <1>26. Chain(len, code, K, 32, 11, 2009)
    <2>1. Continues(28, 10, 990, 29, 32, 11, 2009, 1)  BY Powers DEF Continues
    <2> QED  BY ONLY <1>25, <1>13, <2>1, NextGroup
  <1>27. Chain(len, code, K, 36, 12, 4051)
    <2>1. Continues(32, 11, 2009, 33, 36, 12, 4051, 1)  BY Powers DEF Continues
    <2> QED  BY ONLY <1>26, <1>14, <2>1, NextGroup
  <1>28. Chain(len, code, K, 37, 15, 32667)
    <2>1. Continues(36, 12, 4051, 37, 37, 15, 32667, 3)  BY Powers DEF Continues
    <2> QED  BY ONLY <1>27, <1>15, <2>1, NextGroup
  <1>29. Chain(len, code, K, 162, 16, 65372)
    <2>1. Continues(37, 15, 32667, 38, 162, 16, 65372, 1)  BY Powers DEF Continues
    <2> QED  BY ONLY <1>28, <1>16, <2>1, NextGroup
  <1> QED  BY ONLY <1>29 DEF len, code, K

\* So is the chroma AC table.
LEMMA ChromaChain == Chain(ACLen(1), ACCode(1), ChromaOrder, 162, 16, 65372)
  <1> DEFINE len == ACLen(1)
             code == ACCode(1)
             K == ChromaOrder
  <1>1. \A v \in Run(0, 255) : v \in Byte /\ len[v] = AC_len(1, v) /\ code[v] = AC_cwd(1, v)  BY ByteIs DEF Run, ACLen, ACCode
  <1>2. \A n \in Run(1, 162) : K[n] \in Run(0, 255)
    <2>1. \A n \in Run(1, 40) : K[n] \in Run(0, 255)  BY DEF Run, ChromaOrder
    <2>2. \A n \in Run(41, 80) : K[n] \in Run(0, 255)  BY DEF Run, ChromaOrder
    <2>3. \A n \in Run(81, 120) : K[n] \in Run(0, 255)  BY DEF Run, ChromaOrder
    <2>4. \A n \in Run(121, 162) : K[n] \in Run(0, 255)  BY DEF Run, ChromaOrder
    <2>5. \A n \in Run(1, 162) : n \in Run(1, 40) \/ n \in Run(41, 80) \/ n \in Run(81, 120) \/ n \in Run(121, 162)  BY DEF Run
    <2> HIDE DEF K
    <2> QED  BY ONLY <2>1, <2>2, <2>3, <2>4, <2>5
  <1>3. \A n \in Run(1, 162) : K[n] \in Byte /\ len[K[n]] = AC_len(1, K[n]) /\ code[K[n]] = AC_cwd(1, K[n])
    <2> HIDE DEF len, code, K
    <2> QED  BY ONLY <1>1, <1>2
  <1>4. Group(len, code, K, 1, 2, 2, -1)
    <2>1. \A n \in Run(1, 2) : AC_len(1, K[n]) = 2  BY DEF Run, ChromaOrder, AC_len, AC_len_
    <2>2. \A n \in Run(1, 2) : AC_cwd(1, K[n]) = n + (-1)  BY DEF Run, ChromaOrder, AC_cwd, AC_cwd_
    <2>3. \A n \in Run(1 + 1, 2) : K[n-1] < K[n]  BY DEF Run, ChromaOrder
    <2>4. \A n \in Run(1, 2) : n \in Run(1, 162)  BY DEF Run
    <2> HIDE DEF len, code, K
    <2>5. ASSUME NEW n \in Run(1, 2) PROVE K[n] \in Byte /\ len[K[n]] = 2 /\ code[K[n]] = n + (-1)
      BY ONLY <1>3, <2>1, <2>2, <2>4, n \in Run(1, 2)
    <2> QED  BY ONLY <2>3, <2>5 DEF Group
  <1>5. Group(len, code, K, 3, 3, 3, 1)
    <2>1. \A n \in Run(3, 3) : AC_len(1, K[n]) = 3  BY DEF Run, ChromaOrder, AC_len, AC_len_
    <2>2. \A n \in Run(3, 3) : AC_cwd(1, K[n]) = n + (1)  BY DEF Run, ChromaOrder, AC_cwd, AC_cwd_
    <2>3. \A n \in Run(3 + 1, 3) : K[n-1] < K[n]  BY DEF Run, ChromaOrder
    <2>4. \A n \in Run(3, 3) : n \in Run(1, 162)  BY DEF Run
    <2> HIDE DEF len, code, K
    <2>5. ASSUME NEW n \in Run(3, 3) PROVE K[n] \in Byte /\ len[K[n]] = 3 /\ code[K[n]] = n + (1)
      BY ONLY <1>3, <2>1, <2>2, <2>4, n \in Run(3, 3)
    <2> QED  BY ONLY <2>3, <2>5 DEF Group
  <1>6. Group(len, code, K, 4, 5, 4, 6)
    <2>1. \A n \in Run(4, 5) : AC_len(1, K[n]) = 4  BY DEF Run, ChromaOrder, AC_len, AC_len_
    <2>2. \A n \in Run(4, 5) : AC_cwd(1, K[n]) = n + (6)  BY DEF Run, ChromaOrder, AC_cwd, AC_cwd_
    <2>3. \A n \in Run(4 + 1, 5) : K[n-1] < K[n]  BY DEF Run, ChromaOrder
    <2>4. \A n \in Run(4, 5) : n \in Run(1, 162)  BY DEF Run
    <2> HIDE DEF len, code, K
    <2>5. ASSUME NEW n \in Run(4, 5) PROVE K[n] \in Byte /\ len[K[n]] = 4 /\ code[K[n]] = n + (6)
      BY ONLY <1>3, <2>1, <2>2, <2>4, n \in Run(4, 5)
    <2> QED  BY ONLY <2>3, <2>5 DEF Group
  <1>7. Group(len, code, K, 6, 9, 5, 18)
    <2>1. \A n \in Run(6, 9) : AC_len(1, K[n]) = 5  BY DEF Run, ChromaOrder, AC_len, AC_len_
    <2>2. \A n \in Run(6, 9) : AC_cwd(1, K[n]) = n + (18)  BY DEF Run, ChromaOrder, AC_cwd, AC_cwd_
    <2>3. \A n \in Run(6 + 1, 9) : K[n-1] < K[n]  BY DEF Run, ChromaOrder
    <2>4. \A n \in Run(6, 9) : n \in Run(1, 162)  BY DEF Run
    <2> HIDE DEF len, code, K
    <2>5. ASSUME NEW n \in Run(6, 9) PROVE K[n] \in Byte /\ len[K[n]] = 5 /\ code[K[n]] = n + (18)
      BY ONLY <1>3, <2>1, <2>2, <2>4, n \in Run(6, 9)
    <2> QED  BY ONLY <2>3, <2>5 DEF Group
  <1>8. Group(len, code, K, 10, 13, 6, 46)
    <2>1. \A n \in Run(10, 13) : AC_len(1, K[n]) = 6  BY DEF Run, ChromaOrder, AC_len, AC_len_
    <2>2. \A n \in Run(10, 13) : AC_cwd(1, K[n]) = n + (46)  BY DEF Run, ChromaOrder, AC_cwd, AC_cwd_
    <2>3. \A n \in Run(10 + 1, 13) : K[n-1] < K[n]  BY DEF Run, ChromaOrder
    <2>4. \A n \in Run(10, 13) : n \in Run(1, 162)  BY DEF Run
    <2> HIDE DEF len, code, K
    <2>5. ASSUME NEW n \in Run(10, 13) PROVE K[n] \in Byte /\ len[K[n]] = 6 /\ code[K[n]] = n + (46)
      BY ONLY <1>3, <2>1, <2>2, <2>4, n \in Run(10, 13)
    <2> QED  BY ONLY <2>3, <2>5 DEF Group
  <1>9. Group(len, code, K, 14, 16, 7, 106)
    <2>1. \A n \in Run(14, 16) : AC_len(1, K[n]) = 7  BY DEF Run, ChromaOrder, AC_len, AC_len_
    <2>2. \A n \in Run(14, 16) : AC_cwd(1, K[n]) = n + (106)  BY DEF Run, ChromaOrder, AC_cwd, AC_cwd_
    <2>3. \A n \in Run(14 + 1, 16) : K[n-1] < K[n]  BY DEF Run, ChromaOrder
    <2>4. \A n \in Run(14, 16) : n \in Run(1, 162)  BY DEF Run
    <2> HIDE DEF len, code, K
    <2>5. ASSUME NEW n \in Run(14, 16) PROVE K[n] \in Byte /\ len[K[n]] = 7 /\ code[K[n]] = n + (106)
      BY ONLY <1>3, <2>1, <2>2, <2>4, n \in Run(14, 16)
    <2> QED  BY ONLY <2>3, <2>5 DEF Group
  <1>10. Group(len, code, K, 17, 20, 8, 229)
    <2>1. \A n \in Run(17, 20) : AC_len(1, K[n]) = 8  BY DEF Run, ChromaOrder, AC_len, AC_len_
    <2>2. \A n \in Run(17, 20) : AC_cwd(1, K[n]) = n + (229)  BY DEF Run, ChromaOrder, AC_cwd, AC_cwd_
    <2>3. \A n \in Run(17 + 1, 20) : K[n-1] < K[n]  BY DEF Run, ChromaOrder
    <2>4. \A n \in Run(17, 20) : n \in Run(1, 162)  BY DEF Run
    <2> HIDE DEF len, code, K
    <2>5. ASSUME NEW n \in Run(17, 20) PROVE K[n] \in Byte /\ len[K[n]] = 8 /\ code[K[n]] = n + (229)
      BY ONLY <1>3, <2>1, <2>2, <2>4, n \in Run(17, 20)
    <2> QED  BY ONLY <2>3, <2>5 DEF Group
  <1>11. Group(len, code, K, 21, 27, 9, 479)
    <2>1. \A n \in Run(21, 27) : AC_len(1, K[n]) = 9  BY DEF Run, ChromaOrder, AC_len, AC_len_
    <2>2. \A n \in Run(21, 27) : AC_cwd(1, K[n]) = n + (479)  BY DEF Run, ChromaOrder, AC_cwd, AC_cwd_
    <2>3. \A n \in Run(21 + 1, 27) : K[n-1] < K[n]  BY DEF Run, ChromaOrder
    <2>4. \A n \in Run(21, 27) : n \in Run(1, 162)  BY DEF Run
    <2> HIDE DEF len, code, K
    <2>5. ASSUME NEW n \in Run(21, 27) PROVE K[n] \in Byte /\ len[K[n]] = 9 /\ code[K[n]] = n + (479)
      BY ONLY <1>3, <2>1, <2>2, <2>4, n \in Run(21, 27)
    <2> QED  BY ONLY <2>3, <2>5 DEF Group
  <1>12. Group(len, code, K, 28, 32, 10, 986)
    <2>1. \A n \in Run(28, 32) : AC_len(1, K[n]) = 10  BY DEF Run, ChromaOrder, AC_len, AC_len_
    <2>2. \A n \in Run(28, 32) : AC_cwd(1, K[n]) = n + (986)  BY DEF Run, ChromaOrder, AC_cwd, AC_cwd_
    <2>3. \A n \in Run(28 + 1, 32) : K[n-1] < K[n]  BY DEF Run, ChromaOrder
    <2>4. \A n \in Run(28, 32) : n \in Run(1, 162)  BY DEF Run
    <2> HIDE DEF len, code, K
    <2>5. ASSUME NEW n \in Run(28, 32) PROVE K[n] \in Byte /\ len[K[n]] = 10 /\ code[K[n]] = n + (986)
      BY ONLY <1>3, <2>1, <2>2, <2>4, n \in Run(28, 32)
    <2> QED  BY ONLY <2>3, <2>5 DEF Group
  <1>13. Group(len, code, K, 33, 36, 11, 2005)
    <2>1. \A n \in Run(33, 36) : AC_len(1, K[n]) = 11  BY DEF Run, ChromaOrder, AC_len, AC_len_
    <2>2. \A n \in Run(33, 36) : AC_cwd(1, K[n]) = n + (2005)  BY DEF Run, ChromaOrder, AC_cwd, AC_cwd_
    <2>3. \A n \in Run(33 + 1, 36) : K[n-1] < K[n]  BY DEF Run, ChromaOrder
    <2>4. \A n \in Run(33, 36) : n \in Run(1, 162)  BY DEF Run
    <2> HIDE DEF len, code, K
    <2>5. ASSUME NEW n \in Run(33, 36) PROVE K[n] \in Byte /\ len[K[n]] = 11 /\ code[K[n]] = n + (2005)
      BY ONLY <1>3, <2>1, <2>2, <2>4, n \in Run(33, 36)
    <2> QED  BY ONLY <2>3, <2>5 DEF Group
  <1>14. Group(len, code, K, 37, 40, 12, 4047)
    <2>1. \A n \in Run(37, 40) : AC_len(1, K[n]) = 12  BY DEF Run, ChromaOrder, AC_len, AC_len_
    <2>2. \A n \in Run(37, 40) : AC_cwd(1, K[n]) = n + (4047)  BY DEF Run, ChromaOrder, AC_cwd, AC_cwd_
    <2>3. \A n \in Run(37 + 1, 40) : K[n-1] < K[n]  BY DEF Run, ChromaOrder
    <2>4. \A n \in Run(37, 40) : n \in Run(1, 162)  BY DEF Run
    <2> HIDE DEF len, code, K
    <2>5. ASSUME NEW n \in Run(37, 40) PROVE K[n] \in Byte /\ len[K[n]] = 12 /\ code[K[n]] = n + (4047)
      BY ONLY <1>3, <2>1, <2>2, <2>4, n \in Run(37, 40)
    <2> QED  BY ONLY <2>3, <2>5 DEF Group
  <1>15. Group(len, code, K, 41, 41, 14, 16311)
    <2>1. \A n \in Run(41, 41) : AC_len(1, K[n]) = 14  BY DEF Run, ChromaOrder, AC_len, AC_len_
    <2>2. \A n \in Run(41, 41) : AC_cwd(1, K[n]) = n + (16311)  BY DEF Run, ChromaOrder, AC_cwd, AC_cwd_
    <2>3. \A n \in Run(41 + 1, 41) : K[n-1] < K[n]  BY DEF Run, ChromaOrder
    <2>4. \A n \in Run(41, 41) : n \in Run(1, 162)  BY DEF Run
    <2> HIDE DEF len, code, K
    <2>5. ASSUME NEW n \in Run(41, 41) PROVE K[n] \in Byte /\ len[K[n]] = 14 /\ code[K[n]] = n + (16311)
      BY ONLY <1>3, <2>1, <2>2, <2>4, n \in Run(41, 41)
    <2> QED  BY ONLY <2>3, <2>5 DEF Group
  <1>16. Group(len, code, K, 42, 43, 15, 32664)
    <2>1. \A n \in Run(42, 43) : AC_len(1, K[n]) = 15  BY DEF Run, ChromaOrder, AC_len, AC_len_
    <2>2. \A n \in Run(42, 43) : AC_cwd(1, K[n]) = n + (32664)  BY DEF Run, ChromaOrder, AC_cwd, AC_cwd_
    <2>3. \A n \in Run(42 + 1, 43) : K[n-1] < K[n]  BY DEF Run, ChromaOrder
    <2>4. \A n \in Run(42, 43) : n \in Run(1, 162)  BY DEF Run
    <2> HIDE DEF len, code, K
    <2>5. ASSUME NEW n \in Run(42, 43) PROVE K[n] \in Byte /\ len[K[n]] = 15 /\ code[K[n]] = n + (32664)
      BY ONLY <1>3, <2>1, <2>2, <2>4, n \in Run(42, 43)
    <2> QED  BY ONLY <2>3, <2>5 DEF Group
  <1>17. Group(len, code, K, 44, 162, 16, 65372)
    <2>1. \A n \in Run(44, 162) : AC_len(1, K[n]) = 16  BY DEF Run, ChromaOrder, AC_len, AC_len_
    <2>2. \A n \in Run(44, 162) : AC_cwd(1, K[n]) = n + (65372)  BY DEF Run, ChromaOrder, AC_cwd, AC_cwd_
    <2>3. \A n \in Run(44 + 1, 162) : K[n-1] < K[n]  BY DEF Run, ChromaOrder
    <2>4. \A n \in Run(44, 162) : n \in Run(1, 162)  BY DEF Run
    <2> HIDE DEF len, code, K
    <2>5. ASSUME NEW n \in Run(44, 162) PROVE K[n] \in Byte /\ len[K[n]] = 16 /\ code[K[n]] = n + (65372)
      BY ONLY <1>3, <2>1, <2>2, <2>4, n \in Run(44, 162)
    <2> QED  BY ONLY <2>3, <2>5 DEF Group
  <1> HIDE DEF len, code, K
  <1>18. Chain(len, code, K, 2, 2, -1)  BY <1>4, FirstGroup
  <1>19. Chain(len, code, K, 3, 3, 1)
    <2>1. Continues(2, 2, -1, 3, 3, 3, 1, 1)  BY Powers DEF Continues
    <2> QED  BY ONLY <1>18, <1>5, <2>1, NextGroup
  <1>20. Chain(len, code, K, 5, 4, 6)
    <2>1. Continues(3, 3, 1, 4, 5, 4, 6, 1)  BY Powers DEF Continues
    <2> QED  BY ONLY <1>19, <1>6, <2>1, NextGroup
  <1>21. Chain(len, code, K, 9, 5, 18)
    <2>1. Continues(5, 4, 6, 6, 9, 5, 18, 1)  BY Powers DEF Continues
    <2> QED  BY ONLY <1>20, <1>7, <2>1, NextGroup
  <1>22. Chain(len, code, K, 13, 6, 46)
    <2>1. Continues(9, 5, 18, 10, 13, 6, 46, 1)  BY Powers DEF Continues
    <2> QED  BY ONLY <1>21, <1>8, <2>1, NextGroup
  <1>23. Chain(len, code, K, 16, 7, 106)
    <2>1. Continues(13, 6, 46, 14, 16, 7, 106, 1)  BY Powers DEF Continues
    <2> QED  BY ONLY <1>22, <1>9, <2>1, NextGroup
  <1>24. Chain(len, code, K, 20, 8, 229)
    <2>1. Continues(16, 7, 106, 17, 20, 8, 229, 1)  BY Powers DEF Continues
    <2> QED  BY ONLY <1>23, <1>10, <2>1, NextGroup
  <1>25. Chain(len, code, K, 27, 9, 479)
    <2>1. Continues(20, 8, 229, 21, 27, 9, 479, 1)  BY Powers DEF Continues
    <2> QED  BY ONLY <1>24, <1>11, <2>1, NextGroup
  <1>26. Chain(len, code, K, 32, 10, 986)
    <2>1. Continues(27, 9, 479, 28, 32, 10, 986, 1)  BY Powers DEF Continues
    <2> QED  BY ONLY <1>25, <1>12, <2>1, NextGroup
  <1>27. Chain(len, code, K, 36, 11, 2005)
    <2>1. Continues(32, 10, 986, 33, 36, 11, 2005, 1)  BY Powers DEF Continues
    <2> QED  BY ONLY <1>26, <1>13, <2>1, NextGroup
  <1>28. Chain(len, code, K, 40, 12, 4047)
    <2>1. Continues(36, 11, 2005, 37, 40, 12, 4047, 1)  BY Powers DEF Continues
    <2> QED  BY ONLY <1>27, <1>14, <2>1, NextGroup
  <1>29. Chain(len, code, K, 41, 14, 16311)
    <2>1. Continues(40, 12, 4047, 41, 41, 14, 16311, 2)  BY Powers DEF Continues
    <2> QED  BY ONLY <1>28, <1>15, <2>1, NextGroup
  <1>30. Chain(len, code, K, 43, 15, 32664)
    <2>1. Continues(41, 14, 16311, 42, 43, 15, 32664, 1)  BY Powers DEF Continues
    <2> QED  BY ONLY <1>29, <1>16, <2>1, NextGroup
  <1>31. Chain(len, code, K, 162, 16, 65372)
    <2>1. Continues(43, 15, 32664, 44, 162, 16, 65372, 1)  BY Powers DEF Continues
    <2> QED  BY ONLY <1>30, <1>17, <2>1, NextGroup
  <1> QED  BY ONLY <1>31 DEF len, code, K

\* Numbers that grow in each step, and have no room for more, are the places themselves.
LEMMA NoRoom ==
  ASSUME NEW N \in Nat, NEW M \in Nat, M <= N, NEW r \in [1 .. N -> 0 .. M - 1],
         \A n \in 2 .. N : r[n-1] < r[n]
  PROVE  (N >= 1 => M = N) /\ \A n \in 1 .. N : r[n] = n - 1
  <1> DEFINE U == {k \in Nat : k + 1 <= N => r[k + 1] >= k}
             W == {k \in Nat : k < N => r[N - k] <= M - 1 - k}
  <1>1. 0 \in U
    <2>1. ASSUME 1 <= N PROVE r[1] >= 0
      <3>1. 1 \in 1 .. N  BY <2>1
      <3> QED  BY <3>1
    <2> QED  BY <2>1
  <1>2. ASSUME NEW k \in Nat, k \in U PROVE k + 1 \in U
    <2>1. ASSUME (k + 1) + 1 <= N PROVE r[(k + 1) + 1] >= k + 1
      <3>1. (k + 1) + 1 \in 2 .. N /\ ((k + 1) + 1) - 1 = k + 1 /\ k + 1 \in 1 .. N /\ (k + 1) + 1 \in 1 .. N  BY <2>1
      <3>2. r[k + 1] < r[(k + 1) + 1]  BY <3>1
      <3>3. r[k + 1] \in Int /\ r[(k + 1) + 1] \in Int  BY <3>1
      <3>4. r[k + 1] >= k  BY <1>2, <2>1
      <3> QED  BY ONLY <3>2, <3>3, <3>4, k \in Nat
    <2> QED  BY <2>1
  <1>3. 0 \in W
    <2>1. ASSUME 0 < N PROVE r[N - 0] <= M - 1 - 0
      <3>1. N - 0 \in 1 .. N  BY <2>1
      <3>2. r[N - 0] \in 0 .. M - 1  BY <3>1
      <3> QED  BY <3>2
    <2> QED  BY <2>1
  <1>4. ASSUME NEW k \in Nat, k \in W PROVE k + 1 \in W
    <2>1. ASSUME k + 1 < N PROVE r[N - (k + 1)] <= M - 1 - (k + 1)
      <3>1. N - k \in 2 .. N /\ (N - k) - 1 = N - (k + 1) /\ N - (k + 1) \in 1 .. N /\ N - k \in 1 .. N  BY <2>1
      <3>2. r[N - (k + 1)] < r[N - k]  BY <3>1
      <3>3. r[N - (k + 1)] \in Int /\ r[N - k] \in Int  BY <3>1
      <3>4. r[N - k] <= M - 1 - k  BY <1>4, <2>1
      <3> QED  BY ONLY <3>2, <3>3, <3>4, k \in Nat, M \in Nat
    <2> QED  BY <2>1
  <1> HIDE DEF U, W
  <1>5. Nat \subseteq U  BY <1>1, <1>2, SetInduction
  <1>6. Nat \subseteq W  BY <1>3, <1>4, SetInduction
  <1>7. ASSUME NEW n \in 1 .. N PROVE r[n] \in Int /\ r[n] >= n - 1 /\ r[n] <= M - 1 - (N - n)
    <2> DEFINE a == n - 1
               b == N - n
    <2>1. a \in Nat /\ b \in Nat /\ a + 1 = n /\ N - b = n /\ a + 1 <= N /\ b < N  OBVIOUS
    <2> HIDE DEF a, b
    <2>2. r[a + 1] >= a  BY <1>5, <2>1 DEF U
    <2>3. r[N - b] <= M - 1 - b  BY <1>6, <2>1 DEF W
    <2> QED  BY <2>1, <2>2, <2>3 DEF a, b
  <1>8. \A n \in 1 .. N : r[n] = n - 1
    <2> TAKE n \in 1 .. N
    <2> QED  BY <1>7
  <1>9. ASSUME N >= 1 PROVE M = N
    <2>1. N \in 1 .. N  BY <1>9
    <2>2. r[N] = N - 1 /\ r[N] \in 0 .. M - 1  BY <1>8, <2>1
    <2> QED  BY <2>2
  <1> QED  BY <1>8, <1>9

\* A list of elements in the order of their pairs, as long as there are elements, has them
\* all, each at the place of its rank.
LEMMA RankIsPlace ==
  ASSUME NEW S, IsFiniteSet(S), NEW pair, \A v \in S : pair[v] \in Nat, \A v, w \in S : pair[v] = pair[w] => v = w,
         NEW N \in Nat, N >= 1, Cardinality(S) <= N,
         NEW K, \A n \in 1 .. N : K[n] \in S, \A n \in 2 .. N : pair[K[n-1]] < pair[K[n]]
  PROVE  /\ Cardinality(S) = N
         /\ \A n \in 1 .. N : Cardinality(Lower(S, pair, K[n])) = n - 1
         /\ \A v \in S : \A n \in 1 .. N : Cardinality(Lower(S, pair, v)) = n - 1 => v = K[n]
         /\ \A v \in S : \E n \in 1 .. N : v = K[n]
  <1> DEFINE M == Cardinality(S)
             C(v) == Cardinality(Lower(S, pair, v))
             r == [n \in 1 .. N |-> C(K[n])]
  <1>1. /\ M \in Nat /\ \A v \in S : C(v) \in 0 .. M - 1
        /\ \A v, w \in S : pair[v] < pair[w] => C(v) < C(w)
    BY RanksFill
  <1> HIDE DEF C
  <1>2. r \in [1 .. N -> 0 .. M - 1]  BY <1>1
  <1>3. ASSUME NEW n \in 2 .. N PROVE r[n-1] < r[n]
    <2>1. n - 1 \in 1 .. N /\ n \in 1 .. N  OBVIOUS
    <2>2. C(K[n-1]) < C(K[n])  BY <1>1, <2>1
    <2> QED  BY <2>1, <2>2
  <1>4. \A n \in 1 .. N : r[n] = C(K[n])  OBVIOUS
  <1> HIDE DEF r, M
  <1>5. M <= N  BY DEF M
  <1>6. M = N /\ \A n \in 1 .. N : r[n] = n - 1  BY <1>1, <1>2, <1>3, <1>5, NoRoom
  <1>7. \A n \in 1 .. N : C(K[n]) = n - 1  BY ONLY <1>4, <1>6
  <1>8. ASSUME NEW v \in S, NEW n \in 1 .. N, C(v) = n - 1 PROVE v = K[n]
    <2> DEFINE w == K[n]
    <2>1. w \in S /\ C(w) = n - 1  BY <1>7
    <2>2. pair[v] \in Nat /\ pair[w] \in Nat  BY <2>1
    <2> HIDE DEF w
    <2>3. ~(C(v) < C(w)) /\ ~(C(w) < C(v))  BY ONLY <1>8, <2>1, n \in 1 .. N
    <2>4. ~(pair[v] < pair[w]) /\ ~(pair[w] < pair[v])  BY <1>1, <2>1, <2>3
    <2>5. pair[v] = pair[w]  BY ONLY <2>2, <2>4
    <2>6. v = w  BY <2>1, <2>5
    <2> QED  BY <2>6 DEF w
  <1>9. ASSUME NEW v \in S PROVE \E n \in 1 .. N : v = K[n]
    <2> DEFINE n == C(v) + 1
    <2>1. C(v) \in 0 .. N - 1  BY <1>1, <1>6
    <2>2. n \in 1 .. N /\ C(v) = n - 1  BY <2>1
    <2> HIDE DEF n
    <2> QED  BY <1>8, <2>2
  <1> QED  BY <1>6, <1>7, <1>8, <1>9 DEF M, C

\* A list of symbols in the order of their pairs, as long as there are symbols, is the order.
LEMMA OrderIs ==
  ASSUME NEW S, IsFiniteSet(S), NEW pair, \A v \in S : pair[v] \in Nat, \A v, w \in S : pair[v] = pair[w] => v = w,
         NEW f, Ordered(S, pair, f), NEW N \in Nat, N >= 1, Cardinality(S) <= N,
         NEW K, \A n \in 1 .. N : K[n] \in S, \A n \in 2 .. N : pair[K[n-1]] < pair[K[n]]
  PROVE  Cardinality(S) = N /\ \A n \in 1 .. N : f[n] = K[n]
  <1> DEFINE C(v) == Cardinality(Lower(S, pair, v))
  <1>1. /\ Cardinality(S) = N
        /\ \A v \in S : \A n \in 1 .. N : C(v) = n - 1 => v = K[n]
    BY RankIsPlace
  <1>2. f \in [1 .. N -> S] /\ \A n \in 1 .. N : C(f[n]) = n - 1  BY <1>1 DEF Ordered
  <1> HIDE DEF C
  <1>3. \A n \in 1 .. N : f[n] = K[n]  BY ONLY <1>1, <1>2
  <1> QED  BY ONLY <1>1, <1>3

\* What CodesAgree() asks of the symbols and their codes.
Agreeing(D, len, code, freq, f, N) ==
  /\ {f[n] : n \in 1 .. N} = Coded(D, len)
  /\ \A b \in 1 .. 16 : freq[b] = Cardinality({n \in 1 .. N : len[f[n]] = b})
  /\ code[f[1]] = 0
  /\ \A n \in 2 .. N : len[f[n]] >= len[f[n-1]] /\ code[f[n]] = (code[f[n-1]] + 1) * 2^(len[f[n]] - len[f[n-1]])

\* A chain of no fewer symbols than the table has, in the order of their pairs, holds them
\* all, and a decoder derives the encoder's codes from it.
LEMMA TableAgrees ==
  ASSUME NEW D \in SUBSET Byte, IsFiniteSet(D), NEW len \in [D -> 0 .. 16], NEW code,
         NEW pair, \A v \in D : pair[v] \in Nat, \A v, w \in D : pair[v] = pair[w] => v = w,
         NEW f, Ordered(Coded(D, len), pair, f), NEW N \in Nat, N >= 2, Cardinality(Coded(D, len)) <= N,
         NEW K, \A n \in 1 .. N : K[n] \in D, \A n \in 2 .. N : pair[K[n-1]] < pair[K[n]],
         NEW l, NEW o, Chain(len, code, K, N, l, o)
  PROVE  Cardinality(Coded(D, len)) = N /\ Agreeing(D, len, code, Frequencies(D, len), f, N)
  <1> DEFINE S == Coded(D, len)
  <1>1. S \subseteq D /\ IsFiniteSet(S) /\ \A v \in D : v \in S <=> len[v] # 0
    <2>1. S \in SUBSET D /\ \A v \in D : v \in S <=> len[v] # 0  BY DEF Coded
    <2> HIDE DEF S
    <2> QED  BY <2>1, FS_Subset
  <1>2. \A n \in 2 .. N : Next_(len, code, K[n-1], K[n])  BY DEF Chain
  <1>3. code[K[1]] = 0  BY DEF Chain
  <1>4. ASSUME NEW n \in 1 .. N PROVE K[n] \in S
    <2>1. len[K[n]] \in 1 .. 16
      <3>1. CASE n = 1
        <4>1. 2 \in 2 .. N /\ 2 - 1 = 1  OBVIOUS
        <4>2. Next_(len, code, K[2-1], K[2])  BY ONLY <1>2, <4>1
        <4> QED  BY ONLY <3>1, <4>1, <4>2 DEF Next_
      <3>2. CASE n # 1
        <4>1. n \in 2 .. N  BY <3>2
        <4>2. Next_(len, code, K[n-1], K[n])  BY ONLY <1>2, <4>1
        <4> QED  BY ONLY <4>2 DEF Next_
      <3> QED  BY <3>1, <3>2
    <2>2. len[K[n]] # 0  BY ONLY <2>1
    <2> QED  BY <1>1, <2>2
  <1>5. (\A v \in S : pair[v] \in Nat) /\ \A v, w \in S : pair[v] = pair[w] => v = w  BY <1>1
  <1>6. Ordered(S, pair, f) /\ Cardinality(S) <= N  OBVIOUS
  <1> HIDE DEF S
  <1>7. Cardinality(S) = N /\ \A n \in 1 .. N : f[n] = K[n]
    <2>1. N >= 1  OBVIOUS
    <2> QED  BY <1>1, <1>4, <1>5, <1>6, <2>1, OrderIs
  <1>8. /\ f \in [1 .. N -> S] /\ \A v \in S : \E n \in 1 .. N : f[n] = v
        /\ \A n \in 1 .. N : Cardinality(Lower(S, pair, f[n])) = n - 1
    BY ONLY <1>6, <1>7 DEF Ordered
  <1>9. {f[n] : n \in 1 .. N} = S  BY ONLY <1>8
  <1>10. \A m, n \in 1 .. N : f[m] = f[n] => m = n
    <2> SUFFICES ASSUME NEW m \in 1 .. N, NEW n \in 1 .. N, f[m] = f[n] PROVE m = n  OBVIOUS
    <2>1. m - 1 = n - 1  BY ONLY <1>8, f[m] = f[n], m \in 1 .. N, n \in 1 .. N
    <2> QED  BY ONLY <2>1, m \in 1 .. N, n \in 1 .. N
  <1>11. ASSUME NEW b \in 1 .. 16 PROVE Frequencies(D, len)[b] = Cardinality({n \in 1 .. N : len[f[n]] = b})
    <2> DEFINE I == {n \in 1 .. N : len[f[n]] = b}
               T == {v \in D : len[v] = b}
               g == [n \in I |-> f[n]]
    <2>1. Frequencies(D, len)[b] = Cardinality(T)  BY DEF Frequencies
    <2>2. IsFiniteSet(I)
      <3>1. IsFiniteSet(1 .. N)
        <4>1. 1 \in Int /\ N \in Int  OBVIOUS
        <4> QED  BY ONLY <4>1, FS_Interval
      <3>2. I \in SUBSET (1 .. N)  OBVIOUS
      <3> HIDE DEF I
      <3> QED  BY ONLY <3>1, <3>2, FS_Subset
    <2>3. \A n \in I : f[n] \in T  BY <1>1, <1>8
    <2>4. \A v \in T : \E n \in I : f[n] = v
      <3> TAKE v \in T
      <3>1. v \in D /\ len[v] = b /\ len[v] # 0  OBVIOUS
      <3>2. v \in S  BY <1>1, <3>1
      <3>3. PICK n \in 1 .. N : f[n] = v  BY <1>8, <3>2
      <3>4. n \in I  BY <3>1, <3>3
      <3> QED  BY <3>3, <3>4
    <2>5. \A m, n \in I : f[m] = f[n] => m = n  BY <1>10
    <2>6. g \in [I -> T] /\ \A n \in I : g[n] = f[n]
      <3> HIDE DEF I, T
      <3> QED  BY <2>3
    <2> HIDE DEF I, T, g
    <2>7. g \in Bijection(I, T)  BY ONLY <2>4, <2>5, <2>6 DEF Bijection, Injection, Surjection, IsInjective
    <2>8. Cardinality(T) = Cardinality(I)  BY <2>2, <2>7, FS_Bijection DEF ExistsBijection
    <2> QED  BY ONLY <2>1, <2>8 DEF I
  <1>12. code[f[1]] = 0
    <2>1. 1 \in 1 .. N  OBVIOUS
    <2> QED  BY ONLY <1>3, <1>7, <2>1
  <1>13. ASSUME NEW n \in 2 .. N
         PROVE  len[f[n]] >= len[f[n-1]] /\ code[f[n]] = (code[f[n-1]] + 1) * 2^(len[f[n]] - len[f[n-1]])
    <2> DEFINE v == K[n-1]
               w == K[n]
    <2>1. n \in 1 .. N /\ n - 1 \in 1 .. N  OBVIOUS
    <2>2. f[n] = w /\ f[n-1] = v  BY ONLY <1>7, <2>1
    <2>3. Next_(len, code, v, w)  BY ONLY <1>2, n \in 2 .. N
    <2> HIDE DEF v, w
    <2>4. len[v] \in Int /\ len[w] \in Int /\ len[v] <= len[w] /\ code[w] = (code[v] + 1) * 2^(len[w] - len[v])  BY ONLY <2>3 DEF Next_
    <2>5. len[w] >= len[v]  BY ONLY <2>4
    <2> QED  BY ONLY <2>2, <2>4, <2>5
  <1>14. Agreeing(D, len, code, Frequencies(D, len), f, N)  BY ONLY <1>9, <1>11, <1>12, <1>13 DEF Agreeing, S
  <1> QED  BY ONLY <1>7, <1>14 DEF S

-----------------------------------------------------------------------------
(* The codes a decoder derives are those of the table. *)

\* The list's pairs grow.
LEMMA PairsGrow ==
  ASSUME NEW len, NEW code, NEW K, NEW N \in Nat, NEW l, NEW o, Chain(len, code, K, N, l, o),
         NEW pair, \A v \in Byte : pair[v] = 256 * len[v] + v, NEW n \in 2 .. N
  PROVE  pair[K[n-1]] < pair[K[n]]
  <1> DEFINE v == K[n-1]
             w == K[n]
  <1>1. n \in 1 .. N /\ n - 1 \in 1 .. N  OBVIOUS
  <1>2. v \in Byte /\ w \in Byte /\ Next_(len, code, v, w)  BY <1>1 DEF Chain
  <1> HIDE DEF v, w
  <1>3. pair[v] = 256 * len[v] + v /\ pair[w] = 256 * len[w] + w  BY <1>2
  <1>4. v \in 0 .. 255 /\ w \in 0 .. 255  BY ONLY <1>2 DEF Byte
  <1>5. len[v] \in 1 .. 16 /\ len[w] \in 1 .. 16 /\ len[v] <= len[w] /\ (len[v] = len[w] => v < w)  BY ONLY <1>2 DEF Next_
  <1> DEFINE a == len[v]
             b == len[w]
  <1> HIDE DEF a, b
  <1>6. 256 * a + v < 256 * b + w
    <2>1. a \in 1 .. 16 /\ b \in 1 .. 16 /\ a <= b /\ (a = b => v < w)  BY ONLY <1>5 DEF a, b
    <2>2. CASE a = b  BY ONLY <1>4, <2>1, <2>2
    <2>3. CASE a < b  BY ONLY <1>4, <2>1, <2>3
    <2> QED  BY ONLY <2>1, <2>2, <2>3
  <1>7. pair[v] < pair[w]  BY ONLY <1>3, <1>6 DEF a, b
  <1> QED  BY ONLY <1>7 DEF v, w

\* 162 symbols of a table have a code: the runs 1 to 14 have none for the size 0.
LEMMA NoCode == \A c \in Tables : \A r \in 1 .. 14 : AC_len(c, 16 * r) = 0
  <1> TAKE c \in Tables
  <1> TAKE r \in 1 .. 14
  <1>1. \A k \in 2 .. 15 : AC_len_[1][k][1] = 0  BY DEF AC_len_
  <1>2. \A k \in 2 .. 15 : AC_len_[2][k][1] = 0  BY DEF AC_len_
  <1>3. (16 * r) % 16 = 0 /\ (16 * r) \div 16 = r  OBVIOUS
  <1>4. r + 1 \in 2 .. 15 /\ (c + 1 = 1 \/ c + 1 = 2)  BY DEF Tables
  <1>5. AC_len_[c + 1][r + 1][1] = 0  BY ONLY <1>1, <1>2, <1>4
  <1>6. 0 + 1 = 1 /\ ~(0 > 10)  OBVIOUS
  <1> QED  BY ONLY <1>3, <1>5, <1>6 DEF AC_len

\* A list of all coded symbols is as long as the header says there are codes.
LEMMA SymbolsAre162 ==
  ASSUME NEW S \in SUBSET {v \in 0 .. 255 : v % 16 <= 10}, \A r \in 1 .. 14 : 16 * r \notin S
  PROVE  Cardinality(S) <= 162
  <1> DEFINE T == 0 .. 161
             g(q, r) == IF q = 0 THEN r ELSE IF q = 15 THEN 151 + r ELSE 10 * q + r
             f == [v \in S |-> g(v \div 16, v % 16)]
  <1>1. IsFiniteSet(T) /\ Cardinality(T) = 162
    <2> DEFINE k == 161
    <2>1. k \in Nat /\ k + 1 = 162  OBVIOUS
    <2>2. T = 0 .. k  OBVIOUS
    <2> HIDE DEF k, T
    <2>3. IsFiniteSet(0 .. k) /\ Cardinality(0 .. k) = k + 1  BY ONLY <2>1, UpTo
    <2> QED  BY ONLY <2>1, <2>2, <2>3
  <1>2. IsFiniteSet(S)  BY FewSymbols
  <1>3. ASSUME NEW v \in S
        PROVE  /\ v \div 16 \in 0 .. 15 /\ v % 16 \in 0 .. 10 /\ v = 16 * (v \div 16) + (v % 16)
               /\ (v \div 16 \in 1 .. 14 => v % 16 # 0)
    <2> DEFINE q == v \div 16
               r == v % 16
    <2>1. q \in 0 .. 15 /\ r \in 0 .. 10 /\ v = 16 * q + r  OBVIOUS
    <2>2. ASSUME q \in 1 .. 14 PROVE r # 0
      <3>1. 16 * q \notin S  BY <2>2
      <3>2. r = 0 => v = 16 * q  BY <2>1
      <3> QED  BY <3>1, <3>2
    <2> QED  BY <2>1, <2>2
  <1>4. ASSUME NEW v \in S PROVE f[v] = g(v \div 16, v % 16) /\ f[v] \in T
    <2> DEFINE q == v \div 16
               r == v % 16
    <2>1. q \in 0 .. 15 /\ r \in 0 .. 10  BY <1>3
    <2>2. f[v] = IF q = 0 THEN r ELSE IF q = 15 THEN 151 + r ELSE 10 * q + r
      <3> HIDE DEF T
      <3> QED  OBVIOUS
    <2> HIDE DEF q, r
    <2>3. (IF q = 0 THEN r ELSE IF q = 15 THEN 151 + r ELSE 10 * q + r) \in T  BY ONLY <2>1
    <2>4. f[v] = g(q, r) /\ g(q, r) \in T  BY ONLY <2>2, <2>3
    <2> QED  BY ONLY <2>4 DEF q, r
  <1>5. f \in [S -> T]  BY <1>4
  <1>6. ASSUME NEW v \in S, NEW w \in S, f[v] = f[w] PROVE v = w
    <2> DEFINE q == v \div 16
               r == v % 16
               s == w \div 16
               t == w % 16
    <2>1. q \in 0 .. 15 /\ r \in 0 .. 10 /\ v = 16 * q + r /\ (q \in 1 .. 14 => r # 0)  BY <1>3
    <2>2. s \in 0 .. 15 /\ t \in 0 .. 10 /\ w = 16 * s + t /\ (s \in 1 .. 14 => t # 0)  BY <1>3
    <2>3. (IF q = 0 THEN r ELSE IF q = 15 THEN 151 + r ELSE 10 * q + r) = (IF s = 0 THEN t ELSE IF s = 15 THEN 151 + t ELSE 10 * s + t)
      <3>1. f[v] = g(q, r) /\ f[w] = g(s, t)  BY <1>4
      <3>2. g(q, r) = g(s, t)
        <4> HIDE DEF f, g, q, r, s, t
        <4> QED  BY ONLY <1>6, <3>1
      <3> QED  BY ONLY <3>2
    <2> HIDE DEF q, r, s, t
    <2>4. q = s /\ r = t  BY ONLY <2>1, <2>2, <2>3
    <2> QED  BY ONLY <2>1, <2>2, <2>4
  <1>7. f \in Injection(S, T)
    <2> HIDE DEF f, T
    <2> QED  BY <1>5, <1>6 DEF Injection, IsInjective
  <1> HIDE DEF f, T
  <1>8. Cardinality(S) <= Cardinality(T)  BY <1>1, <1>2, <1>7, FS_Injection
  <1> QED  BY ONLY <1>1, <1>8

ACList(c) == IF c = 0 THEN LumaOrder ELSE ChromaOrder

\* That for the AC tables.
LEMMA ACAgrees ==
  ASSUME NEW c \in Tables
  PROVE  Cardinality(AC_coded[c]) = 162 /\ Agreeing(Byte, ACLen(c), ACCode(c), AC_freq[c], AC_values[c], 162)
  <1> DEFINE len == ACLen(c)
             code == ACCode(c)
             pair == ACpair[c]
             K == ACList(c)
             S == Coded(Byte, len)
             N == 162
  <1>1. /\ AC_freq[c] = Frequencies(Byte, len) /\ AC_coded[c] = S
        /\ Ordered(S, pair, AC_values[c])
    BY ACTableIs DEF Byte
  <1>2. len \in [Byte -> 0 .. 16]  BY ACLengths DEF ACLen, Byte
  <1>3. \A v \in Byte : pair[v] = 256 * len[v] + v /\ len[v] \in 0 .. 16
    <2> TAKE v \in Byte
    <2>1. len[v] = AC_len(c, v) /\ pair[v] = 256 * AC_len(c, v) + v  BY DEF ACLen, ACpair, Byte
    <2> QED  BY <1>2, <2>1
  <1>4. \E l, o : Chain(len, code, K, N, l, o)
    <2>1. c = 0 \/ c = 1  BY DEF Tables
    <2>2. ASSUME c = 0 PROVE Chain(len, code, K, 162, 16, 65372)  BY <2>2, LumaChain DEF ACList
    <2>3. ASSUME c = 1 PROVE Chain(len, code, K, 162, 16, 65372)  BY <2>3, ChromaChain DEF ACList
    <2> HIDE DEF len, code, K
    <2> QED  BY ONLY <2>1, <2>2, <2>3 DEF N
  <1>5. Byte \in SUBSET Byte /\ IsFiniteSet(Byte)
    <2>1. 255 \in Nat  OBVIOUS
    <2>2. IsFiniteSet(0 .. 255)  BY ONLY <2>1, UpTo
    <2> QED  BY ONLY <2>2 DEF Byte
  <1>6. Cardinality(S) <= N
    <2>1. S \in SUBSET {v \in 0 .. 255 : v % 16 <= 10}  BY CodedAreSmall DEF Byte
    <2>2. ASSUME NEW r \in 1 .. 14 PROVE 16 * r \notin S
      <3>1. AC_len(c, 16 * r) = 0 /\ 16 * r \in 0 .. 255  BY NoCode
      <3>2. len[16 * r] = 0  BY ONLY <3>1 DEF ACLen
      <3> QED  BY ONLY <3>2 DEF Coded
    <2> HIDE DEF S
    <2> QED  BY <2>1, <2>2, SymbolsAre162
  <1> HIDE DEF len, code, pair, K
  <1>7. (\A v \in Byte : pair[v] \in Nat) /\ \A v, w \in Byte : pair[v] = pair[w] => v = w
    <2>1. ASSUME NEW v \in Byte PROVE pair[v] \in Nat
      <3>1. len[v] \in 0 .. 16 /\ pair[v] = 256 * len[v] + v /\ v \in Nat  BY <1>3, ByteIs
      <3> QED  BY ONLY <3>1
    <2>2. ASSUME NEW v \in Byte, NEW w \in Byte, pair[v] = pair[w] PROVE v = w
      <3> DEFINE a == len[v]
                 b == len[w]
      <3>1. a \in 0 .. 16 /\ b \in 0 .. 16 /\ 256 * a + v = 256 * b + w  BY <1>3, <2>2
      <3>2. v \in Nat /\ v < 256 /\ w \in Nat /\ w < 256  BY ByteIs
      <3> HIDE DEF a, b
      <3> QED  BY ONLY <3>1, <3>2
    <2> QED  BY <2>1, <2>2
  <1>8. PICK l, o : Chain(len, code, K, N, l, o)  BY <1>4
  <1>9. N \in Nat /\ N >= 2  OBVIOUS
  <1> HIDE DEF N, S
  <1>10. \A n \in 1 .. N : K[n] \in Byte  BY ONLY <1>8 DEF Chain
  <1>11. \A n \in 2 .. N : pair[K[n-1]] < pair[K[n]]  BY ONLY <1>3, <1>8, <1>9, PairsGrow
  <1> DEFINE f == AC_values[c]
  <1> HIDE DEF f
  <1>12. Ordered(Coded(Byte, len), pair, f) /\ Cardinality(Coded(Byte, len)) <= N  BY <1>1, <1>6 DEF S, f
  <1>13. Cardinality(Coded(Byte, len)) = N /\ Agreeing(Byte, len, code, Frequencies(Byte, len), f, N)
    BY ONLY <1>2, <1>5, <1>7, <1>8, <1>9, <1>10, <1>11, <1>12, TableAgrees
  <1> QED  BY ONLY <1>1, <1>13 DEF f, N, S, len, code

\* Only the twelve categories have a DC code.
LEMMA DCCoded == \A c \in Tables : \A i \in 0 .. 15 : DC_len(c, i) # 0 => i \in 0 .. 11
  BY DEF DC_len

\* And for the DC tables.
LEMMA DCAgrees ==
  ASSUME NEW c \in Tables
  PROVE  Cardinality(DC_coded[c]) = 12 /\ Agreeing(0 .. 15, DCLen(c), DCCode(c), DC_freq[c], DC_values[c], 12)
  <1> DEFINE D == 0 .. 15
             len == DCLen(c)
             code == DCCode(c)
             pair == [i \in 0 .. 15 |-> i]
             K == DCOrder
             S == Coded(D, len)
             N == 12
  <1>1. DC_freq[c] = Frequencies(D, len) /\ DC_coded[c] = S /\ Ordered(S, pair, DC_values[c])
    BY DCTableIs
  <1>2. len \in [D -> 0 .. 16]  BY DCLengths DEF DCLen
  <1>3. \E l, o : Chain(len, code, K, N, l, o)
    <2>1. c = 0 \/ c = 1  BY DEF Tables
    <2>2. ASSUME c = 0 PROVE Chain(len, code, K, 12, 9, 498)  BY <2>2, DCLumaChain
    <2>3. ASSUME c = 1 PROVE Chain(len, code, K, 12, 11, 2034)  BY <2>3, DCChromaChain
    <2> HIDE DEF len, code, K
    <2> QED  BY ONLY <2>1, <2>2, <2>3 DEF N
  <1>4. D \in SUBSET Byte /\ IsFiniteSet(D)
    <2>1. 15 \in Nat  OBVIOUS
    <2>2. IsFiniteSet(0 .. 15)  BY ONLY <2>1, UpTo
    <2>3. D \in SUBSET Byte  BY ByteIs
    <2> QED  BY ONLY <2>2, <2>3
  <1>5. Cardinality(S) <= N
    <2> DEFINE k == 11
    <2>1. k \in Nat /\ k + 1 = N  OBVIOUS
    <2>2. S \in SUBSET (0 .. k)  BY DCCoded DEF Coded, DCLen
    <2> HIDE DEF k, S, N
    <2>3. IsFiniteSet(0 .. k) /\ Cardinality(0 .. k) = k + 1  BY ONLY <2>1, UpTo
    <2>4. Cardinality(S) <= Cardinality(0 .. k)  BY ONLY <2>2, <2>3, FS_Subset
    <2> QED  BY ONLY <2>1, <2>3, <2>4
  <1>6. (\A v \in D : pair[v] \in Nat) /\ \A v, w \in D : pair[v] = pair[w] => v = w  OBVIOUS
  <1>7. N \in Nat /\ N >= 2  OBVIOUS
  <1>8. \A n \in 1 .. N : K[n] = n - 1 /\ K[n] \in D /\ pair[K[n]] = n - 1  BY DEF DCOrder
  <1>9. \A n \in 2 .. N : pair[K[n-1]] < pair[K[n]]
    <2> TAKE n \in 2 .. N
    <2>1. n \in 1 .. N /\ n - 1 \in 1 .. N  OBVIOUS
    <2> HIDE DEF pair, K, D
    <2>2. pair[K[n-1]] = (n - 1) - 1 /\ pair[K[n]] = n - 1  BY ONLY <1>8, <2>1
    <2> QED  BY ONLY <2>2, n \in 2 .. N
  <1> DEFINE f == DC_values[c]
  <1> HIDE DEF len, code, pair, K, N, S, D, f
  <1>10. PICK l, o : Chain(len, code, K, N, l, o)  BY <1>3
  <1>11. Ordered(Coded(D, len), pair, f) /\ Cardinality(Coded(D, len)) <= N  BY <1>1, <1>5 DEF S, f
  <1>12. \A n \in 1 .. N : K[n] \in D  BY ONLY <1>8
  <1>13. Cardinality(Coded(D, len)) = N /\ Agreeing(D, len, code, Frequencies(D, len), f, N)
    BY ONLY <1>2, <1>4, <1>6, <1>7, <1>9, <1>10, <1>11, <1>12, TableAgrees
  <1> QED  BY ONLY <1>1, <1>13 DEF f, N, S, D, len, code

-----------------------------------------------------------------------------
(* The quantiser steps: the zigzag order, and the rounding of the reciprocals. *)

\* The order of the standard: by diagonals, each the other way round than the one before.
Diagonal(i) ==
  LET y == i \div 8
      x == i % 8
  IN 16 * (x + y) + (IF (x + y) % 2 = 1 THEN y ELSE 8 - y)

\* A decoder finds the coefficient i where the header has it.
LEMMA DiagonalsInOrder == \A n \in Run(2, 64) : Diagonal(indices[n-1]) < Diagonal(indices[n])
  <1>1. \A n \in Run(2, 20) : Diagonal(indices[n-1]) < Diagonal(indices[n])  BY DEF Run, Diagonal, indices
  <1>2. \A n \in Run(21, 40) : Diagonal(indices[n-1]) < Diagonal(indices[n])  BY DEF Run, Diagonal, indices
  <1>3. \A n \in Run(41, 64) : Diagonal(indices[n-1]) < Diagonal(indices[n])  BY DEF Run, Diagonal, indices
  <1>4. \A n \in Run(2, 64) : n \in Run(2, 20) \/ n \in Run(21, 40) \/ n \in Run(41, 64)  BY DEF Run
  <1> QED  BY ONLY <1>1, <1>2, <1>3, <1>4

\* The encoder's order of coefficients and the order of the steps in the header undo each
\* other.
LEMMA RankOfIndex == \A i \in 0 .. 63 : ZigzagRank[i] + 1 \in 1 .. 64 /\ indices[ZigzagRank[i] + 1] = i
  <1> DEFINE S == 0 .. 63
             pair == [i \in S |-> Diagonal(i)]
             N == 64
  <1>1. IsFiniteSet(S) /\ Cardinality(S) = N
    <2> DEFINE k == 63
    <2>1. k \in Nat /\ k + 1 = N  OBVIOUS
    <2>2. S = 0 .. k  OBVIOUS
    <2> HIDE DEF k, S, N
    <2>3. IsFiniteSet(0 .. k) /\ Cardinality(0 .. k) = k + 1  BY ONLY <2>1, UpTo
    <2> QED  BY ONLY <2>1, <2>2, <2>3
  <1>2. ASSUME NEW i \in S PROVE pair[i] = Diagonal(i) /\ i \div 8 \in 0 .. 7 /\ i % 8 \in 0 .. 7 /\ i = 8 * (i \div 8) + (i % 8)
    OBVIOUS
  <1> HIDE DEF pair
  <1>3. ASSUME NEW i \in S PROVE pair[i] \in Nat
    <2> DEFINE y == i \div 8
               x == i % 8
    <2>1. x \in 0 .. 7 /\ y \in 0 .. 7  BY <1>2
    <2>2. pair[i] = 16 * (x + y) + (IF (x + y) % 2 = 1 THEN y ELSE 8 - y)  BY <1>2 DEF Diagonal
    <2> HIDE DEF x, y
    <2> QED  BY ONLY <2>1, <2>2
  <1>4. ASSUME NEW i \in S, NEW j \in S
        PROVE  (pair[i] = pair[j] => i = j) /\
               (pair[j] < pair[i] <=> LET y == i \div 8
                                          x == i % 8
                                          jy == j \div 8
                                          jx == j % 8
                                      IN \/ jx + jy < x + y
                                         \/ jx + jy = x + y /\ IF (x + y) % 2 = 1 THEN jy < y ELSE jy > y)
    <2> DEFINE y == i \div 8
               x == i % 8
               jy == j \div 8
               jx == j % 8
               u == x + y
               v == jx + jy
               a == IF u % 2 = 1 THEN y ELSE 8 - y
               b == IF v % 2 = 1 THEN jy ELSE 8 - jy
    <2>1. x \in 0 .. 7 /\ y \in 0 .. 7 /\ i = 8 * y + x  BY <1>2
    <2>2. jx \in 0 .. 7 /\ jy \in 0 .. 7 /\ j = 8 * jy + jx  BY <1>2
    <2>3. pair[i] = 16 * u + a /\ pair[j] = 16 * v + b  BY <1>2 DEF Diagonal
    <2> HIDE DEF x, y, jx, jy
    <2>4. u \in 0 .. 14 /\ v \in 0 .. 14 /\ a \in 0 .. 8 /\ b \in 0 .. 8  BY ONLY <2>1, <2>2
    <2>5. (u = v /\ a = b) => i = j  BY ONLY <2>1, <2>2
    <2>6. u = v => (b < a <=> IF u % 2 = 1 THEN jy < y ELSE jy > y)  BY ONLY <2>1, <2>2
    <2> HIDE DEF u, v, a, b
    <2>7. pair[i] = pair[j] => u = v /\ a = b  BY ONLY <2>3, <2>4
    <2>8. pair[j] < pair[i] <=> v < u \/ (v = u /\ b < a)  BY ONLY <2>3, <2>4
    <2>9. (pair[i] = pair[j] => i = j)
          /\ (pair[j] < pair[i] <=> v < u \/ (v = u /\ IF u % 2 = 1 THEN jy < y ELSE jy > y))
      BY ONLY <2>5, <2>6, <2>7, <2>8
    <2> QED  BY ONLY <2>9 DEF u, v, x, y, jx, jy
  <1>5. \A n \in 1 .. N : indices[n] \in S  BY IndicesInBlock
  <1>6. ASSUME NEW n \in 2 .. N PROVE pair[indices[n-1]] < pair[indices[n]]
    <2>1. n \in 1 .. N /\ n - 1 \in 1 .. N /\ n \in Run(2, 64)  BY DEF Run
    <2>2. Diagonal(indices[n-1]) < Diagonal(indices[n])  BY <2>1, DiagonalsInOrder
    <2>3. indices[n-1] \in S /\ indices[n] \in S  BY ONLY <1>5, <2>1
    <2>4. pair[indices[n-1]] = Diagonal(indices[n-1]) /\ pair[indices[n]] = Diagonal(indices[n])  BY <1>2, <2>3
    <2> QED  BY ONLY <2>2, <2>4
  <1>7. ASSUME NEW i \in S PROVE ZigzagRank[i] = Cardinality(Lower(S, pair, i))
    <2>1. ZigzagRank[i] = LET y == i \div 8
                              x == i % 8
                          IN Cardinality({j \in S : LET jy == j \div 8
                                                        jx == j % 8
                                                    IN \/ jx + jy < x + y
                                                       \/ jx + jy = x + y /\ IF (x + y) % 2 = 1 THEN jy < y ELSE jy > y})
      BY DEF ZigzagRank
    <2>2. Lower(S, pair, i) = {j \in S : pair[j] < pair[i]}  BY DEF Lower
    <2> HIDE DEF S
    <2> QED  BY ONLY <1>4, <2>1, <2>2
  <1>8. N \in Nat /\ N >= 1  OBVIOUS
  <1> HIDE DEF N, S
  <1>9. Cardinality(S) <= N  BY ONLY <1>1, <1>8
  <1>10. /\ \A n \in 1 .. N : Cardinality(Lower(S, pair, indices[n])) = n - 1
         /\ \A v \in S : \E n \in 1 .. N : v = indices[n]
    BY <1>1, <1>3, <1>4, <1>5, <1>6, <1>8, <1>9, RankIsPlace
  <1>11. ASSUME NEW i \in S PROVE ZigzagRank[i] + 1 \in 1 .. N /\ indices[ZigzagRank[i] + 1] = i
    <2>1. PICK n \in 1 .. N : i = indices[n]  BY <1>10
    <2>2. ZigzagRank[i] = n - 1  BY <1>7, <1>10, <2>1
    <2>3. ZigzagRank[i] + 1 = n  BY ONLY <1>8, <2>2
    <2> QED  BY ONLY <2>1, <2>3
  <1> QED  BY ONLY <1>11 DEF N, S

\* The steps, and what the encoder multiplies by instead of dividing.
LEMMA StepsAreBytes ==
  ASSUME NEW QF \in 1 .. 100, NEW c \in 1 .. 2, NEW i \in 1 .. 64
  PROVE  stepsize(c, QF, i) \in 1 .. 255
  <1>1. announced_qtable(c, QF) \in [1 .. 64 -> Int]  BY StepsAreNumbers
  <1>2. ASSUME NEW x \in Int PROVE Clamp(x) \in 1 .. 255  BY DEF Clamp
  <1>3. qmatrix[c][i] \in Int
    <2>1. \A k \in 1 .. 64 : qmatrix[1][k] \in Int  BY DEF qmatrix
    <2>2. \A k \in 1 .. 64 : qmatrix[2][k] \in Int  BY DEF qmatrix
    <2>3. c = 1 \/ c = 2  OBVIOUS
    <2> QED  BY ONLY <2>1, <2>2, <2>3, i \in 1 .. 64
  <1>4. CASE QF < 50
    <2> DEFINE m == qmatrix[c][i]
               k == 100 * QF
    <2>1. k \in Nat /\ k >= 1  OBVIOUS
    <2>2. m * 5000 + 50 * QF \in Int  BY <1>3
    <2>3. stepsize(c, QF, i) = Clamp((m * 5000 + 50 * QF) \div k)
      <3>1. ~(QF = 0) /\ QF \in 1 .. 49 /\ ~(QF >= 50)  BY <1>4
      <3> QED  BY ONLY <3>1 DEF stepsize
    <2> HIDE DEF k, m
    <2>4. (m * 5000 + 50 * QF) \div k \in Int  BY <2>1, <2>2
    <2> QED  BY <1>2, <2>3, <2>4
  <1>5. CASE ~(QF < 50)
    <2> DEFINE m == qmatrix[c][i]
               k == 200 - 2 * QF
    <2>1. k \in Int /\ m \in Int  BY <1>3
    <2>2. stepsize(c, QF, i) = Clamp((m * k + 50) \div 100)
      <3>1. ~(QF = 0) /\ ~(QF \in 1 .. 49) /\ QF >= 50  BY <1>5
      <3> QED  BY ONLY <3>1 DEF stepsize
    <2> HIDE DEF k, m
    <2>3. m * k \in Int  BY <2>1
    <2>4. (m * k + 50) \div 100 \in Int  BY <2>3
    <2> QED  BY <1>2, <2>2, <2>4
  <1> QED  BY <1>4, <1>5

\* Only the last coefficient's scale is too large for 16 bits, and only if the step is one.
LEMMA LastStep ==
  ASSUME NEW QF \in 1 .. 99, NEW c \in 1 .. 2
  PROVE  stepsize(c, QF, 64) >= 2
  <1>1. qmatrix[c][64] = 99
    <2>1. qmatrix[1][64] = 99  BY DEF qmatrix
    <2>2. qmatrix[2][64] = 99  BY DEF qmatrix
    <2> QED  BY <2>1, <2>2
  <1>2. ASSUME NEW x \in Int, x >= 2 PROVE Clamp(x) >= 2  BY <1>2 DEF Clamp
  <1>3. CASE QF < 50
    <2>1. stepsize(c, QF, 64) = Clamp((99 * 5000 + 50 * QF) \div (100 * QF))
      <3>1. ~(QF = 0) /\ QF \in 1 .. 49 /\ ~(QF >= 50)  BY <1>3
      <3> QED  BY ONLY <1>1, <3>1 DEF stepsize
    <2> DEFINE y == 99 * 5000 + 50 * QF
               k == 100 * QF
    <2>2. y \in Int /\ k \in Int /\ k > 0 /\ y >= 2 * k  BY <1>3
    <2> HIDE DEF y, k
    <2>3. y \div k \in Int /\ y \div k >= 2
      <3> DEFINE q == y \div k
      <3>1. q \in Int /\ y < k * (q + 1)  BY ONLY <2>2
      <3> HIDE DEF q
      <3>2. ASSUME q <= 1 PROVE FALSE
        <4>1. k * (q + 1) <= k * 2  BY ONLY <2>2, <3>1, <3>2
        <4> QED  BY ONLY <2>2, <3>1, <4>1
      <3> QED  BY <3>1, <3>2 DEF q
    <2>4. stepsize(c, QF, 64) = Clamp(y \div k)  BY ONLY <2>1 DEF y, k
    <2> QED  BY ONLY <1>2, <2>3, <2>4
  <1>4. CASE ~(QF < 50)
    <2>1. stepsize(c, QF, 64) = Clamp((99 * (200 - 2 * QF) + 50) \div 100)
      <3>1. ~(QF = 0) /\ ~(QF \in 1 .. 49) /\ QF >= 50  BY <1>4
      <3> QED  BY ONLY <1>1, <3>1 DEF stepsize
    <2>2. (99 * (200 - 2 * QF) + 50) \div 100 \in Int /\ (99 * (200 - 2 * QF) + 50) \div 100 >= 2  OBVIOUS
    <2> QED  BY <1>2, <2>1, <2>2
  <1> QED  BY <1>3, <1>4

\* 16 bits hold what is small, divided by 2^14.
Small(x) == x \in Nat /\ x < 536862720

\* The scale factors but the last are small enough for the bound on the rounding.
LEMMA ScalesFit == (\A n \in Run(1, 63) : Small(qscale[n])) /\ qscale[64] = 881613923
  <1>1. \A n \in Run(1, 32) : Small(qscale[n])  BY SMT DEF qscale, Run, Small
  <1>2. \A n \in Run(33, 63) : Small(qscale[n])  BY SMT DEF qscale, Run, Small
  <1>3. qscale[64] = 881613923  BY SMT DEF qscale
  <1>4. \A n \in Run(1, 63) : n \in Run(1, 32) \/ n \in Run(33, 63)  BY DEF Run
  <1>5. \A n \in Run(1, 63) : Small(qscale[n])  BY ONLY <1>1, <1>2, <1>4
  <1> QED  BY ONLY <1>3, <1>5, SMT

\* A quotient rounded to the nearest number that 16 bits hold.
Rounded(q, step) == (2 * q + 16384 * step) \div (step * 32768)

\* What a step is off, when it is the rounded scale of its coefficient.
LEMMA RoundedIsNear ==
  ASSUME NEW q \in Nat, NEW step \in Nat, step >= 1, 2 * q + 16384 * step < 32768 * (step * 32768)
  PROVE  LET error == Rounded(q, step) * step * 32768 - 2 * q
         IN wrap16(Rounded(q, step)) = Rounded(q, step) /\ -error <= step * 16384 /\ error <= step * 16384
  <1> DEFINE unit == step * 32768
             x == 2 * q + 16384 * step
             r == x \div unit
             error == r * step * 32768 - 2 * q
  <1>1. unit \in Nat /\ unit > 0 /\ x \in Nat  OBVIOUS
  <1>2. r \in Int /\ unit * r <= x /\ x < unit * r + unit
    <2> HIDE DEF unit, x
    <2>1. x = unit * (x \div unit) + (x % unit) /\ x % unit \in 0 .. unit - 1 /\ x \div unit \in Int  BY ONLY <1>1
    <2>2. r = x \div unit  OBVIOUS
    <2> HIDE DEF r
    <2>3. x % unit \in Int /\ x % unit < unit /\ x % unit >= 0  BY ONLY <1>1, <2>1
    <2> QED  BY ONLY <1>1, <2>1, <2>2, <2>3
  <1> HIDE DEF r
  <1>3. x < 32768 * unit  OBVIOUS
  <1>4. r \in Int /\ r >= 0 /\ r < 32768
    <2> HIDE DEF unit, x
    <2>1. ASSUME r >= 32768 PROVE FALSE
      <3>1. unit * r >= unit * 32768  BY ONLY <1>1, <1>2, <2>1
      <3> QED  BY ONLY <1>1, <1>2, <1>3, <3>1
    <2>2. ASSUME r < 0 PROVE FALSE
      <3>1. r + 1 <= 0  BY ONLY <1>2, <2>2
      <3>2. unit * (r + 1) <= 0  BY ONLY <1>1, <1>2, <3>1
      <3>3. unit * r + unit = unit * (r + 1)  BY ONLY <1>1, <1>2
      <3> QED  BY ONLY <1>1, <1>2, <3>2, <3>3
    <2>3. r \in Int  BY ONLY <1>2
    <2> QED  BY ONLY <2>1, <2>2, <2>3
  <1>5. wrap16(r) = r
    <2>1. (r + 32768) % 65536 = r + 32768  BY ONLY <1>4
    <2>2. (r + 32768) - 32768 = r  BY ONLY <1>4
    <2> QED  BY ONLY <2>1, <2>2 DEF wrap16
  <1>6. r * step * 32768 = unit * r  BY ONLY <1>2, step \in Nat
  <1>7. -error <= step * 16384 /\ error <= step * 16384
    <2> DEFINE p == unit * r
    <2>1. p \in Int /\ p <= 2 * q + 16384 * step /\ 2 * q + 16384 * step < p + step * 32768  BY ONLY <1>1, <1>2
    <2>2. error = p - 2 * q  BY ONLY <1>6
    <2> HIDE DEF p, error
    <2> QED  BY ONLY q \in Nat, step \in Nat, <2>1, <2>2
  <1> QED  BY ONLY <1>5, <1>7 DEF r, Rounded

\* The encoder multiplies by the reciprocals of the steps it announces, but for the last
\* one of quality 100.
LEMMA ReciprocalIsNear ==
  ASSUME NEW QF \in 1 .. 100, NEW c \in 1 .. 2, NEW n \in 1 .. 64, ~(n = 64 /\ QF = 100)
  PROVE  LET step == stepsize(c, QF, n)
             error == create_scaled_qtable(c, QF)[n] * step * 2^15 - 2 * qscale[n]
         IN -error <= step * 2^14 /\ error <= step * 2^14
  <1> DEFINE step == stepsize(c, QF, n)
             q == qscale[n]
  <1>1. step \in 1 .. 255  BY ONLY QF \in 1 .. 100, c \in 1 .. 2, n \in 1 .. 64, StepsAreBytes, Zenon
  <1>2. (n = 64 /\ q = 881613923) \/ (n # 64 /\ Small(q))
    <2>1. n = 64 \/ (n \in Run(1, 63) /\ n # 64)  BY DEF Run
    <2> QED  BY ONLY <2>1, ScalesFit, SMT
  <1>3. n = 64 => step >= 2
    <2>1. ASSUME n = 64 PROVE step >= 2
      <3>1. QF \in 1 .. 99  BY <2>1
      <3> QED  BY <2>1, <3>1, LastStep
    <2> QED  BY <2>1
  <1>4. 2^15 = 32768 /\ 2^14 = 16384  OBVIOUS
  <1>5. create_scaled_qtable(c, QF)[n] = wrap16((2 * q + (step * 2^15) \div 2) \div (step * 2^15))  BY DEF create_scaled_qtable
  <1> HIDE DEF step, q
  <1>6. step \in Nat /\ step >= 1  BY ONLY <1>1
  <1>7. (step * 32768) \div 2 = 16384 * step  BY ONLY <1>6
  <1> DEFINE r == Rounded(q, step)
  <1>8. create_scaled_qtable(c, QF)[n] = wrap16(r)  BY ONLY <1>4, <1>5, <1>7 DEF Rounded
  <1>9. q \in Nat /\ 2 * q + 16384 * step < 32768 * (step * 32768)
    <2>1. CASE n = 64 /\ q = 881613923  BY ONLY <1>3, <1>6, <2>1, SMT
    <2>2. CASE n # 64 /\ Small(q)  BY ONLY <1>6, <2>2, SMT DEF Small
    <2> QED  BY ONLY <1>2, <2>1, <2>2
  <1>10. wrap16(r) = r /\ -(r * step * 32768 - 2 * q) <= step * 16384 /\ r * step * 32768 - 2 * q <= step * 16384
    BY ONLY <1>6, <1>9, RoundedIsNear
  <1> HIDE DEF r
  <1>11. create_scaled_qtable(c, QF)[n] = r  BY ONLY <1>8, <1>10
  <1> QED  BY ONLY <1>4, <1>10, <1>11 DEF step, q

\* The codes a decoder derives from the header are the ones the encoder looks up.
LEMMA ACCodesAgree ==
  ASSUME NEW c \in Tables
  PROVE  CodesAgree(AC_freq[c], AC_values[c], LAMBDA v : AC_len(c, v), LAMBDA v : AC_cwd(c, v))
  <1> DEFINE freq == AC_freq[c]
             f == AC_values[c]
             len == ACLen(c)
             code == ACCode(c)
             D == Byte
             N == 162
             l == [n \in 1 .. Len(f) |-> AC_len(c, f[n])]
  <1>1. Cardinality(AC_coded[c]) = N /\ Agreeing(D, len, code, freq, f, N)  BY ACAgrees
  <1>2. f \in [1 .. N -> D] /\ N \in Nat /\ N >= 1
    <2>1. Ordered(AC_coded[c], ACpair[c], f)  BY ACTableIs
    <2>2. f \in [1 .. Cardinality(AC_coded[c]) -> AC_coded[c]]  BY ONLY <2>1 DEF Ordered
    <2>3. AC_coded[c] \subseteq D  BY ACTableIs DEF Coded, Byte
    <2> HIDE DEF f
    <2>4. f \in [1 .. N -> AC_coded[c]]  BY ONLY <1>1, <2>2
    <2>5. f \in [1 .. N -> D]  BY ONLY <2>3, <2>4
    <2> QED  BY <2>5
  <1>3. \A v \in D : len[v] = AC_len(c, v) /\ code[v] = AC_cwd(c, v)  BY DEF ACLen, ACCode, Byte
  <1>4. Coded(D, len) = {v \in 0 .. 255 : AC_len(c, v) # 0}
    BY <1>3 DEF Coded, Byte
  <1> HIDE DEF freq, f, len, code, N, D
  <1>5. Len(f) = N  BY ONLY <1>2, FunctionIsSeq
  <1>6. \A n \in 1 .. N : f[n] \in D  BY ONLY <1>2
  <1>7. \A n \in 1 .. N : l[n] = len[f[n]] /\ AC_cwd(c, f[n]) = code[f[n]]  BY ONLY <1>3, <1>5, <1>6
  <1> HIDE DEF l
  <1>8. {f[n] : n \in 1 .. Len(f)} = {v \in 0 .. 255 : AC_len(c, v) # 0}
    <2>1. {f[n] : n \in 1 .. N} = Coded(D, len)  BY ONLY <1>1 DEF Agreeing
    <2> QED  BY ONLY <1>4, <1>5, <2>1
  <1>9. \A b \in 1 .. 16 : freq[b] = Cardinality({n \in 1 .. Len(f) : l[n] = b})
    <2> TAKE b \in 1 .. 16
    <2>1. freq[b] = Cardinality({n \in 1 .. N : len[f[n]] = b})  BY ONLY <1>1 DEF Agreeing
    <2>2. {n \in 1 .. N : len[f[n]] = b} = {n \in 1 .. N : l[n] = b}  BY ONLY <1>7
    <2> QED  BY ONLY <1>5, <2>1, <2>2
  <1>10. AC_cwd(c, f[1]) = 0
    <2>1. code[f[1]] = 0  BY ONLY <1>1 DEF Agreeing
    <2>2. 1 \in 1 .. N  BY ONLY <1>2
    <2> QED  BY ONLY <1>7, <2>1, <2>2
  <1>11. \A n \in 2 .. Len(f) : l[n] >= l[n-1] /\ AC_cwd(c, f[n]) = (AC_cwd(c, f[n-1]) + 1) * 2^(l[n] - l[n-1])
    <2> TAKE n \in 2 .. Len(f)
    <2>1. n \in 2 .. N  BY ONLY <1>5
    <2>2. n \in 1 .. N /\ n - 1 \in 1 .. N  BY ONLY <1>2, <2>1
    <2>3. len[f[n]] >= len[f[n-1]] /\ code[f[n]] = (code[f[n-1]] + 1) * 2^(len[f[n]] - len[f[n-1]])
      BY ONLY <1>1, <2>1 DEF Agreeing
    <2>4. l[n] = len[f[n]] /\ AC_cwd(c, f[n]) = code[f[n]]  BY ONLY <1>7, <2>2
    <2>5. l[n-1] = len[f[n-1]] /\ AC_cwd(c, f[n-1]) = code[f[n-1]]  BY ONLY <1>7, <2>2
    <2> QED  BY ONLY <2>3, <2>4, <2>5
  <1> QED  BY ONLY <1>8, <1>9, <1>10, <1>11 DEF CodesAgree, l, freq, f

\* The decoder's codes for the DC table, as the property states it.
LEMMA DCCodesAgree ==
  ASSUME NEW c \in Tables
  PROVE  CodesAgree(DC_freq[c], DC_values[c], LAMBDA v : DC_len(c, v), LAMBDA v : DC_cwd(c, v))
  <1> DEFINE freq == DC_freq[c]
             f == DC_values[c]
             len == DCLen(c)
             code == DCCode(c)
             D == 0 .. 15
             N == 12
             l == [n \in 1 .. Len(f) |-> DC_len(c, f[n])]
  <1>1. Cardinality(DC_coded[c]) = N /\ Agreeing(D, len, code, freq, f, N)  BY DCAgrees
  <1>2. f \in [1 .. N -> D] /\ N \in Nat /\ N >= 1
    <2>1. Ordered(DC_coded[c], [i \in 0 .. 15 |-> i], f)  BY DCTableIs
    <2>2. f \in [1 .. Cardinality(DC_coded[c]) -> DC_coded[c]]  BY ONLY <2>1 DEF Ordered
    <2>3. DC_coded[c] \subseteq D  BY DCTableIs DEF Coded
    <2> HIDE DEF f
    <2>4. f \in [1 .. N -> DC_coded[c]]  BY ONLY <1>1, <2>2
    <2>5. f \in [1 .. N -> D]  BY ONLY <2>3, <2>4
    <2> QED  BY <2>5
  <1>3. \A v \in D : len[v] = DC_len(c, v) /\ code[v] = DC_cwd(c, v)  BY DEF DCLen, DCCode
  <1>4. Coded(D, len) = {v \in 0 .. 255 : DC_len(c, v) # 0}
    <2>1. ASSUME NEW v \in 0 .. 255, DC_len(c, v) # 0 PROVE v \in D
      <3>1. ~(v > 11)  BY ONLY <2>1 DEF DC_len
      <3> QED  BY ONLY <3>1, v \in 0 .. 255
    <2>2. D \subseteq 0 .. 255  OBVIOUS
    <2> HIDE DEF D, len, code
    <2> QED  BY ONLY <1>3, <2>1, <2>2 DEF Coded
  <1> HIDE DEF freq, f, len, code, N, D
  <1>5. Len(f) = N  BY ONLY <1>2, FunctionIsSeq
  <1>6. \A n \in 1 .. N : f[n] \in D  BY ONLY <1>2
  <1>7. \A n \in 1 .. N : l[n] = len[f[n]] /\ DC_cwd(c, f[n]) = code[f[n]]  BY ONLY <1>3, <1>5, <1>6
  <1> HIDE DEF l
  <1>8. {f[n] : n \in 1 .. Len(f)} = {v \in 0 .. 255 : DC_len(c, v) # 0}
    <2>1. {f[n] : n \in 1 .. N} = Coded(D, len)  BY ONLY <1>1 DEF Agreeing
    <2> QED  BY ONLY <1>4, <1>5, <2>1
  <1>9. \A b \in 1 .. 16 : freq[b] = Cardinality({n \in 1 .. Len(f) : l[n] = b})
    <2> TAKE b \in 1 .. 16
    <2>1. freq[b] = Cardinality({n \in 1 .. N : len[f[n]] = b})  BY ONLY <1>1 DEF Agreeing
    <2>2. {n \in 1 .. N : len[f[n]] = b} = {n \in 1 .. N : l[n] = b}  BY ONLY <1>7
    <2> QED  BY ONLY <1>5, <2>1, <2>2
  <1>10. DC_cwd(c, f[1]) = 0
    <2>1. code[f[1]] = 0  BY ONLY <1>1 DEF Agreeing
    <2>2. 1 \in 1 .. N  BY ONLY <1>2
    <2> QED  BY ONLY <1>7, <2>1, <2>2
  <1>11. \A n \in 2 .. Len(f) : l[n] >= l[n-1] /\ DC_cwd(c, f[n]) = (DC_cwd(c, f[n-1]) + 1) * 2^(l[n] - l[n-1])
    <2> TAKE n \in 2 .. Len(f)
    <2>1. n \in 2 .. N  BY ONLY <1>5
    <2>2. n \in 1 .. N /\ n - 1 \in 1 .. N  BY ONLY <1>2, <2>1
    <2>3. len[f[n]] >= len[f[n-1]] /\ code[f[n]] = (code[f[n-1]] + 1) * 2^(len[f[n]] - len[f[n-1]])
      BY ONLY <1>1, <2>1 DEF Agreeing
    <2>4. l[n] = len[f[n]] /\ DC_cwd(c, f[n]) = code[f[n]]  BY ONLY <1>7, <2>2
    <2>5. l[n-1] = len[f[n-1]] /\ DC_cwd(c, f[n-1]) = code[f[n-1]]  BY ONLY <1>7, <2>2
    <2> QED  BY ONLY <2>3, <2>4, <2>5
  <1> QED  BY ONLY <1>8, <1>9, <1>10, <1>11 DEF CodesAgree, l, freq, f

-----------------------------------------------------------------------------
(* What the decoder has at the end of the header, and what it says. *)

\* What has been added is found, and what was there before.
LEMMA Added ==
  ASSUME NEW k, NEW x, NEW f
  PROVE  /\ k \in DOMAIN With(k, x, f) /\ With(k, x, f)[k] = x
         /\ \A j \in DOMAIN f : j \in DOMAIN With(k, x, f) /\ (j # k => With(k, x, f)[j] = f[j])
  BY DEF With

\* The steps of a component are there at the end of the header.
LEMMA StepsThere ==
  ASSUME NEW n \in {1, 3}, NEW QF
  PROVE  /\ StepsFor(n, QF)[0] = Announced(announced_qtable(1, QF))
         /\ n = 3 => StepsFor(n, QF)[1] = Announced(announced_qtable(2, QF))
  <1> DEFINE x == Announced(announced_qtable(1, QF))
             y == Announced(announced_qtable(2, QF))
             e == <<>>
             f == With(0, x, e)
             g == With(1, y, f)
  <1>1. StepsFor(n, QF) = IF n > 1 THEN g ELSE f  BY DEF StepsFor
  <1> HIDE DEF x, y, e
  <1>2. f[0] = x /\ 0 \in DOMAIN f  BY ONLY Added
  <1> HIDE DEF f
  <1>3. g[1] = y /\ g[0] = x
    <2>1. 0 # 1  OBVIOUS
    <2> QED  BY ONLY <1>2, <2>1, Added
  <1> HIDE DEF g
  <1>4. n = 1 \/ (n = 3 /\ n > 1)  OBVIOUS
  <1>5. ~(1 > 1) /\ 1 # 3  OBVIOUS
  <1> QED  BY ONLY <1>1, <1>2, <1>3, <1>4, <1>5 DEF x, y

\* And so are its Huffman tables.
LEMMA TablesThere ==
  ASSUME NEW n \in {1, 3}, NEW c \in Tables, c = 0 \/ n = 3
  PROVE  /\ TablesFor(n)[c] = <<DC_freq[c], DC_values[c]>>
         /\ TablesFor(n)[16 + c] = <<AC_freq[c], AC_values[c]>>
  <1> DEFINE d(k) == <<DC_freq[k], DC_values[k]>>
             a(k) == <<AC_freq[k], AC_values[k]>>
             e == <<>>
             f0 == With(0, d(0), e)
             f == With(16 + 0, a(0), f0)
             g0 == With(1, d(1), f)
             g == With(16 + 1, a(1), g0)
  <1>1. TablesFor(n) = IF n > 1 THEN g ELSE f  BY DEF TablesFor, WithTables
  <1> HIDE DEF d, a, e
  <1>2. 0 # 1 /\ 16 + 0 = 16 /\ 16 + 1 = 17 /\ 0 # 16 /\ 0 # 17 /\ 1 # 16 /\ 1 # 17 /\ 16 # 17  OBVIOUS
  <1>3. f0[0] = d(0) /\ 0 \in DOMAIN f0  BY ONLY Added
  <1> HIDE DEF f0
  <1>4. f[16] = a(0) /\ 16 \in DOMAIN f /\ f[0] = d(0) /\ 0 \in DOMAIN f  BY ONLY <1>2, <1>3, Added
  <1> HIDE DEF f
  <1>5. g0[1] = d(1) /\ 1 \in DOMAIN g0 /\ g0[16] = a(0) /\ 16 \in DOMAIN g0 /\ g0[0] = d(0) /\ 0 \in DOMAIN g0
    BY ONLY <1>2, <1>4, Added
  <1> HIDE DEF g0
  <1>6. g[17] = a(1) /\ g[1] = d(1) /\ g[16] = a(0) /\ g[0] = d(0)  BY ONLY <1>2, <1>5, Added
  <1> HIDE DEF g
  <1>7. n = 1 \/ (n = 3 /\ n > 1)  OBVIOUS
  <1>8. ~(1 > 1) /\ 1 # 3  OBVIOUS
  <1>9. c = 0 \/ (c = 1 /\ n = 3)  BY DEF Tables
  <1>10. CASE c = 0
    <2>1. TablesFor(n)[0] = d(0) /\ TablesFor(n)[16] = a(0)  BY ONLY <1>1, <1>4, <1>6, <1>7, <1>8
    <2> QED  BY ONLY <1>2, <1>10, <2>1 DEF d, a
  <1>11. CASE c = 1 /\ n = 3
    <2>1. TablesFor(n)[1] = d(1) /\ TablesFor(n)[17] = a(1)  BY ONLY <1>1, <1>6, <1>7, <1>8, <1>11
    <2> QED  BY ONLY <1>2, <1>11, <2>1 DEF d, a
  <1> QED  BY ONLY <1>9, <1>10, <1>11

\* A decoder's step of a coefficient is the encoder's.
LEMMA StepFound ==
  ASSUME NEW QF \in 1 .. 100, NEW c \in 1 .. 2, NEW n \in 1 .. 64
  PROVE  Announced(announced_qtable(c, QF))[ZigzagRank[n - 1] + 1] = stepsize(c, QF, n)
  <1> DEFINE i == n - 1
             k == ZigzagRank[i] + 1
             q == announced_qtable(c, QF)
             s == stepsize(c, QF, n)
  <1>1. i \in 0 .. 63 /\ i + 1 = n  OBVIOUS
  <1> HIDE DEF i
  <1>2. k \in 1 .. 64 /\ indices[k] = i  BY ONLY <1>1, RankOfIndex
  <1> HIDE DEF k
  <1>3. q[n] = s  BY ONLY n \in 1 .. 64 DEF announced_qtable
  <1>4. s \in 1 .. 255  BY ONLY QF \in 1 .. 100, c \in 1 .. 2, n \in 1 .. 64, StepsAreBytes, Zenon
  <1> HIDE DEF q, s
  <1>5. Announced(q)[k] = q[indices[k] + 1] % 256  BY ONLY <1>2 DEF Announced
  <1>6. Announced(q)[k] = s % 256  BY ONLY <1>1, <1>2, <1>3, <1>5
  <1>7. s % 256 = s
    <2>1. s \in Nat /\ s < 256  BY ONLY <1>4
    <2> QED  BY ONLY <2>1
  <1> QED  BY ONLY <1>6, <1>7 DEF i, k, q, s

\* The frame, the scan and the interval.
ComponentsAre(comps, n, ycc) ==
  /\ Len(comps) = n
  /\ \A C \in 1 .. n : comps[C] = <<C - 1, YCC_HV(ycc, C > 1), IF C > 1 THEN 1 ELSE 0>>

\* What a decoder reads in the frame header.
LEMMA FrameIs ==
  ASSUME NEW X \in Nat, X < 65536, NEW Y \in Nat, Y < 65536, NEW Nf \in {1, 3}, NEW ycc \in YCC,
         NEW b, FrameBody(b, Y, X, Nf, ycc)
  PROVE  Word(b, 4) = X /\ Word(b, 2) = Y /\ ComponentsAre(Comps(b, Nf), Nf, ycc)
  <1>1. /\ b \in Seq(Byte) /\ Stands(put_word(Y), 1, b) /\ Stands(put_word(X), 3, b)
        /\ \A C \in 1 .. Nf : Stands(Component(C, ycc), 3 + 3 * C, b)
    BY DEF FrameBody
  <1>2. 3 + 1 = 4 /\ 1 + 1 = 2 /\ 1 \in Nat /\ 3 \in Nat /\ 256 * 256 = 65536  OBVIOUS
  <1>3. Word(b, 3 + 1) = X /\ Word(b, 1 + 1) = Y
    <2>1. X < 256 * 256 /\ Y < 256 * 256  BY ONLY <1>2, X < 65536, Y < 65536
    <2> QED  BY ONLY X \in Nat, Y \in Nat, <1>1, <1>2, <2>1, WordAt
  <1>4. Nf \in Nat  OBVIOUS
  <1>5. Len(Comps(b, Nf)) = Nf  BY ONLY <1>4 DEF Comps
  <1>6. ASSUME NEW C \in 1 .. Nf
        PROVE  Comps(b, Nf)[C] = <<C - 1, YCC_HV(ycc, C > 1), IF C > 1 THEN 1 ELSE 0>>
    <2> DEFINE z == Component(C, ycc)
               p == 3 + 3 * C
    <2>1. C \in 1 .. 3 /\ p \in Nat /\ p + 1 = 4 + 3 * C /\ p + 3 = 6 + 3 * C  OBVIOUS
    <2>2. /\ z = <<C - 1, YCC_HV(ycc, C > 1), IF C > 1 THEN 1 ELSE 0>> /\ z \in Seq(Byte) /\ Len(z) = 3
      BY ONLY <2>1, ycc \in YCC, ComponentIs
    <2>3. Stands(z, p, b)  BY ONLY <1>1, C \in 1 .. Nf
    <2>4. Comps(b, Nf)[C] = SubSeq(b, 4 + 3 * C, 6 + 3 * C)  BY ONLY C \in 1 .. Nf DEF Comps
    <2> HIDE DEF z, p
    <2>5. SubSeq(b, p + 1, p + Len(z)) = z  BY ONLY <1>1, <2>1, <2>2, <2>3, StandsIsCut
    <2>6. Comps(b, Nf)[C] = z  BY ONLY <2>1, <2>2, <2>4, <2>5
    <2> QED  BY ONLY <2>2, <2>6
  <1>7. ComponentsAre(Comps(b, Nf), Nf, ycc)  BY ONLY <1>5, <1>6 DEF ComponentsAre
  <1> QED  BY ONLY <1>2, <1>3, <1>7

\* What it reads in the scan header.
LEMMA ScanIs ==
  ASSUME NEW Ns \in {1, 3}, NEW b, ScanBody(b, Ns)
  PROVE  /\ Len(Scans(b, Ns)) = Ns
         /\ \A C \in 1 .. Ns : Scans(b, Ns)[C] = <<C - 1, IF C > 1 THEN 17 ELSE 0>>
  <1>1. b \in Seq(Byte) /\ \A C \in 1 .. Ns : Stands(ScanComponent(C), 2 * C - 1, b)  BY DEF ScanBody
  <1>2. Ns \in Nat  OBVIOUS
  <1>3. Len(Scans(b, Ns)) = Ns  BY ONLY <1>2 DEF Scans
  <1>4. ASSUME NEW C \in 1 .. Ns
        PROVE  Scans(b, Ns)[C] = <<C - 1, IF C > 1 THEN 17 ELSE 0>>
    <2> DEFINE z == ScanComponent(C)
               p == 2 * C - 1
    <2>1. C \in 1 .. 3 /\ p \in Nat /\ p + 1 = 2 * C /\ p + 2 = 2 * C + 1  OBVIOUS
    <2>2. z = <<C - 1, IF C > 1 THEN 17 ELSE 0>> /\ z \in Seq(Byte) /\ Len(z) = 2  BY ONLY <2>1, ScanComponentIs
    <2>3. Stands(z, p, b)  BY ONLY <1>1, C \in 1 .. Ns
    <2>4. Scans(b, Ns)[C] = SubSeq(b, 2 * C, 2 * C + 1)  BY ONLY C \in 1 .. Ns DEF Scans
    <2> HIDE DEF z, p
    <2>5. SubSeq(b, p + 1, p + Len(z)) = z  BY ONLY <1>1, <2>1, <2>2, <2>3, StandsIsCut
    <2>6. Scans(b, Ns)[C] = z  BY ONLY <2>1, <2>2, <2>4, <2>5
    <2> QED  BY ONLY <2>2, <2>6
  <1> QED  BY ONLY <1>3, <1>4

\* The restart interval a decoder reads.
LEMMA IntervalIs ==
  ASSUME NEW X \in Nat, X < 65536, NEW ycc \in YCC
  PROVE  IntervalFor(X, ycc, Yes) = Interval(X, ycc) /\ IntervalFor(X, ycc, No) = 0
  <1> DEFINE i == Interval(X, ycc)
             w == put_word(i)
  <1>1. i \in Nat /\ i < 256 * 256
    <2> DEFINE h == 8 * H[ycc]
               m == (X + h - 1) \div h
               v == 16 \div (8 * V[ycc])
    <2>1. H[ycc] \in {1, 2, 4} /\ V[ycc] \in {1, 2}  BY DEF H, V
    <2>2. h \in {8, 16, 32} /\ v \in {1, 2}  BY ONLY <2>1
    <2>3. i = m * v  BY DEF Interval, CeilDiv, DCTSIZE, BUFLINES
    <2> HIDE DEF h, v, i
    <2>4. m \in 0 .. 8192
      <3>5. m = (X + h - 1) \div h  OBVIOUS
      <3>6. X \in Nat /\ X <= 65535  OBVIOUS
      <3> HIDE DEF m
      <3>1. CASE h = 8
        <4> DEFINE d == (X + 8 - 1) \div 8
        <4>1. m = d  BY ONLY <3>5, <3>1, Zenon
        <4>2. d \in 0 .. 8192  BY ONLY <3>6
        <4> HIDE DEF d
        <4> QED  BY ONLY <4>1, <4>2
      <3>2. CASE h = 16
        <4> DEFINE d == (X + 16 - 1) \div 16
        <4>1. m = d  BY ONLY <3>5, <3>2, Zenon
        <4>2. d \in 0 .. 8192  BY ONLY <3>6
        <4> HIDE DEF d
        <4> QED  BY ONLY <4>1, <4>2
      <3>3. CASE h = 32
        <4> DEFINE d == (X + 32 - 1) \div 32
        <4>1. m = d  BY ONLY <3>5, <3>3, Zenon
        <4>2. d \in 0 .. 8192  BY ONLY <3>6
        <4> HIDE DEF d
        <4> QED  BY ONLY <4>1, <4>2
      <3>4. h = 8 \/ h = 16 \/ h = 32  BY ONLY <2>2
      <3> DEFINE Within8192 == m \in 0 .. 8192
      <3>7. (h = 8 => Within8192) /\ (h = 16 => Within8192) /\ (h = 32 => Within8192)  BY ONLY <3>1, <3>2, <3>3
      <3> HIDE DEF Within8192
      <3>8. Within8192  BY ONLY <3>4, <3>7, Zenon
      <3> QED  BY ONLY <3>8 DEF Within8192
    <2> HIDE DEF m
    <2>5. v = 1 \/ v = 2  BY ONLY <2>2
    <2>6. m \in Nat /\ m <= 8192  BY ONLY <2>4
    <2>7. CASE v = 1  BY ONLY <2>3, <2>6, <2>7
    <2>8. CASE v = 2  BY ONLY <2>3, <2>6, <2>8
    <2> QED  BY ONLY <2>5, <2>7, <2>8
  <1>2. IntervalFor(X, ycc, Yes) = Word(w, 1) /\ IntervalFor(X, ycc, No) = 0  BY DEF IntervalFor, Yes, No
  <1> HIDE DEF i
  <1>3. w \in Seq(Byte) /\ Len(w) = 2  BY ONLY <1>1, WordIs
  <1> HIDE DEF w
  <1>4. Stands(w, 0, w)
    <2>1. 0 + Len(w) <= Len(w) /\ \A k \in 1 .. Len(w) : w[0 + k] = w[k]
      <3>1. \A k \in 1 .. Len(w) : 0 + k = k  BY ONLY <1>3
      <3>2. 0 + Len(w) <= Len(w)  BY ONLY <1>3
      <3> QED  BY ONLY <3>1, <3>2
    <2> QED  BY ONLY <2>1 DEF Stands
  <1>5. Word(w, 0 + 1) = i
    <2>1. 0 \in Nat  OBVIOUS
    <2> QED  BY ONLY <1>1, <1>4, <2>1, WordAt DEF w
  <1>6. 0 + 1 = 1  OBVIOUS
  <1> QED  BY ONLY <1>2, <1>5, <1>6 DEF i

\* The fields of a decoder.
LEMMA DecoderGot ==
  ASSUME NEW p, NEW ok, NEW done, NEW sz, NEW comps, NEW scan, NEW interval, NEW steps, NEW huffman,
         NEW d, d = Decoder(p, ok, done, sz, comps, scan, interval, steps, huffman)
  PROVE  /\ d.at = p /\ d.ok = ok /\ d.done = done /\ d.size = sz /\ d.comps = comps /\ d.scan = scan
         /\ d.interval = interval /\ d.steps = steps /\ d.huffman = huffman
  BY DEF Decoder

\* What a decoder has read of an image of X by Y, if the frame has room for the two.
Understands(d, p, X, Y, QF, ycc, reset, n) ==
  /\ d.ok /\ d.done /\ d.at = p /\ d.size = <<X, Y>> /\ Len(d.comps) = n /\ Len(d.scan) = n
  /\ \A C \in 1 .. n : /\ d.comps[C] = <<C - 1, YCC_HV(ycc, C > 1), IF C > 1 THEN 1 ELSE 0>>
                       /\ d.scan[C] = <<C - 1, IF C > 1 THEN 17 ELSE 0>>
  /\ d.interval = (IF reset THEN Interval(X, ycc) ELSE 0)
  /\ d.steps = StepsFor(n, QF) /\ d.huffman = TablesFor(n)

\* A side of an image that the two bytes of a frame header hold.
Side(x) == x \in Nat /\ x < 65536

\* What a decoder has at the end of the header, field by field.
LEMMA AnnouncementIs ==
  ASSUME NEW X, Side(X), NEW Y, Side(Y), NEW QF \in 1 .. 100, NEW ycc \in YCC, NEW reset \in {Yes, No},
         NEW p, NEW d, d = Announcement(p, X, Y, QF, ycc, reset)
  PROVE  Understands(d, p, X, Y, QF, ycc, reset, Channels(ycc))
  <1> DEFINE n == Channels(ycc)
             b == SOFBody(Y, X, n, ycc)
             s == SOSBody(n)
  <1>0. X \in Nat /\ X < 65536 /\ Y \in Nat /\ Y < 65536  BY DEF Side
  <1>1. n \in {1, 3}  BY DEF Channels
  <1>2. d = Decoder(p, Yes, Yes, <<Word(b, 4), Word(b, 2)>>, Comps(b, n), Scans(s, n), IntervalFor(X, ycc, reset),
                    StepsFor(n, QF), TablesFor(n))
    BY DEF Announcement
  <1> HIDE DEF n
  <1>3. FrameBody(b, Y, X, n, ycc)  BY ONLY <1>0, ycc \in YCC, <1>1, SOFIs
  <1>4. ScanBody(s, n)  BY ONLY <1>1, SOSIs
  <1> HIDE DEF b, s
  <1>5. /\ d.at = p /\ d.ok = Yes /\ d.done = Yes /\ d.size = <<Word(b, 4), Word(b, 2)>>
        /\ d.comps = Comps(b, n) /\ d.scan = Scans(s, n) /\ d.interval = IntervalFor(X, ycc, reset)
        /\ d.steps = StepsFor(n, QF) /\ d.huffman = TablesFor(n)
    BY ONLY <1>2, DecoderGot
  <1>6. Word(b, 4) = X /\ Word(b, 2) = Y /\ ComponentsAre(Comps(b, n), n, ycc)
    BY ONLY <1>0, ycc \in YCC, <1>1, <1>3, FrameIs
  <1>7. Len(Scans(s, n)) = n /\ \A C \in 1 .. n : Scans(s, n)[C] = <<C - 1, IF C > 1 THEN 17 ELSE 0>>
    BY ONLY <1>1, <1>4, ScanIs
  <1>8. IntervalFor(X, ycc, reset) = IF reset THEN Interval(X, ycc) ELSE 0
    <2>1. IntervalFor(X, ycc, Yes) = Interval(X, ycc) /\ IntervalFor(X, ycc, No) = 0
      BY ONLY <1>0, ycc \in YCC, IntervalIs
    <2> QED  BY ONLY <2>1, reset \in {Yes, No} DEF Yes, No
  <1>9. d.ok /\ d.done  BY ONLY <1>5 DEF Yes
  <1>10. d.size = <<X, Y>>  BY ONLY <1>5, <1>6
  <1>11. Len(d.comps) = n /\ Len(d.scan) = n  BY ONLY <1>5, <1>6, <1>7 DEF ComponentsAre
  <1>12. \A C \in 1 .. n : /\ d.comps[C] = <<C - 1, YCC_HV(ycc, C > 1), IF C > 1 THEN 1 ELSE 0>>
                           /\ d.scan[C] = <<C - 1, IF C > 1 THEN 17 ELSE 0>>
    BY ONLY <1>5, <1>6, <1>7 DEF ComponentsAre
  <1> QED  BY ONLY <1>5, <1>8, <1>9, <1>10, <1>11, <1>12 DEF Understands, n

\* One component of it: its steps and codes are those the encoder takes.
ComponentRead(d, C, QF) ==
  LET table == IF C = 1 THEN 0 ELSE 1
      steps == d.steps[d.comps[C][3]]
      DC == d.scan[C][2] \div 16
      AC == d.scan[C][2] % 16
  IN /\ d.scan[C][1] = d.comps[C][1] /\ \A B \in 1 .. C - 1 : d.comps[B][1] # d.comps[C][1]
     /\ \A n \in 1 .. 64 : (n = 64 /\ QF = 100) \/
          LET step == steps[ZigzagRank[n - 1] + 1]
              error == create_scaled_qtable(table + 1, QF)[n] * step * 2^15 - 2 * qscale[n]
          IN -error <= step * 2^14 /\ error <= step * 2^14
     /\ CodesAgree(d.huffman[DC][1], d.huffman[DC][2], LAMBDA v : DC_len(table, v), LAMBDA v : DC_cwd(table, v))
     /\ CodesAgree(d.huffman[16 + AC][1], d.huffman[16 + AC][2], LAMBDA v : AC_len(table, v), LAMBDA v : AC_cwd(table, v))

\* It follows from what the decoder has.
LEMMA ComponentUnderstood ==
  ASSUME NEW d, NEW p, NEW X, NEW Y, NEW QF \in 1 .. 100, NEW ycc, NEW reset, NEW N \in {1, 3},
         Understands(d, p, X, Y, QF, ycc, reset, N), NEW C \in 1 .. N
  PROVE  ComponentRead(d, C, QF)
  <1> DEFINE table == IF C = 1 THEN 0 ELSE 1
             steps == d.steps[d.comps[C][3]]
             DC == d.scan[C][2] \div 16
             AC == d.scan[C][2] % 16
  <1>1. /\ \A B \in 1 .. N : /\ d.comps[B] = <<B - 1, YCC_HV(ycc, B > 1), IF B > 1 THEN 1 ELSE 0>>
                             /\ d.scan[B] = <<B - 1, IF B > 1 THEN 17 ELSE 0>>
        /\ d.steps = StepsFor(N, QF) /\ d.huffman = TablesFor(N)
    BY DEF Understands
  <1>2. \A B \in 1 .. N : d.comps[B][1] = B - 1 /\ d.comps[B][3] = (IF B > 1 THEN 1 ELSE 0)
                          /\ d.scan[B][1] = B - 1 /\ d.scan[B][2] = (IF B > 1 THEN 17 ELSE 0)
    BY ONLY <1>1
  <1>3. C \in 1 .. 3 /\ (C = 1 \/ (C > 1 /\ N = 3))  OBVIOUS
  <1>4. table \in Tables /\ (table = 0 \/ N = 3) /\ table + 1 \in 1 .. 2  BY ONLY <1>3 DEF Tables
  <1>5. d.comps[C][3] = table /\ d.scan[C][2] = 17 * table
    <2>1. C = 1 => ~(C > 1) /\ C # 2  OBVIOUS
    <2> QED  BY ONLY <1>2, <1>3, <2>1, C \in 1 .. N
  <1>6. DC = table /\ AC = table
    <2>1. 0 \div 16 = 0 /\ 0 % 16 = 0 /\ 17 \div 16 = 1 /\ 17 % 16 = 1 /\ 17 * 0 = 0 /\ 17 * 1 = 17  OBVIOUS
    <2> QED  BY ONLY <1>5, <2>1
  <1>7. d.scan[C][1] = d.comps[C][1] /\ \A B \in 1 .. C - 1 : d.comps[B][1] # d.comps[C][1]
    <2>1. d.comps[C][1] = C - 1 /\ d.scan[C][1] = C - 1  BY ONLY <1>2, C \in 1 .. N
    <2>2. ASSUME NEW B \in 1 .. C - 1 PROVE d.comps[B][1] # d.comps[C][1]
      <3>1. B \in 1 .. N /\ B - 1 # C - 1  OBVIOUS
      <3> QED  BY ONLY <1>2, <2>1, <3>1
    <2> QED  BY ONLY <2>1, <2>2
  <1>8. steps = Announced(announced_qtable(table + 1, QF))
    <2>1. StepsFor(N, QF)[0] = Announced(announced_qtable(1, QF))
          /\ (N = 3 => StepsFor(N, QF)[1] = Announced(announced_qtable(2, QF)))
      BY StepsThere
    <2>2. steps = StepsFor(N, QF)[table]  BY ONLY <1>1, <1>5
    <2>3. (table = 0 /\ table + 1 = 1) \/ (table = 1 /\ table + 1 = 2 /\ N = 3)  BY ONLY <1>3
    <2> HIDE DEF table, steps
    <2> QED  BY ONLY <2>1, <2>2, <2>3
  <1>9. /\ d.huffman[DC] = <<DC_freq[table], DC_values[table]>>
        /\ d.huffman[16 + AC] = <<AC_freq[table], AC_values[table]>>
    <2> HIDE DEF table, DC, AC
    <2>1. /\ TablesFor(N)[table] = <<DC_freq[table], DC_values[table]>>
          /\ TablesFor(N)[16 + table] = <<AC_freq[table], AC_values[table]>>
      BY ONLY N \in {1, 3}, <1>4, TablesThere
    <2> QED  BY ONLY <1>1, <1>6, <2>1
  <1> HIDE DEF table, steps, DC, AC
  <1>10. ASSUME NEW n \in 1 .. 64, ~(n = 64 /\ QF = 100)
         PROVE  LET step == steps[ZigzagRank[n - 1] + 1]
                    error == create_scaled_qtable(table + 1, QF)[n] * step * 2^15 - 2 * qscale[n]
                IN -error <= step * 2^14 /\ error <= step * 2^14
    <2> DEFINE c == table + 1
               step == stepsize(c, QF, n)
    <2>1. c \in 1 .. 2  BY ONLY <1>4
    <2> HIDE DEF c
    <2>2. steps[ZigzagRank[n - 1] + 1] = step
      <3>1. steps = Announced(announced_qtable(c, QF))  BY ONLY <1>8 DEF c
      <3> QED  BY ONLY QF \in 1 .. 100, n \in 1 .. 64, <2>1, <3>1, StepFound
    <2>3. /\ -(create_scaled_qtable(c, QF)[n] * step * 2^15 - 2 * qscale[n]) <= step * 2^14
          /\ create_scaled_qtable(c, QF)[n] * step * 2^15 - 2 * qscale[n] <= step * 2^14
      BY ONLY QF \in 1 .. 100, n \in 1 .. 64, ~(n = 64 /\ QF = 100), <2>1, ReciprocalIsNear
    <2> HIDE DEF step
    <2> QED  BY ONLY <2>2, <2>3 DEF c
  <1>11. CodesAgree(d.huffman[DC][1], d.huffman[DC][2], LAMBDA v : DC_len(table, v), LAMBDA v : DC_cwd(table, v))
    <2>1. CodesAgree(DC_freq[table], DC_values[table], LAMBDA v : DC_len(table, v), LAMBDA v : DC_cwd(table, v))
      BY ONLY <1>4, DCCodesAgree
    <2>2. d.huffman[DC][1] = DC_freq[table] /\ d.huffman[DC][2] = DC_values[table]  BY ONLY <1>9
    <2> QED  BY ONLY <2>1, <2>2
  <1>12. CodesAgree(d.huffman[16 + AC][1], d.huffman[16 + AC][2], LAMBDA v : AC_len(table, v), LAMBDA v : AC_cwd(table, v))
    <2>1. CodesAgree(AC_freq[table], AC_values[table], LAMBDA v : AC_len(table, v), LAMBDA v : AC_cwd(table, v))
      BY ONLY <1>4, ACCodesAgree
    <2>2. d.huffman[16 + AC][1] = AC_freq[table] /\ d.huffman[16 + AC][2] = AC_values[table]  BY ONLY <1>9
    <2> QED  BY ONLY <2>1, <2>2
  <1> QED  BY ONLY <1>7, <1>10, <1>11, <1>12 DEF ComponentRead, table, steps, DC, AC

\* The luma component's sampling factors, and the interval a decoder works out with them.
SamplingRead(d, ycc, reset, n) ==
  LET HV == IF n = 1 THEN <<1, 1>> ELSE <<d.comps[1][2] \div 16, d.comps[1][2] % 16>>
  IN /\ n = 3 => HV = <<H[ycc], V[ycc]>> /\ d.comps[2][2] = 17 /\ d.comps[3][2] = 17
     /\ d.interval = IF reset THEN CeilDiv(d.size[1], 8 * HV[1]) * (BUFLINES \div (8 * HV[2])) ELSE 0

\* They follow from what it has, too.
LEMMA SamplingUnderstood ==
  ASSUME NEW d, NEW p, NEW X, NEW Y, NEW QF, NEW ycc \in YCC, NEW reset \in BOOLEAN, NEW n, n = Channels(ycc),
         Understands(d, p, X, Y, QF, ycc, reset, n)
  PROVE  SamplingRead(d, ycc, reset, n)
  <1> DEFINE HV == IF n = 1 THEN <<1, 1>> ELSE <<d.comps[1][2] \div 16, d.comps[1][2] % 16>>
             h == H[ycc]
             v == V[ycc]
  <1>1. /\ d.size = <<X, Y>> /\ d.interval = (IF reset THEN Interval(X, ycc) ELSE 0)
        /\ \A C \in 1 .. n : d.comps[C] = <<C - 1, YCC_HV(ycc, C > 1), IF C > 1 THEN 1 ELSE 0>>
    BY DEF Understands
  <1>2. d.size[1] = X  BY ONLY <1>1
  <1>3. h \in {1, 2, 4} /\ v \in {1, 2}  BY DEF H, V
  <1>4. Interval(X, ycc) = CeilDiv(X, 8 * h) * (BUFLINES \div (8 * v))  BY DEF Interval, DCTSIZE
  <1>5. CASE n = 1
    <2>1. ycc \in {"GRAY", "GRAY2"}  BY <1>5 DEF Channels
    <2>2. h = 1 /\ v = 1  BY <2>1 DEF H, V, YCC
    <2>3. HV = <<1, 1>> /\ HV[1] = 1 /\ HV[2] = 1  BY ONLY <1>5
    <2> HIDE DEF HV, h, v
    <2>4. n # 3  BY ONLY <1>5
    <2>5. d.interval = IF reset THEN CeilDiv(d.size[1], 8 * HV[1]) * (BUFLINES \div (8 * HV[2])) ELSE 0
      BY ONLY <1>1, <1>2, <1>4, <2>2, <2>3
    <2> QED  BY ONLY <2>4, <2>5 DEF HV, SamplingRead
  <1>6. CASE n # 1
    <2>1. n = 3 /\ ycc \notin {"GRAY", "GRAY2"}  BY <1>6 DEF Channels
    <2>2. \A C \in 1 .. 3 : d.comps[C][2] = YCC_HV(ycc, C > 1)  BY ONLY <1>1, <2>1
    <2>3. 1 \in 1 .. 3 /\ 2 \in 1 .. 3 /\ 3 \in 1 .. 3 /\ ~(1 > 1) /\ 2 > 1 /\ 3 > 1  OBVIOUS
    <2>4. d.comps[1][2] = 16 * h + v /\ d.comps[2][2] = 17 /\ d.comps[3][2] = 17
      <3>1. d.comps[1][2] = YCC_HV(ycc, 1 > 1) /\ d.comps[2][2] = YCC_HV(ycc, 2 > 1) /\ d.comps[3][2] = YCC_HV(ycc, 3 > 1)
        BY ONLY <2>2, <2>3
      <3>2. YCC_HV(ycc, 1 > 1) = 16 * h + v  BY ONLY <2>3 DEF YCC_HV
      <3>3. YCC_HV(ycc, 2 > 1) = 17 /\ YCC_HV(ycc, 3 > 1) = 17  BY ONLY <2>1, <2>3 DEF YCC_HV
      <3> QED  BY ONLY <3>1, <3>2, <3>3
    <2>5. HV = <<(16 * h + v) \div 16, (16 * h + v) % 16>>  BY ONLY <1>6, <2>4
    <2> HIDE DEF HV, h, v
    <2>6. (16 * h + v) \div 16 = h /\ (16 * h + v) % 16 = v  BY ONLY <1>3
    <2>7. HV = <<h, v>> /\ HV[1] = h /\ HV[2] = v  BY ONLY <2>5, <2>6
    <2>8. d.interval = IF reset THEN CeilDiv(d.size[1], 8 * HV[1]) * (BUFLINES \div (8 * HV[2])) ELSE 0
      BY ONLY <1>1, <1>2, <1>4, <2>7
    <2> QED  BY ONLY <2>4, <2>7, <2>8 DEF HV, h, v, SamplingRead
  <1> QED  BY <1>5, <1>6

\* The header the encoder has made is understood for what the image, the command line and
\* the encoder's tables are.
LEMMA HeaderUnderstands == ArgsInv /\ MainInv /\ StreamInv => HeaderAnnounces
  <1> SUFFICES ASSUME ArgsInv, MainInv, StreamInv, main_pc = "output", width < 65536, height < 65536
               PROVE  HeaderAnnounces
    BY DEF HeaderAnnounces
  <1> DEFINE d == ReadHeader(header)
             nc == Len(d.comps)
             reset == workers > 1
             X == width
             Y == height
             QF == opts.QF
             ycc == YCCtype
             p == Len(header) + 1
  <1>1. X \in Nat /\ Y \in Nat /\ header = ThisHeader  BY DEF StreamInv, Sized
  <1>2. QF \in 1 .. 100 /\ opts.YCCtype \in YCC \ {"GRAY"}  BY ONLY ArgsInv DEF ArgsInv, Settings
  <1>3. workers \in Int  BY DEF MainInv, MainTyped
  <1>4. ycc \in YCC /\ Channels(ycc) = (IF ncomp = 1 \/ opts.YCCtype = "GRAY2" THEN 1 ELSE 3)
        /\ (ycc = opts.YCCtype \/ Channels(ycc) = 1)
    <2>1. "GRAY" \in YCC  BY DEF YCC
    <2>2. CASE ncomp = 1
      <3>1. ycc = "GRAY"  BY <2>2 DEF YCCtype, compute_ncomp_out
      <3> HIDE DEF ycc
      <3> QED  BY ONLY <2>1, <2>2, <3>1 DEF Channels
    <2>3. CASE ncomp # 1
      <3>1. ycc = opts.YCCtype  BY <2>3 DEF YCCtype, compute_ncomp_out
      <3> HIDE DEF ycc
      <3> QED  BY ONLY <1>2, <2>3, <3>1 DEF Channels
    <2> QED  BY <2>2, <2>3
  <1>5. \E r \in {Yes, No} : r = reset /\ header = MainHeader(r)
    <2>1. reset = TRUE \/ reset = FALSE  BY ONLY <1>3
    <2>2. CASE reset = TRUE
      <3>1. header = MainHeader(Yes)  BY ONLY <1>1, <2>2 DEF ThisHeader
      <3> QED  BY ONLY <2>2, <3>1 DEF Yes
    <2>3. CASE reset = FALSE
      <3>1. header = MainHeader(No)  BY ONLY <1>1, <2>3 DEF ThisHeader
      <3> QED  BY ONLY <2>3, <3>1 DEF No
    <2> QED  BY ONLY <2>1, <2>2, <2>3
  <1>6. PICK r \in {Yes, No} : r = reset /\ header = MainHeader(r)  BY ONLY <1>5
  <1>7. d = Announcement(p, X, Y, QF, ycc, r)
    <2> DEFINE z == MainHeader(r)
    <2>1. Sized  BY DEF StreamInv
    <2>2. ReadInFull(z, X, Y, QF, ycc, r)  BY ONLY ArgsInv, r \in {Yes, No}, <2>1, HeaderOfThese
    <2> HIDE DEF z, X, Y, QF, ycc
    <2>3. z \in Seq(Byte)  BY ONLY <2>2 DEF ReadInFull
    <2>4. z \in Seq(Nat) /\ Len(z) \in Nat  BY ONLY <2>3, BytesAreNumbers
    <2>5. Stands(z, 0, z)
      <3>1. \A k \in 1 .. Len(z) : 0 + k = k  BY ONLY <2>4
      <3>2. 0 + Len(z) <= Len(z)  BY ONLY <2>4
      <3> QED  BY ONLY <3>1, <3>2 DEF Stands
    <2>6. ReadHeader(z) = Announcement(Len(z) + 1, X, Y, QF, ycc, r)  BY ONLY <2>2, <2>4, <2>5 DEF ReadInFull
    <2>7. header = z  BY <1>6 DEF z
    <2> QED  BY ONLY <2>6, <2>7
  <1> HIDE DEF d, X, Y, QF, ycc, p
  <1> DEFINE n == Channels(ycc)
  <1>8. QF \in 1 .. 100 /\ ycc \in YCC  BY ONLY <1>2, <1>4
  <1>9. Understands(d, p, X, Y, QF, ycc, r, n)
    <2>1. X < 65536 /\ Y < 65536  BY DEF X, Y
    <2>2. Side(X) /\ Side(Y)  BY ONLY <1>1, <2>1 DEF Side
    <2>3. r \in {Yes, No}  BY ONLY r \in {Yes, No}
    <2>4. QF \in 1 .. 100  BY ONLY <1>8
    <2>5. ycc \in YCC  BY ONLY <1>8
    <2> HIDE DEF n
    <2>6. Understands(d, p, X, Y, QF, ycc, r, Channels(ycc))
      BY ONLY <1>7, <2>2, <2>3, <2>4, <2>5, AnnouncementIs
    <2> QED  BY ONLY <2>6 DEF n
  <1>10. n \in {1, 3} /\ n = Channels(ycc)  BY ONLY <1>4
  <1> HIDE DEF n
  <1>11. SamplingRead(d, ycc, r, n)
    <2>1. r \in BOOLEAN  BY ONLY r \in {Yes, No} DEF Yes, No
    <2> QED  BY ONLY <1>8, <1>9, <1>10, <2>1, SamplingUnderstood
  <1>12. /\ d.ok /\ d.done /\ d.at = p /\ d.size = <<X, Y>> /\ nc = n /\ Len(d.scan) = n
    BY ONLY <1>9 DEF Understands
  <1>13. \A C \in 1 .. nc : ComponentAnnounced(d, C)
    <2> TAKE C \in 1 .. nc
    <2>1. C \in 1 .. n  BY ONLY <1>12, C \in 1 .. nc
    <2>2. ComponentRead(d, C, QF)  BY ONLY <1>8, <1>9, <1>10, <2>1, ComponentUnderstood
    <2> QED  BY ONLY <2>2 DEF ComponentRead, ComponentAnnounced, QF
  <1>14. ImageAnnounced(d)
    <2> DEFINE HV == IF nc = 1 THEN <<1, 1>> ELSE <<d.comps[1][2] \div 16, d.comps[1][2] % 16>>
    <2>1. nc = (IF ncomp = 1 \/ opts.YCCtype = "GRAY2" THEN 1 ELSE 3)  BY ONLY <1>4, <1>10, <1>12
    <2>2. nc = 3 => ycc = opts.YCCtype  BY ONLY <1>4, <1>10, <1>12
    <2>3. SamplingRead(d, ycc, r, nc)  BY ONLY <1>11, <1>12
    <2> HIDE DEF nc
    <2>4. /\ nc = 3 => HV = <<H[ycc], V[ycc]>> /\ d.comps[2][2] = 17 /\ d.comps[3][2] = 17
          /\ d.interval = IF r THEN CeilDiv(d.size[1], 8 * HV[1]) * (BUFLINES \div (8 * HV[2])) ELSE 0
      BY ONLY <2>3 DEF SamplingRead
    <2> HIDE DEF HV
    <2>5. nc = 3 => HV = <<H[opts.YCCtype], V[opts.YCCtype]>> /\ d.comps[2][2] = 17 /\ d.comps[3][2] = 17
      BY ONLY <2>2, <2>4
    <2>6. r <=> ~(workers <= 1)
      <3>1. r = reset  BY ONLY <1>6
      <3>2. (workers > 1) <=> ~(workers <= 1)  BY ONLY <1>3
      <3>3. r <=> reset  BY ONLY <3>1
      <3> QED  BY ONLY <3>2, <3>3
    <2>7. d.interval = IF workers <= 1 THEN 0 ELSE CeilDiv(d.size[1], 8 * HV[1]) * (BUFLINES \div (8 * HV[2]))
      BY ONLY <2>4, <2>6
    <2>8. d.at = Len(header) + 1 /\ d.size = <<width, height>>  BY ONLY <1>12 DEF p, X, Y
    <2>9. Len(d.scan) = nc  BY ONLY <1>12 DEF nc
    <2> QED  BY ONLY <1>12, <2>1, <2>5, <2>7, <2>8, <2>9 DEF ImageAnnounced, HV, nc
  <1> QED  BY ONLY <1>13, <1>14 DEF HeaderAnnounces, d, nc

-----------------------------------------------------------------------------
(* The program. *)

\* The inductive invariant.
JpencInv == ArgsInv /\ HeaderInv /\ MainInv /\ FilesInv /\ StreamInv

LEMMA Invariant == Spec => []JpencInv
  <1>1. Init => JpencInv  BY ArgsInit, HeaderInit, MainInit, FilesInit, StreamInit DEF JpencInv
  <1>2. JpencInv /\ [Next]_vars => JpencInv'  BY ArgsStep, HeaderStep, MainStep, FilesStep, StreamStep DEF JpencInv
  <1> QED  BY <1>1, <1>2, PTL DEF Spec

LEMMA InvTypes == JpencInv => JTypeOK
  <1> SUFFICES ASSUME JpencInv PROVE JTypeOK  OBVIOUS
  <1>1. opts.QF \in 1 .. 100 /\ opts.num_threads \in Nat /\ opts.YCCtype \in YCC \ {"GRAY"} /\ word \in 1 .. Len(argv) + 1
    BY DEF JpencInv, ArgsInv, Settings
  <1>2. duration \in 0 .. (IF warmup THEN WarmupTime ELSE BenchTime + LongestCall)
    <2>1. WarmupTime \in Nat /\ BenchTime \in Nat /\ LongestCall \in Nat  BY JpencAssumption
    <2> QED  BY <2>1 DEF JpencInv, MainInv, MainTyped, ClockInv
  <1>3. ProgramTyped  BY <1>1, <1>2 DEF JpencInv, MainInv, PnmTyped, MainTyped, ProgramTyped
  <1>4. ASSUME NEW n \in 1 .. Len(header) PROVE header[n] \in 0 .. 255
    <2>1. header \in Seq(Byte)  BY DEF JpencInv, StreamInv
    <2>2. header[n] \in Byte  BY ONLY <2>1, n \in 1 .. Len(header), ElementOfSeq
    <2> QED  BY ONLY <2>2 DEF Byte
  <1> QED  BY ONLY <1>3, <1>4 DEF JTypeOK

\* A command line is accepted if and only if every option is one the help names, with a
\* value it can have, and both files are given, and what it is understood to mean is the
\* last value of each option, for command lines of any length and whatever the words
\* are, options in the place of values included (parse_args.hpp:25-124).
THEOREM CommandLineUnderstood == Spec => []ArgumentsUnderstood
  <1>1. JpencInv => ArgumentsUnderstood  BY Understood DEF JpencInv
  <1> QED  BY <1>1, Invariant, PTL

\* A binary image of one byte a sample, comments anywhere between its numbers, is read
\* for what it says, and none is refused, for files of any length and with comments and
\* blanks of any length (pnm.hpp:51-90).
THEOREM HeaderUnderstood == Spec => []PnmRead
  <1>1. JpencInv => PnmRead  BY HeaderRead DEF JpencInv
  <1> QED  BY <1>1, Invariant, PTL

\* The types of all variables: whatever the file, the settings are in their ranges, there
\* is at least one worker and no more than cores, the clock of the benchmark runs no
\* further than one call beyond its time, and every byte of the header fits its place,
\* the numbers of put_word and the quantiser steps of every quality included
\* (main_enc.cpp:20-68, jpgheaders.cpp:8-202).
THEOREM ProgramIsTyped == Spec => []JTypeOK
  <1>1. JpencInv => JTypeOK  BY InvTypes
  <1> QED  BY <1>1, Invariant, PTL

\* A decoder reads the header the encoder writes, up to its last byte, for what it is: the
\* image's size, the components, their sampling factors and tables, the quantiser steps
\* whose reciprocals the encoder multiplies by, for every symbol the code the encoder
\* looks up, and the number of MCUs between two restart markers, for every quality and
\* image of sides two bytes hold (jpgheaders.cpp:8-202, jpegenc.cpp:171-236).
THEOREM HeaderIsUnderstood == Spec => []HeaderAnnounces
  <1>1. JpencInv => HeaderAnnounces  BY HeaderUnderstands DEF JpencInv
  <1> QED  BY <1>1, Invariant, PTL

\* When every fwrite() writes all of its bytes, the output of a run that succeeds is the
\* header, which a decoder reads up to its last byte, each strip once and in order, and
\* EOI, for images of any size, any number of workers and any number of calls of invoke()
\* in a benchmark (main_enc.cpp:33-68, jpegenc.cpp:15-107).
THEOREM OutputIsWhole ==
  ASSUME FullDisk \subseteq {FALSE}
  PROVE  Spec => []OutputWhole
  <1>1. JpencInv => OutputWhole  BY StreamIsWhole DEF JpencInv
  <1> QED  BY <1>1, Invariant, PTL

\* A run that does not succeed leaves every file as it was, one that succeeds all but its
\* output, whatever the files and the command line (main_enc.cpp:20-68).
THEOREM FilesAreKept == Spec => []FilesKept
  <1>1. JpencInv => FilesKept  BY DEF JpencInv, FilesInv
  <1> QED  BY <1>1, Invariant, PTL
=============================================================================
