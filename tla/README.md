# Verification of JPEGenc

TLA+ modules, TLC runs and TLAPS proofs for JPEGenc, the JPEG-1 baseline encoder
under `src/`. `PROJECT.json` lists the components, runs, mutants, findings,
hazards and theorems, and maps every definition to the lines it models. The
paths below are relative to `src/`.

## The system

A `jpeg_encoder` is built for one image and invoked any number of times. One call
of `invoke()` goes through the image in strips of 16 rows:

```
 caller ── invoke() ──► producer ──fseek/fread──► image file
                           │  reads strip s into a free worker buffer b
            free_idx ◄─────┤
   (mutex + condition      │ detach_task {s, b}
    variable)              ▼
            ▲         BS::thread_pool: queue ─► workers
            │              colour conversion ─► DCT, quantise ─► Huffman ─► strip_cs[s]
            └── b ─────────┘
 caller ◄── header ++ strip_cs[0] ++ ... ++ strip_cs[n-1] ++ EOI ── after pool->wait()
```

With one worker there is no pool: the same work is done in a loop into a single
bit stream `enc`.

| Component | State it keeps | Operations | What makes it correct |
|---|---|---|---|
| Thread pool (`lib/BS_thread_pool.hpp`) | `tasks`, `tasks_running`, `waiting`, `workers_running`, two condition variables | `detach_task`, `wait`, `worker`, destructor | tasks start first in, first out and run once; `wait` and the destructor return when and only when everything is done; no wakeup is lost |
| Multi-threaded pipeline (`lib/jpegenc.cpp`) | `wbufs`, `free_idx`, `strip_cs`, the caller's vector | `invoke_mt`, its task, `get_codestream`, destructor | one thread at a time touches a buffer or a strip's stream; strips come out in order, complete, with the right restart markers; every call does, not only the first |
| Single-threaded pipeline (`lib/jpegenc.cpp`) | `enc`, `prev_dc`, one buffer | `invoke_st`, `get_codestream` | the same promise without restart markers, DC prediction carried over |
| Bit stream (`lib/bitstream.hpp`) | accumulator `tmp`/`bits`, growing buffer | `put_bits`, `put_byte`, `put_word`, `put_RST`, `get_len`, `reset`, `finalize` | a decoder reads the bits and markers that were put, in order; no byte past the buffer |
| Headers and geometry (`lib/jpgheaders.cpp`, constructor) | sizes, strips, workers, restart interval | constructor, `create_mainheader`, `encode_mcus`' loops | the size and restart interval announced are those coded |
| Image reader (`lib/image_chunk.hpp`) | file position, `expected_pos`, row buffer | `init`, `get_lines_from` | each strip's buffer holds its rows, the last column and the last row repeated past the image |
| Quantiser tables (`lib/qmatrix.hpp`, `jpgheaders.cpp`) | none | `create_scaled_qtable` | the step used is the step announced, and fits its type |
| Block coder (`lib/block_coding*.cpp`) | DC predictors | `encode_block`, `encode_mcus` | what it codes decodes to the quantised block, on every target |
| Colour conversion (`lib/color.cpp`) | none | `rgb2ycbcr_subsample`, `subsample` | samples are the colours' and land in the order `encode_mcus` walks |
| Huffman tables (`lib/huffman_tables.hpp`) | none | `create_DHT` | the codes are those a decoder derives from DHT |
| DCT (`lib/dct.cpp`) | none | `dct2_core` | the exact transform within a bound, no lane overflows, all targets alike |
| Main header (`lib/jpgheaders.cpp`) | none | `create_mainheader` | a decoder that walks the segments finds the size, the tables and the codes the encoder uses |
| Command line (`apps/parse_args.hpp`, `apps/main_enc.cpp`) | settings; the benchmark's clock | `parse_args`, `main` | what the help promises is accepted, and nothing else; the program ends; files are left whole |
| PNM reader (`apps/pnm.hpp`) | the file's position, the number being read | `read_pnm` | the numbers and the image's first byte are found, comments or not |

What is hard here: the order in which tasks are queued, started, finished and
waited for, with notifications sent inside and outside locks; data shared without
a lock because an index is handed round; what a call leaves behind for the next
call; exceptions (`std::bad_alloc`) between two steps, which nobody tests;
bit-packing at every alignment; sizes rounded up in several places that have to
agree; layouts and reorderings written out by hand once per format and once per
vector length; fixed-point arithmetic in 16 bits. There is no persistence and no network, so nothing crashes and recovers.

## The modules

| Module | Models |
|---|---|
| `ThreadPool` | the pool's mechanics: one operator per critical section of `tasks_mutex` or notification |
| `TaskPoolSpec` | what a pool promises, with no mutex in sight |
| `PoolUser` | the pool under an arbitrary single client |
| `Codestream` | codestreams as sequences of items (header, scan of a strip, restart marker, EOI) and when one decodes |
| `EncoderSpec` | what a `jpeg_encoder` promises its caller |
| `Encoder` | `invoke_mt`, the task, the destructor, composed with `ThreadPool` |
| `EncoderST` | `invoke_st` |
| `Bitstream` | `bitstream` and `stream_buf` |
| `BitSink` | what a bit stream promises |
| `Formats` | chroma formats, rounding, the number of workers: what the constructor's arithmetic and the header share |
| `Geometry` | sizes, strips, workers, restart interval and MCU counts |
| `McuLayout` | where each converter of `color.cpp` stores each sample |
| `StripPath` | the pixels' way from the file through `imchunk` and the converters to the blocks `encode_mcus` takes; extends `Geometry` and `McuLayout` |
| `QuantTables` | the steps announced and the reciprocals used |
| `Dct` | `dct2_core`, in lanes of 16 bits and in scalar code |
| `Zigzag` | the reordering of a block, one definition for each target |
| `HuffmanTables` | the code tables, what `create_DHT` tells of them, and the codes a decoder derives from that |
| `Headers` | the main header byte by byte, and a decoder that walks its segments |
| `Arguments` | `parse_args`, one option a step |
| `Pnm` | `read_pnm`, one `fgetc` a step |
| `Jpenc` | `main`: extends `Arguments`, `Pnm` and `Headers`, and takes the encoder's calls from what `EncoderSpec` promises |
| `BlockCoding` | `encode_mcus` and `encode_block`, with the conversion of pixels and the means of subsampled chroma in front; extends `QuantTables`, `Dct`, `Zigzag` and `HuffmanTables` |
| `MC...` | symmetry sets and inputs for TLC |
| `...Proofs` | theorems |

**The pool and the pipeline.** A condition variable is the set of threads blocked
on it; a notification or a spurious wakeup makes a thread runnable, after which
it has to evaluate its predicate again under the mutex. Each step is one critical
section, one notification, or one access to data shared between threads. The
pool's modelled configuration is the one JPEGenc compiles: C++17, no option flags.
`Encoder` has one program counter for the caller's thread (`mpc`), one per worker
in the pool (`wpc`) and one for the worker's progress inside its task (`tpc`). An
input buffer's content is the number of the strip whose rows it holds; a strip's
stream is a sequence of items that record the strip they were laid out for, the
rows they were coded from and the DC predictors they began with, so that a buffer
overwritten too early or a predictor not reset shows in the codestream.

**Exceptions.** `ThrowAt` names where `std::bad_alloc` may be met: in a task (its
predictors, or its stream's growth in the strip or in the restart marker; the pool's
worker swallows it), when the task gives its buffer back (`free_idx.push`), in
`detach_task` (the queue's node) and in the concatenation (the last `get_len()`,
`strip_lens`, `codestream.resize`); with one thread in `create_mainheader`, in the
strip loop and in `finalize`. `MaxThrows` bounds how often. What a stream holds when
it could not grow is open (`CutShort`).

**Destruction.** `Members` is the order in which the members that tasks use and the
pool are declared, and `Gone` those that are destroyed at any time.

**The bit stream.** Numbers are sequences of bits, so that shifts are `SubSeq`; the
free bits of `tmp` keep whatever the code leaves in them. The arithmetic test that
looks for an all-ones byte in a word is modelled as what it computes, the bytes
out of which the addition carries, and not as "there is an all-ones byte". Each
turn of the emitting loops is a step.

**Geometry.** The state is one encoder from its constructor through one call; the
inputs are an image's size, components, chroma format, the threads asked for, the
machine's cores and the build's vector length (`HWY_MAX_BYTES`: 8 in a build without
vectors, whose converters are the scalar ones, else 16, 32 or 64). `encode_mcus` takes
the blocks of a gray image two at a time, so a strip of it is coded in pairs.

**The pixels' way.** `StripPath` adds to `Geometry` what a strip goes through: read,
converted, coded. A row of the input buffer is the place in the file where its
first sample was read, so a strip read from the wrong place, or a row not
replaced, is seen. `McuLayout` describes a converter by the set of octets it
stores: an octet is one vector store, eight samples put at an offset of the MCU
buffer, with the rectangle of pixels whose means they are. Averaging itself is
computed in `BlockCoding`. A file may lack rows at its end (`Short`, `Missing`):
`fread` then leaves the rest of the memory as it was, and which of the buffers the
strip is read into, and so whose rows show through, is open. `MCUsInPlace` compares the octets with what the JPEG standard says
of the order of the blocks in an MCU, and `FusedMirrorsTwoPass` with the two-pass
converters, which the code keeps but no longer calls. The caller may move the
file position between calls (`Positions`).

**The blocks.** A *job* of `BlockCoding` is a build target, a format, a quality and the
data of one strip; it starts at the pixels of its MCUs, at
samples, or at an MCU already quantised, so that each part can be driven through
its extremes without the part before it. Numbers are kept to the width the code
gives them (`wrap16`); the floats of `qmatrix.hpp` are integers over a common
denominator. The lanes of the vector builds are modelled where the code moves them by
hand: the columns loaded and transposed between the transform's two passes
(`LoadColumns`, `Transpose`), the zigzag reordering (`Zigzag`), and the bitmap of
coefficients that are not zero, of which each target makes a 64-bit word in its own
way (`word_128`, `word_256`, `word_512`, `word_scalar`). A block goes DC first, then one coefficient per step, then its end.
`source`, `block` and `dcs` are history for the properties. The decoder in this
module knows the DHT segments' counts and symbols and the standard, not the
encoder's tables. `ClzOfZero` is what `__builtin_clz(0)`, undefined in C++, may
return in the scalar code: with 32 the run passes; a machine on which it is 31
would code a zero DC difference as size 1 (`BlockDecodes` then fails).

**The program.** `Jpenc` has one thread, whose actions are one option, one byte of the
input's header, one call of `invoke()`, one operation on the output. Words and file
names are strings that are compared and never taken apart; `Numbers` and
`OutOfRange` say what `std::stoi` makes of them. A file is a sequence of bytes, the
strips in the codestream one number each, so that the header in front of them can
be read back byte by byte. `Headers` has both sides: `create_mainheader` with its
fields cut to eight and sixteen bits, and a decoder that knows the markers and the
lengths only. The properties compare with definitions of their own: what a command
line means (a word is an option or the value of the one before it), where in a file
the numbers stand, which codes the DHT segments give each symbol.

## The runs

| Run | What it shows | Bounds |
|---|---|---|
| `pool` | the counter is exact, no wakeup is lost, and `PoolUser` implements `TaskPoolSpec`, liveness included | 3 workers, 4 tasks: a task can be queued while others run, sleep, are woken or look at the queue |
| `encoder_safety` | buffers and streams exclusive, strips complete, buffers recycled | 3 workers, 3 buffers, 5 strips, 2 calls: buffers are reused within and across calls |
| `encoder_promise` | every call's codestream decodes; `Encoder` implements `EncoderSpec`, liveness included | 2 workers, 2 buffers, 2 calls, 10 strips: the producer has to wait for a buffer, and the markers' numbers wrap after 8 |
| `encoder_throws` | with two exceptions anywhere, buffers are still exclusive, no task outlives the members it uses, the destructor returns | 2 workers, 2 buffers (so that all can be lost), 3 strips |
| `single_thread` | `EncoderST` implements `EncoderSpec`: what an exception leaves behind spoils the next call that returns and no later one | 4 strips, 6 calls, 2 exceptions |
| `bitstream_packing` | `Bitstream` implements `BitSink`; no overrun | words of three 2-bit bytes, codes of 1 to 3 bits, first buffer of one word, calls until 3 bytes are written: every alignment of code, word and buffer, carries across bytes, and two doublings |
| `strip_path` | header, strips, markers and buffers agree; every strip holds its own rows, padded; every block shows the pixels of its place; the fused converters store what the two-pass ones did | heights 1 to 34 and around 48 (every way to end in a strip, and two strips or three), two to ten widths per format from narrower than one MCU to several, builds without vectors and with vectors of 16 and 32 bytes, 0 to 9 threads, two calls with the file left at three places, some files without their last rows. Left out, because they fail (see Findings): MCUs narrower than a vector, gray images with an odd number of blocks in the last strip in a build without vectors, one component with a format whose MCUs are two blocks high, one component with a width that needs padding (the padding is wrong), and GRAY2 with three components in the scalar build |
| `block_coding` | the bits of every block decode, by the header's tables alone, to the quantised coefficients; those are the exact DCT of the samples within half a step and 2.5; scalar and vector code agree; samples are within 5/4 of the colour, and the means of subsampled chroma within that and their truncation | every run of 0 to 15 zeros with all sizes and signs, each position alone (runs of 16 to 62), DC differences to the limits, for all five targets; samples with the signs of each of the 64 basis functions (the largest each coefficient can become), single impulses, noise, all formats' MCU shapes; qualities 0 to 99; 512 colours, and MCUs of every format in one colour, in scattered ones, and at the extremes |
| `jpenc` | a command line is accepted if and only if the help allows it, and understood; a binary PNM file is read for what it says, comments or not; a decoder finds in the header the image's size, the factors, steps and codes the encoder uses and the right restart interval; files are never left half written by a run that ends; the program ends | every format with 0 to 9 threads, in the benchmark or not, three images; seven qualities; 600 phrases of up to three of 17 words before, behind or instead of the files; 1152 headers with every kind of blank and comment in every gap; a header cut off at each of its bytes; a benchmark of 2 and 3 ticks |
| `task_throw_leaks`, `geometry_narrow`, `quality_100` | the findings below | just enough to reach each |

Workers are symmetric in `encoder_safety` (`WorkerSymmetry`), which checks
invariants only; runs with liveness or refinement use no symmetry. Deadlock is
checked in every run: a dead encoder stutters explicitly, and spurious wakeups keep
a blocked thread's step enabled, so what rules out a system that hangs is the
liveness in the `Promise` properties.

**Fairness.** Each worker's next step is weakly fair, and so is the caller's next
step while it is inside a call: the operating system runs every runnable thread,
and a mutex is held only across single steps of the model. The caller owes no
further calls. Spurious wakeups are possible and never owed. A model that needed
one to make progress would fail. The program's own thread (`jpenc`) is weakly fair
as well; a call of `invoke()` takes at least one tick of the benchmark's clock, and
returns, which is what `encoder_promise` and `single_thread` show.

## Findings

Each of the first three is a run that TLC must find violated.

1. *A task that throws loses its buffer* (`task_throw_leaks`). The index goes back
   to `free_idx` only on the task's normal path (`lib/jpegenc.cpp:140-143`). After
   as many such tasks as workers, `invoke()` waits for ever. Line 44 promises
   buffers "Recycled across strips and across invoke() calls".
2. *Widths that are not a multiple of the vector length* (`geometry_narrow`): all
   MCUs of `rounded_width` are coded, but the header announces `width`. For 4:4:4,
   4:4:0 and grayscale images this goes wrong for half of all widths on every
   build with 16-byte vectors, and for more widths and formats on builds with
   longer ones. Builds without vectors (`HWY_MAX_BYTES` 8) round to whole MCUs.
3. *Quality 100* (`quality_100`): the reciprocal of the last coefficient's step is
   53809 and becomes -11727 in the 16-bit table (`lib/jpgheaders.cpp:195`).

More show in the models and have no run of their own:

- *Rows of one component are padded with the wrong sample*: the loop of
  `lib/image_chunk.hpp:66-70` copies three samples a turn whatever `ncomp` is, so
  every padding sample is the last but two, not the last pixel as lines 42-44 say,
  and two samples are written past the row (`RowsPadded`, with such widths).
- *The number of bytes read is not looked at* (`lib/image_chunk.hpp:57`): the rows a
  short file lacks are those of an earlier strip, which one depends on the
  threads, or uninitialised memory. `StripHoldsItsRows` shows that no other row
  suffers.
- *The command line* (`apps/parse_args.hpp`): an option without its value reads past
  the end of the vector (lines 42, 51, 55, 68, 89), and a number that no `int` holds
  throws `std::out_of_range`, which nobody catches.
- *The PNM header* (`apps/pnm.hpp`): a `#` right behind a digit is read as a digit
  (line 69); characters that are no digits are too; a truncated header gives a
  size of 0 and the program goes on; sizes may come out negative; samples are not
  scaled when the maximum is below 255.
- *Sizes from 65536 on* are cut to 16 bits in the header (`put_word`), while all
  their MCUs are coded; `HeaderAnnounces` is about smaller ones.
- *What `fwrite` and `fclose` return is not looked at* (`apps/main_enc.cpp:64-65`):
  with `FullDisk = {TRUE}` a program that reports success leaves part of a file.
- *The fused 4:2:0 converter* is said to have the "same final values as rgb2ycbcr() +
  subsample_core(YUV420)" (`lib/color.cpp:1140-1142`); for pure blue and pure red it
  has not, as below.
- *`invoke()` returns as if nothing had happened* when a task has thrown: the strip
  is missing or cut short (`Encoder`, `ThrowAt = {"task"}`, `ReturnedDecodes`).
- *An exception before or in the concatenation repeats the strips*: the streams are
  reset only by the loop that copies them, so the next call returns every strip
  twice (`ThrowAt = {"concat"}`). In the single-threaded encoder the next call's
  stream begins with what the failed one left in `enc`. `EncoderSpec` allows for
  this (`spoilt`), and `single_thread` shows that the damage ends there.
  `README.md:118` says without qualification that "calling `invoke()` again
  re-encodes the same image".
- *Grayscale files with the default 4:2:0* (`lib/jpegenc.cpp:179`): the height is
  rounded up for 4:2:0 before the image is found to be gray, so an image of 8 rows
  is coded as one of 16.
- *Gray images in a build without vectors*: `lib/block_coding.cpp:117-126` codes two
  blocks a turn. A last strip of 8 rows with an odd number of blocks, as of an image of
  24 by 8, is coded as one block more than the header announces (`DecoderKeepsUp`).
  Wider vectors round the width to an even number.
- *Pure blue and pure red in the scalar build* (`lib/color.cpp:1345-1346`): chroma
  256 becomes 0 in a byte. The vector converters keep it in 16 bits; their
  two-pass form (line 20) had the same defect, so the comment that the fused code is
  "byte-identical to the previous two-pass code" (lines 671-673) does not hold for
  these two colours.
- *GRAY2 with three components in the scalar build* (`lib/color.cpp:1358`): taken for
  a format with chroma, whose buffers `ncomp_out = 1` leaves out. `GRAY` on the
  command line means GRAY2 (`apps/parse_args.hpp:81`).
- *Quality 0* works as 255 in every step; the command line turns it into 1, the API
  does not.
- *One core*: `include/jpegenc.hpp:35-36` says that two threads or more give
  restart markers; with one core they do not, since the number of workers is
  clamped to the cores. `strip_path` has two cores or more.
- `README.md:112` writes `ycc = 5; // YUV420`; 5 is YUV410 (`lib/ycctype.hpp:3`).

## What is proved

The proofs hold for every number of workers, buffers, strips, tasks and calls,
every size of image and every width of byte and word. They rest only on the named
assumptions on constants (`WorkerAssumption`, `EncoderAssumption` and the like, which
TLC evaluates as well) and on the hypotheses stated in a theorem and explained below.

- `SequenceLemmas` has what the others need about sequences, above all about
  `FlattenSeq`, which is defined by recursion: flattening a concatenation is
  concatenating the flattened parts (`FlattenConcat`). Such facts take induction, and
  no induction theorem of the library can be used with the provers at hand;
  `SetInduction` says the same of a set of numbers instead of a predicate, and follows
  from the well-foundedness of `<`. `FlattenByPrefixes` names the sequence of partial
  results, on which it works.
- `ThreadPoolProofs` has one lemma for each of the pool's operations, under any
  client and for any kind of task: that it keeps the pool's type and
  `RunningCount` (the counter equals the number of busy workers). Type correctness
  alone is not inductive, since `tasks_running` could go below zero; with
  `RunningCount` it is. `BusyStep`, how one worker's step changes the number of
  busy workers, carries the rest.
- `PoolUserProofs`: `PoolTyped`, `PoolCounts` and `NoWakeupLost`. The inductive form
  of the last (`WakeInv`) adds when the pool may be shut down: a worker exits only
  after `wait()` has returned with the queue empty. `PoolKeepsPromise` is the
  refinement of `TaskPoolSpec` without its liveness: each step is mapped to one of
  the abstract pool, which has no mutex, no condition variable and no counter, or to
  none.
- `EncoderProofs`: `TypeCorrect`, `BuffersExclusive` and `NoTaskOutlives`, with any
  exceptions. The invariant `BufferInv` joins the types, the counter, the consistency
  of the control state (who holds a buffer at which program counter) and
  `BufferExclusive`, whose parts say that an index is in one place only: the free
  queue, the task queue, one running task, or the producer's hand. `StripsExclusive`
  assumes that `detach_task` does not throw (if it does, a call can unwind while its
  tasks still run, and the statement is false): the invariant `StripInv` follows each
  strip from "not yet submitted" through the queue and a task to "encoded", and
  `QuietAfterWait` says that `wait()` returns to a quiet pool. `AllRecycled` assumes
  that neither a task, its release of the buffer included, nor `detach_task` throws: each buffer is always in one of its
  four places (`NoneLost`), and between calls only the free queue is left.
  `task_throw_leaks` shows that the assumption is needed.

  Its second part is about what the streams hold: `StripsAreComplete`, that they hold
  every strip once, from its own rows, when they are concatenated; from it, that the
  codestream `invoke()` returns with decodes (`ReturnsDecode` as long as nothing has been
  thrown, `AlwaysReturnsDecode` where nothing can be), restart markers' numbers
  included: the concatenation is written out item by item, and the number of scans
  before each item counted. `EncoderKeepsPromise` is the refinement of `EncoderSpec`
  without its liveness, where nothing is thrown.
- `EncoderSTProofs`: `SingleThreadTyped` and `SingleThreadKeepsPromise`, the same
  refinement for `EncoderST` with any exceptions. Its invariant says what `enc` holds
  at each point of a call, and that it is more than that only after an exception.
- `CodingProofs`, the bit stream: `StreamTyped` and `NeverOverrun`, for every byte and word
  width and every set of codes that fit a word. The one strengthening needed is
  that the buffer is never smaller than its first size, which is why a single
  doubling is enough in `put_qword`. `StreamIsRead` is the refinement of `BitSink`,
  for which there is no fairness to leave out: what a decoder reads is what it reads
  of the buffer, then of the bytes still to be put (`todo`), then of the bits pending
  in the word, and each call adds to the last of the three what it puts. The
  invariant (`StreamInv`) says that the buffer ends between bytes a decoder reads
  whole (`Whole`: no 0xFF at its end waits for a stuffed zero), that the bits read
  fill whole bytes but for the pending ones (`Counted`), that a marker or the end
  finds the word empty (`Phase`) and that nothing follows the end (`NotEnded`).
  Most of the work is `put_qword`: a word without an all-ones byte is copied as it
  is, and the test for one, which looks at carries, never misses one.
- `CodingProofs`, the blocks, for all pixels, formats, qualities, targets and lengths
  of strips (`BlockCodingAssumption` says what a job is: its pixels are octets, and a
  strip that does not start at its pixels has as many blocks of luma and chroma as
  whole MCUs have): `CodingTyped`, `EveryTargetAgrees` and `ColourIsClose`. The
  inductive invariant is `CodingShape` (`CodingHasShape`): the strip is made of whole
  MCUs and `k` stands at one of them (`Underway`), which is why no block outside it is
  reached; the samples are the ones converted, and lie within 128 of zero
  (`AroundZero`). From the last conjunct follows that no sum and no product of the
  transform's passes leaves 16 bits (`LanesSuffice`: a pass makes values at most
  fifteen times as large, which for 2000 is still below 2^15; the first is given 128,
  the second what it returns), so that the vector builds lose nothing; that their lanes are
  loaded and transposed to the scalar code's rows and columns is `VectorTransform`.
  `ColourIsClose` bounds the error of each rounded product and of their sum pixel by
  pixel (`PixelNear`), and the means of subsampled chroma by induction over the pixels
  summed (`SumsNear`). It assumes `NoPureColour`: no pixel is pure red or pure blue, or
  the build is not the scalar one, for which these two are the observation above.
- `StripPathProofs`, for images of any size and files cut off anywhere:
  `StripsHoldTheirRows`, with any number of calls and the file left anywhere between
  them. The invariant (`RowsInv`) says where the reader stands whenever it skips its
  seek: at the strip's first line, or at the file's end when that comes first.
  `RowsArePadded` assumes `PaddingRight`: three components, or nothing to pad; for
  one component the loop copies the wrong pixels (see the observations above).

  Sizes, for every vector length, number of threads and of cores: `BuffersSuffice`: a
  strip's MCUs are the coded MCU rows by the MCUs of the rounded width
  (`MCUsOfStrip`), which is what the buffers are allocated for.
  `MarkersBetweenStrips` assumes two cores (`TwoCores`): every strip but the last adds
  a marker at a count not yet marked. `DecoderStaysInStep` and `MarkersOnInterval`
  assume `AnnouncedIsCoded`, that the size the constructor rounds to for its vectors
  and the requested format is the announced size in whole MCUs, and the blocks of a gray
  image's strips come in pairs; without it the first
  is false (`geometry_narrow`). Their invariants count MCUs in rows (`Counting`) and
  name the markers (`Marking`). All images of the run `strip_path` meet the three
  assumptions.

  Layout, with no assumption: `BlocksInPlace` and `FusedAsTwoPass`. The octets of a
  strip have a closed form, `Luma` and `Chroma`, in which the block's row, the MCU,
  the block in it and the octet's row are four independent numbers. For each of the
  converters, fused, two-pass and scalar, a lemma shows that it stores just these
  octets, whatever loops and offsets it gets there by; the first `CodedMCUs` of them
  are the MCU rows of the strip (`OctetsExpected`). The invariant (`Stored`) says
  that `yuv1` is what the converter has stored for this strip, and not for an earlier
  one. `StripTyped` follows, that the octets lie in the strip included.
- `JpencProofs`, for command lines and files of any length (`ArgumentsAssumption` says
  that the numbers are integers and none is both read and out of range,
  `JpencAssumption` that a command line is a sequence of strings and a file one of
  bytes): `CommandLineUnderstood`, `HeaderUnderstood`, `ProgramIsTyped`,
  `HeaderIsUnderstood`, `OutputIsWhole` and `FilesAreKept`. What the first two
  properties compare the program with, which arguments are options, which bytes are
  comments and what a number's digits are worth, is defined
  by recursive functions; `OptionsAre`, `CommentedIs` and `NumberIs` show by induction
  that the functions exist and satisfy their equations, and only these are used from
  then on. `parse_args()` stands at an option as long as it goes on, has found all
  before it legal, and keeps the last value of each (`ArgsInv`). For `read_pnm()`, three
  runs of digits have a first, a second and a third that do not overlap (`ThreeRuns`,
  `LaidOut`); the invariant (`Reading`) says where in a well-formed header the reader
  stands at each program counter, what is in `val` and that `size` holds the numbers
  read. The clock of the benchmark needs to know that the program starts with the
  warm-up (`ClockInv`), and the files that the disk is untouched until the output is
  opened (`FilesInv`).

  The header is a chain of segments, and each `create_...` a marker, a length and a body
  (`Segment`). For each kind a lemma says what `ReadSegment` makes of it wherever it
  stands in a stream, and `HeaderIsRead` walks the chain for every image size, sampling
  and quality. Two of the lemmas are about more than bytes. `DHTIs`: the symbols come in
  the order of their lengths and then of their values, so that the place of a symbol in
  the list is the number of codes before it (`LumaOrder`, `ChromaOrder` list them, and
  `Vi`'s rank is the place in the list), and the decoder's first codes of each length,
  chained by doubling, are those of the table. `DQTIs`: zigzag is a permutation, so what
  is read at `indices` is the step of that place; the reciprocal the encoder multiplies
  by is that of the step that is announced. `StreamInv` carries the header from the
  constructor through every call of `invoke()` to the file. `OutputIsWhole` has one
  hypothesis more, that `fwrite()` writes all it is given (`FullDisk` \subseteq
  `{FALSE}`), as its run has: the code does not look at what `fwrite()` returns, and
  with a full disk the property is false.

Model-checked only: liveness, all of it (`DestructorReturns`, `Terminates`, and the
liveness half of the three `ImplementsPromise`), since fairness and ENABLED are out of
the prover's reach; of block coding what a decoder makes of the bits (`CodesFit`,
`BlockDecodes`), which folds over a sequence of bits, and how near the reconstructed
samples are (`BlockReconstructed`), which is about sums of 64 products with cosines.

## Not modelled

- What the program prints; numbers in a PNM header that overflow an `int`.
- The pool's features that JPEGenc does not use (pausing, priorities, futures,
  loops, purge, reset).
- I/O errors of `fseek` and of `fread` other than the end of the file, and an end of
  the file inside a row, which is taken to be before that row.
- What a data race would do: the proofs show there is none on buffers and streams
  (`StripExclusive` fails only after `detach_task` has thrown).

## Plan

All parts of the encoder are modelled. Proved are the pool, both pipelines, the bit
stream, the strips' way, the program around them with its header, and of the blocks the
types, the transform and the colours. Next are the codes handed to the bit stream
(`CodesFit`: each has the length given with it, at most 26 bits), which needs tight
bounds on quantised coefficients.
