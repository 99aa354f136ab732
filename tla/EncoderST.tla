----------------------------- MODULE EncoderST ------------------------------
(***************************************************************************)
(* The single-threaded encoder (num_workers = 1): one input buffer, one    *)
(* bitstream `enc' for header, strips and EOI, the DC predictors carried   *)
(* from strip to strip, no restart markers.  One action per step of        *)
(* invoke_st() after which an exception could leave it.                    *)
(***************************************************************************)
EXTENDS Codestream

CONSTANTS MaxInvokes,   \* bound on the calls of invoke()
          MaxThrows,    \* bound on the std::bad_alloc met
          ThrowAt       \* the places where one may be met

ASSUME EncoderSTAssumption ==
  /\ MaxInvokes \in Nat
  /\ MaxThrows \in Nat
  /\ ThrowAt \subseteq {"header", "strip", "finalize"}

VARIABLES mpc,         \* where invoke() stands
          cur,         \* s, the strip of the loop
          input,       \* wbufs[0].input: the strip whose rows it holds
          prev_dc,     \* the strip whose last DC values are the predictors
          enc,         \* the items in the bitstream
          torn,        \* enc's bits and tmp are those of an interrupted put_bits
          codestream,  \* the caller's vector
          outcome,     \* how the caller's last call ended
          afterThrow,  \* history: the last call that ended threw
          invokes, throws   \* counters, for the bounds

vars == <<mpc, cur, input, prev_dc, enc, torn, codestream, outcome, afterThrow,
          invokes, throws>>

TypeOK ==
  /\ mpc \in {"idle", "header", "read", "encode", "finalize", "dead"}
  /\ cur \in 0 .. NumStrips
  /\ input \in Strip \cup {NoStrip}
  /\ prev_dc \in Strip \cup {NoStrip}
  /\ enc \in Seq(Item)
  /\ torn \in BOOLEAN
  /\ codestream \in Seq(Item)
  /\ outcome \in {"none", "running", "returned", "threw", "taken"}
  /\ afterThrow \in BOOLEAN
  /\ invokes \in Nat
  /\ throws \in Nat

Init ==
  /\ mpc = "idle"
  /\ cur = 0
  /\ input = NoStrip
  /\ prev_dc = NoStrip
  /\ enc = <<>>
  /\ torn = FALSE
  /\ codestream = <<>>
  /\ outcome = "none"
  /\ afterThrow = FALSE
  /\ invokes = 0
  /\ throws = 0

Invoke ==
  /\ mpc = "idle"
  /\ invokes < MaxInvokes
  /\ invokes' = invokes + 1
  /\ mpc' = "header"
  /\ outcome' = "running"
  /\ UNCHANGED <<cur, input, prev_dc, enc, torn, codestream, afterThrow, throws>>

\* Up to the strip loop: the header is appended to enc, the predictors are zero.
CreateMainheader_keepDC ==   \* mutant: the predictors outlive the call
  /\ mpc = "header"
  /\ enc' = Append(enc, Header(FALSE))
  /\ cur' = 0
  /\ mpc' = "read"
  /\ UNCHANGED <<input, prev_dc, torn, codestream, outcome, afterThrow, invokes, throws>>

CreateMainheader ==
  /\ mpc = "header"
  /\ enc' = Append(enc, Header(FALSE))
  /\ prev_dc' = NoStrip
  /\ cur' = 0
  /\ mpc' = "read"
  /\ UNCHANGED <<input, torn, codestream, outcome, afterThrow, invokes, throws>>

\* enc cannot grow for the header, or prev_dc cannot be allocated: the header is
\* missing, cut short or whole.
CreateMainheaderThrows ==
  /\ mpc = "header"
  /\ "header" \in ThrowAt /\ throws < MaxThrows
  /\ throws' = throws + 1
  /\ enc' \in {enc, Append(enc, Partial(NoStrip)), Append(enc, Header(FALSE))}
  /\ mpc' = "idle"
  /\ outcome' = "threw"
  /\ afterThrow' = TRUE
  /\ UNCHANGED <<cur, input, prev_dc, torn, codestream, invokes>>

ReadStrip ==
  /\ mpc = "read"
  /\ input' = cur
  /\ mpc' = "encode"
  /\ UNCHANGED <<cur, prev_dc, enc, torn, codestream, outcome, afterThrow, invokes, throws>>

\* put_bits does not come to an end when enc cannot grow: bits stays negative, and
\* the strip that is appended next begins with bits nobody can read.
EncodedStrip == IF torn THEN Partial(cur) ELSE Scan(cur, input, prev_dc)

EncodeStrip_neverEnds ==   \* mutant: the loop runs one strip too far
  /\ mpc = "encode"
  /\ enc' = Append(enc, EncodedStrip)
  /\ torn' = FALSE
  /\ prev_dc' = input
  /\ cur' = cur + 1
  /\ mpc' = IF cur' <= NumStrips THEN "read" ELSE "finalize"
  /\ UNCHANGED <<input, codestream, outcome, afterThrow, invokes, throws>>

EncodeStrip ==
  /\ mpc = "encode"
  /\ enc' = Append(enc, EncodedStrip)
  /\ torn' = FALSE
  /\ prev_dc' = input
  /\ cur' = cur + 1
  /\ mpc' = IF cur' < NumStrips THEN "read" ELSE "finalize"
  /\ UNCHANGED <<input, codestream, outcome, afterThrow, invokes, throws>>

\* enc cannot grow: the exception leaves invoke() with the strip half written.
EncodeStripThrows ==
  /\ mpc = "encode"
  /\ "strip" \in ThrowAt /\ throws < MaxThrows
  /\ throws' = throws + 1
  /\ enc' = Append(enc, Partial(cur))
  /\ torn' = TRUE
  /\ mpc' = "idle"
  /\ outcome' = "threw"
  /\ afterThrow' = TRUE
  /\ UNCHANGED <<cur, input, prev_dc, codestream, invokes>>

\* enc.finalize(): EOI, copy to the caller's vector, reset.
Finalize ==
  /\ mpc = "finalize"
  /\ codestream' = Append(enc, EOI)
  /\ enc' = <<>>
  /\ mpc' = "idle"
  /\ outcome' = "returned"
  /\ afterThrow' = FALSE
  /\ UNCHANGED <<cur, input, prev_dc, torn, invokes, throws>>

\* enc cannot grow for the last bits or for EOI, or the caller's vector cannot be
\* resized: enc keeps what it has got, and is not reset.
FinalizeThrows ==
  /\ mpc = "finalize"
  /\ "finalize" \in ThrowAt /\ throws < MaxThrows
  /\ throws' = throws + 1
  /\ \/ enc' = enc /\ torn' \in BOOLEAN
     \/ enc' \in {Append(enc, Partial(NoStrip)), Append(enc, EOI)} /\ torn' = torn
  /\ mpc' = "idle"
  /\ outcome' = "threw"
  /\ afterThrow' = TRUE
  /\ UNCHANGED <<cur, input, prev_dc, codestream, invokes>>

\* get_codestream() moves the vector out, whether or not a call has filled it.
GetCodestream ==
  /\ mpc = "idle"
  /\ codestream' = <<>>
  /\ outcome' = IF outcome = "returned" THEN "taken" ELSE outcome
  /\ UNCHANGED <<mpc, cur, input, prev_dc, enc, torn, afterThrow, invokes, throws>>

\* There is no pool to shut down.
Destroy ==
  /\ mpc = "idle"
  /\ mpc' = "dead"
  /\ UNCHANGED <<cur, input, prev_dc, enc, torn, codestream, outcome, afterThrow, invokes, throws>>

Dead == mpc = "dead" /\ UNCHANGED vars

InCall ==
  \/ CreateMainheader \/ CreateMainheaderThrows \/ ReadStrip
  \/ EncodeStrip \/ EncodeStripThrows \/ Finalize \/ FinalizeThrows

Next == Invoke \/ InCall \/ GetCodestream \/ Destroy \/ Dead

\* The caller's thread runs on while it is inside invoke().
Spec == Init /\ [][Next]_vars /\ WF_vars(InCall)

-----------------------------------------------------------------------------
(* Properties. *)

\* The single-threaded encoder keeps the same promise as the multi-threaded one,
\* liveness included; and when a call throws, what it leaves in enc (a header and
\* strips, half a put_bits, a whole image) spoils the next call that returns but
\* no later one (jpegenc.cpp invoke_st: nothing but finalize() resets enc).
Promise == INSTANCE EncoderSpec WITH
  phase <- CASE mpc = "idle" -> "idle"
             [] mpc = "dead" -> "dead"
             [] OTHER -> "encoding",
  spoilt <- afterThrow

ImplementsPromise == Promise!Spec
=============================================================================
