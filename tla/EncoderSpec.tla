---------------------------- MODULE EncoderSpec -----------------------------
(***************************************************************************)
(* What jpeg_encoder promises its caller, however it goes about it: an     *)
(* invoke() that returns leaves a codestream that decodes to the image,    *)
(* the encoder can be invoked again, get_codestream() hands the codestream *)
(* over, and every call returns.  A call may fail with an exception; what  *)
(* it leaves behind may then spoil the next call that returns, but no      *)
(* later one.                                                              *)
(***************************************************************************)
EXTENDS Codestream

VARIABLES phase,        \* "idle", "encoding", "dying", "dead"
          spoilt,       \* the last call failed
          codestream

specVars == <<phase, spoilt, codestream>>

Init == phase = "idle" /\ ~spoilt /\ codestream = <<>>

Invoke == phase = "idle" /\ phase' = "encoding" /\ UNCHANGED <<spoilt, codestream>>

Return ==
  /\ phase = "encoding"
  /\ phase' = "idle"
  /\ codestream' # <<>>
  /\ spoilt \/ Decodes(codestream')
  /\ spoilt' = FALSE

Fail ==
  /\ phase = "encoding"
  /\ phase' = "idle"
  /\ spoilt' = TRUE
  /\ UNCHANGED codestream

GetCodestream == phase = "idle" /\ codestream' = <<>> /\ UNCHANGED <<phase, spoilt>>

\* The destructor may have threads to wait for, or nothing to do.
Destroy == phase = "idle" /\ phase' \in {"dying", "dead"} /\ UNCHANGED <<spoilt, codestream>>

Destroyed == phase = "dying" /\ phase' = "dead" /\ UNCHANGED <<spoilt, codestream>>

Next == Invoke \/ Return \/ Fail \/ GetCodestream \/ Destroy \/ Destroyed

\* A call that was made returns.  Stated as leads-to rather than as fairness of
\* Return, whose outcome the specification leaves open.
CallsReturn == (phase = "encoding" ~> phase = "idle") /\ (phase = "dying" ~> phase = "dead")

Spec == Init /\ [][Next]_specVars /\ CallsReturn
=============================================================================
