----------------------------- MODULE MCEncoder ------------------------------
(* Encoder with interchangeable workers, for the runs that check safety only. *)
EXTENDS Encoder, TLC

WorkerSymmetry == Permutations(Worker)
=============================================================================
