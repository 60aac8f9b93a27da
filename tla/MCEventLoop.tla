---------------------------- MODULE MCEventLoop ----------------------------
(***************************************************************************)
(* EventLoop for TLC.  The threads other than the loop's are               *)
(* interchangeable in the model.                                           *)
(***************************************************************************)
EXTENDS EventLoop, TLC

ThreadSymmetry == Permutations(Thread)
=============================================================================
