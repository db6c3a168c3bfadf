------------------------- MODULE MCPublishLifecycle -------------------------
(***************************************************************************)
(* Instances of PublishLifecycle for TLC.                                  *)
(***************************************************************************)
EXTENDS PublishLifecycle, TLC

\* Invocations are interchangeable; not used in a run that checks liveness.
ProcSymmetry == Permutations(Procs)

=============================================================================
