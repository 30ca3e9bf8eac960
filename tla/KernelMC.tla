----------------------------- MODULE KernelMC -----------------------------
(***************************************************************************)
(* The kernel for TLC.  The configurations choose which threads call       *)
(* thread_join; NULL is a model value, so that it differs from the numbers *)
(* of the threads.                                                         *)
(***************************************************************************)
EXTENDS KernelRoundRobin

NobodyJoins == {}
MainJoins   == {Main}
AnyoneJoins == Queued
=============================================================================
