--------------------------- MODULE MCEvalService ----------------------------
(* Instances of EvalService for TLC. *)
EXTENDS EvalService, TLC

PodSymmetry == Permutations(Pods)
=============================================================================
