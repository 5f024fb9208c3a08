----------------------------- MODULE MCJobPipeline -----------------------------
(***************************************************************************)
(* Small instances of JobPipeline.  Reports of different runs are told     *)
(* apart only by their run, so the runs are interchangeable wherever all   *)
(* of them report the same way.                                            *)
(***************************************************************************)
EXTENDS JobPipeline, TLC

RunSymmetry == Permutations(Runs)
================================================================================
