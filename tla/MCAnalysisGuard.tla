-------------------------- MODULE MCAnalysisGuard --------------------------
(***************************************************************************)
(* Model-checking instance of AnalysisGuard: fewer slots than analyses, a  *)
(* queue of one.                                                           *)
(***************************************************************************)
EXTENDS AnalysisGuard
=============================================================================
