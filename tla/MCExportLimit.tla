---------------------------- MODULE MCExportLimit ----------------------------
(***************************************************************************)
(* Instances of ExportLimit for TLC.  Two settings the integration may     *)
(* write; service calls that race each other and the background task.      *)
(***************************************************************************)
EXTENDS ExportLimit, TLC

CONSTANTS c1, c2, off, low

TwoCallers == {c1, c2}
OneCaller == {c1}
TwoSettings == {off, low}
CallSymmetry == Permutations(TwoCallers)
=============================================================================
