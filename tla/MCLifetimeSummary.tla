------------------------- MODULE MCLifetimeSummary -------------------------
(***************************************************************************)
(* Instance of LifetimeSummary.                                            *)
(***************************************************************************)
EXTENDS LifetimeSummary
=============================================================================
