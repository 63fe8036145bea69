---------------------------- MODULE MCAuthRefresh ----------------------------
(***************************************************************************)
(* An instance of AuthRefresh for TLC: two requests answered with 401 and  *)
(* two service calls of the user, with the code's threshold.               *)
(***************************************************************************)
EXTENDS AuthRefresh, TLC

CONSTANTS a1, a2, m1, m2
=============================================================================
