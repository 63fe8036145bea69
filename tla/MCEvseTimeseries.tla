--------------------------- MODULE MCEvseTimeseries ---------------------------
(***************************************************************************)
(* An instance of EvseTimeseries for TLC: an ordinary refresh of the first *)
(* day and a forced one of the second, two chargers of which one leaves.   *)
(***************************************************************************)
EXTENDS EvseTimeseries

CONSTANTS c1, c2, s1, s2

Overlapping == {<<1, FALSE>>, <<2, TRUE>>}
OneLeaves == {{s1}}
=============================================================================
