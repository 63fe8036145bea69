-------------------------- MODULE MCChargingCommands --------------------------
(* Model values and symmetry for the runs of ChargingCommands. *)
EXTENDS ChargingCommands, TLC

CONSTANTS c1, c2, s1, r1, r2

MCCommands == {c1, c2}
MCSetters == {s1}
OneRestart == {r1}
TwoRestarts == {r1, r2}

\* Which call, or which task, makes a command is told apart by nothing else.
Calls == Permutations(MCCommands) \union Permutations(TwoRestarts)
=============================================================================
