-------------------------- MODULE MCControlUpdates --------------------------
(***************************************************************************)
(* Instance of ControlUpdates: two controls of the battery profile, which  *)
(* share a group and hold each other's values,                            *)
(* and the charging control of a charger that may leave the site, whose    *)
(* commands supersede each other.                                          *)
(***************************************************************************)
EXTENDS ControlUpdates

CONSTANTS Profile, Reserve, Charging, Charger

AllKeys == {Profile, Reserve, Charging}

MCFamilies == {{Profile, Reserve}, {Charging}}

MCSerialOf == [k \in Keys |-> IF k = Charging THEN Charger ELSE Site]

MCGroupOf ==
    [k \in Keys |-> IF k = Charging THEN "charging" ELSE "battery_profile"]
=============================================================================
