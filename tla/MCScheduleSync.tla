---------------------------- MODULE MCScheduleSync ----------------------------
\* One caller switches a slot of the charger, the other asks for a collection in which
\* there is only the other slot, and in the app one is switched and the other deleted.
EXTENDS ScheduleSync, TLC

CONSTANTS c1, c2, k1, k2

ToggleAndReplace ==
    c1 :> {[kind |-> "toggle", slot |-> k1, to |-> "off"]}
    @@ c2 :> {[kind |-> "replace", slot |-> k2, to |-> "off"]}

SwitchAndDelete == {[slot |-> k1, to |-> "off"], [slot |-> k2, to |-> "gone"]}

BothOn == {[k \in {k1, k2} |-> "on"]}
=============================================================================
