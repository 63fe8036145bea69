----------------------------- MODULE ScheduleMirror -----------------------------
(***************************************************************************)
(* What the schedule sync promises its users, without its tasks, locks and *)
(* generations: a copy of the charger's schedule that may lag behind it,   *)
(* and that gives up what an accepted edit says of a slot only for what a  *)
(* read asked for since says.  Reads themselves may lag, so that such a    *)
(* read may still show the slot as it was.  The history variable known     *)
(* says what a slot is by the edits accepted, until the slot is changed    *)
(* otherwise, such a read shows it otherwise, or the sync is switched off. *)
(***************************************************************************)
CONSTANTS
    Slots,      \* slot identifiers
    Readers,    \* the reads that can be under way
    Unknown     \* no accepted edit says what the slot is

VARIABLES
    cloud,      \* the charger's schedule
    cache,      \* the copy
    known,      \* what the slots are by the edits accepted
    tells       \* of each read, the slots with no edit accepted since it was asked for

vars == <<cloud, cache, known, tells>>

Views == [Slots -> {"on", "off", "absent"}]

Agrees(schedule, facts) == \A k \in Slots : facts[k] # Unknown => schedule[k] = facts[k]

Init ==
    /\ cloud \in Views
    /\ cache = [k \in Slots |-> "absent"]
    /\ known = [k \in Slots |-> Unknown]
    /\ tells = [r \in Readers |-> {}]

\* The charger's schedule changes, by an edit whose answer is not there or elsewhere.
Change ==
    /\ cloud' \in Views
    /\ known' = [k \in Slots |-> IF cloud'[k] = cloud[k] THEN known[k] ELSE Unknown]
    /\ UNCHANGED <<cache, tells>>

\* An edit of some slots is accepted; what it asked for is sure where it is so. The
\* reads under way were asked for before.
Accept ==
    \E edited \in SUBSET Slots : \E sure \in SUBSET edited :
        /\ known' = [k \in Slots |-> IF k \in sure THEN cloud[k]
                                     ELSE IF k \in edited THEN Unknown ELSE known[k]]
        /\ cache' \in Views
        /\ Agrees(cache', known')
        /\ tells' = [r \in Readers |-> tells[r] \ edited]
        /\ UNCHANGED cloud

\* A read is asked for.
Ask(r) ==
    /\ tells' = [tells EXCEPT ![r] = Slots]
    /\ UNCHANGED <<cloud, cache, known>>

\* A read brings the copy up to date, as far as it goes: what it shows counts for more
\* than an edit that was accepted before it was asked for, and for less than others.
Answer(r) ==
    /\ cache' \in Views
    /\ known' = [k \in Slots |-> IF k \in tells[r] /\ cache'[k] # known[k]
                                 THEN Unknown ELSE known[k]]
    /\ Agrees(cache', known')
    /\ tells' = [tells EXCEPT ![r] = {}]
    /\ UNCHANGED cloud

\* Reads fail, are cancelled, or come too late.
GiveUp ==
    \E given \in SUBSET Readers :
        /\ tells' = [r \in Readers |-> IF r \in given THEN {} ELSE tells[r]]
        /\ UNCHANGED <<cloud, cache, known>>

\* The sync is switched off.
Drop ==
    /\ cache' = [k \in Slots |-> "absent"]
    /\ known' = [k \in Slots |-> Unknown]
    /\ UNCHANGED <<cloud, tells>>

Next == Change \/ Accept \/ (\E r \in Readers : Ask(r) \/ Answer(r)) \/ GiveUp \/ Drop

Spec == Init /\ [][Next]_vars
=============================================================================
