--------------------------- MODULE ControlPromise ---------------------------
(***************************************************************************)
(* What the command tracker promises its users, without its timers, read   *)
(* tokens, holders and running coroutines: commands of a group exclude     *)
(* each other, a command is over once it is confirmed, only a read that    *)
(* can tell of a command bears on its outcome and on the values shown for  *)
(* it.  The tracker does not know which reads can tell of a command; here  *)
(* it is written down, in asked.                                           *)
(***************************************************************************)
CONSTANTS
    Keys,           \* the controls
    Group,          \* the group of each control
    Superseding,    \* controls whose commands replace each other
    Linked,         \* controls that show the outcome of any command of their group
    Commands, None, \* identities of commands; no command
    Values, Blank,  \* what can be shown for a control; nothing
    Reads

VARIABLES
    command,    \* the commands so far: how each stands, whether it is still being
                \* sent, whether what it asked for has been read
    current,    \* each control's command
    owner,      \* the command whose outcome each control shows
    shown,      \* the value shown for each control
    asked       \* the commands each read can tell of

vars == <<command, current, owner, shown, asked>>

Peers(k) == {j \in Keys : Group[j] = Group[k]}

Tracked == {current[k] : k \in Keys} \ {None}

Open(c) == command[c].sending \/ command[c].status = "pending"

Busy(k) == \E j \in Peers(k) : current[j] # None /\ Open(current[j])

\* The value of a control stays as it is for the sake of a command.
Frozen(k) == owner[k] # None /\ (k \in Linked \/ command[owner[k]].status # "confirmed")

ShowsNewOnly(keys) ==
    /\ shown' \in [Keys -> Values]
    /\ \A k \in Keys \ keys : shown'[k] = shown[k]

Init ==
    /\ command = <<>>
    /\ current = [k \in Keys |-> None]
    /\ owner = [k \in Keys |-> None]
    /\ shown = [k \in Keys |-> Blank]
    /\ asked = [r \in Reads |-> {}]

\* The command new is k's, and replaces what its group's other commands wait for.
Started(k, new) ==
    LET rivals == {current[j] : j \in Peers(k) \ {k}}
        showing == IF k \in Linked THEN Peers(k) ELSE {k}
    IN
    /\ current' = [current EXCEPT ![k] = new]
    /\ owner' = [j \in Keys |-> IF j \in showing THEN new ELSE owner[j]]
    /\ ShowsNewOnly({j \in showing : ~Frozen(j)})
    /\ command' = [c \in DOMAIN command \union {new} |->
                     IF c = new
                     THEN [status |-> "pending", sending |-> TRUE, met |-> FALSE]
                     ELSE IF c \in rivals /\ command[c].status # "confirmed"
                     THEN [command[c] EXCEPT !.status = "cancelled"]
                     ELSE command[c]]

\* A command starts where none of its group is open, unless its group's commands
\* replace each other.
Start(k) ==
    /\ UNCHANGED asked
    /\ k \in Superseding \/ ~Busy(k)
    /\ \E new \in Commands \ DOMAIN command : Started(k, new)

\* A command that is not confirmed is sent, or fails.
End(c) ==
    /\ UNCHANGED <<current, owner, shown, asked>>
    /\ command[c].status # "confirmed"
    /\ command[c].sending \/ command[c].status = "cancelled"
    /\ \E status \in {"failed", IF command[c].met THEN "confirmed" ELSE command[c].status} :
          command' = [command EXCEPT
                         ![c] = [status |-> status, sending |-> FALSE, met |-> @.met]]

\* Its window ends before it is confirmed.
GiveUp(c) ==
    /\ UNCHANGED <<current, owner, shown, asked>>
    /\ command[c].status = "pending"
    /\ command' = [command EXCEPT ![c].status = "unconfirmed"]

\* Commands ask for something else, or the cloud accepts them: what has been read, or
\* is being read, says nothing of them.
Change ==
    /\ UNCHANGED <<current, owner, shown>>
    /\ \E changed \in SUBSET Tracked :
          /\ asked' = [r \in Reads |-> asked[r] \ changed]
          /\ command' = [c \in DOMAIN command |->
                           IF c \in changed THEN [command[c] EXCEPT !.met = FALSE]
                           ELSE command[c]]

\* A read is begun.
Ask(r) ==
    /\ UNCHANGED <<command, current, owner, shown>>
    /\ asked' = [asked EXCEPT ![r] = DOMAIN command]

Told(state, met) ==
    [status |-> IF met /\ ~state.sending THEN "confirmed" ELSE state.status,
     sending |-> state.sending,
     met |-> met]

\* A read ends, and tells of commands it can tell of.
Answer(r) ==
    /\ UNCHANGED <<current, owner>>
    /\ asked' = [asked EXCEPT ![r] = {}]
    /\ ShowsNewOnly({k \in Keys : owner[k] \in asked[r] \union {None}})
    /\ \E told \in SUBSET {c \in asked[r] \intersect Tracked :
                              command[c].status \notin {"failed", "cancelled"}} :
       \E met \in SUBSET told :
          command' = [c \in DOMAIN command |->
                        IF c \in told THEN Told(command[c], c \in met) ELSE command[c]]

\* The commands of a group are withdrawn.
Withdraw(k) ==
    /\ UNCHANGED <<current, owner, shown, asked>>
    /\ command' = [c \in DOMAIN command |->
                     IF c \in {current[j] : j \in Peers(k)}
                     THEN [status |-> "cancelled", sending |-> FALSE, met |-> command[c].met]
                     ELSE command[c]]

\* Controls leave, with all of their group.
Forget ==
    /\ UNCHANGED <<command, asked>>
    /\ \E gone \in SUBSET Keys :
          /\ \A k \in gone : Peers(k) \subseteq gone
          /\ current' = [k \in Keys |-> IF k \in gone THEN None ELSE current[k]]
          /\ owner' = [k \in Keys |-> IF k \in gone THEN None ELSE owner[k]]
          /\ shown' = [k \in Keys |-> IF k \in gone THEN Blank ELSE shown[k]]

Next ==
    \/ \E r \in Reads : Answer(r) \/ Ask(r)
    \/ \E c \in Tracked : End(c) \/ GiveUp(c)
    \/ Change
    \/ \E k \in Keys : Start(k) \/ Withdraw(k)
    \/ Forget

Spec == Init /\ [][Next]_vars
=============================================================================
