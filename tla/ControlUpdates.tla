--------------------------- MODULE ControlUpdates ---------------------------
(***************************************************************************)
(* The command tracker of enphase_ev (control_updates.py).  Every command  *)
(* an entity or a service sends to the Enphase cloud is wrapped by         *)
(* tracked_control: an update is begun for its control, the command runs   *)
(* (any number of awaits), and the update is finished.  Reads of the cloud *)
(* run concurrently with the commands; a read takes a snapshot of the      *)
(* updates' tokens when it starts (read_tokens) and reports what it saw    *)
(* when it ends (observe).  A timer per update ends the confirmation       *)
(* window.  All code runs on one event loop, so what happens between two   *)
(* awaits is one action.                                                   *)
(*                                                                         *)
(* An update is a heap object, referred to by updates, held_by and by the  *)
(* coroutine that runs its command: it is modelled by an identity in       *)
(* UpdateIds, 0 being None.  A control's payload is a partial function     *)
(* from Fields to Vals, Unset marking a field that is absent.              *)
(***************************************************************************)
EXTENDS Integers, FiniteSets

CONSTANTS
    Keys,             \* the (control, serial) pairs commands are tracked by
    Serials,          \* charger serial numbers
    Site,             \* the serial of site-wide controls (None in the code)
    SerialOf,         \* the serial of each key
    GroupOf,          \* the group of each key's control
    RelatedGroups,    \* the groups listed in RELATED_CONTROLS
    SupersedeGroups,  \* the groups whose commands supersede: charging
    CancelGroups,     \* the groups cancel_group is called for: battery_profile
    GroupAcks,        \* the groups an acknowledgement invalidates as a whole
    Fields, Vals, Unset,
    Families,         \* the sets of keys one endpoint can report on
    Reads,            \* the reads that can be in flight together
    MaxUpdates,       \* bound: commands begun
    MaxVersion        \* bound: invalidations of one update

SameGroup(j, k) == SerialOf[j] = SerialOf[k] /\ GroupOf[j] = GroupOf[k]

ASSUME KeysAssumption ==
    /\ Site \notin Serials
    /\ SerialOf \in [Keys -> Serials \union {Site}]
    /\ DOMAIN GroupOf = Keys
    /\ MaxUpdates \in Nat
    /\ MaxVersion \in Nat
    /\ Unset \notin Vals

\* A superseding control is alone in its group and holds no companions: only
\* async_start_charging and async_stop_charging pass supersede=True, both for
\* the control "charging".
ASSUME SupersedeAlone ==
    /\ \A j, k \in Keys :
          SameGroup(j, k) /\ GroupOf[k] \in SupersedeGroups => j = k
    /\ SupersedeGroups \intersect RelatedGroups = {}

UpdateIds == 1..MaxUpdates
None == 0
Readings == [Fields -> Vals \union {Unset}]
NoReading == [f \in Fields |-> Unset]
NoToken == <<None, 0>>

Merge(old, new) == [f \in Fields |-> IF new[f] = Unset THEN old[f] ELSE new[f]]

VARIABLES
    active,    \* coord.runtime_active
    created,   \* the number of updates begun so far
    update,    \* the ControlUpdate objects; running: its coroutine has not returned
    updates,   \* self.updates
    held,      \* self.held_by
    values,    \* self.values
    reads,     \* the token snapshot of each read; idle reads hold none
    reading,   \* the reads in flight
    fresh,     \* history: the updates begun and last invalidated before a read started
    tainted    \* history: the updates whose observed holds a value of a read not fresh for them

vars == <<active, created, update, updates, held, values, reads, reading, fresh, tainted>>

-----------------------------------------------------------------------------
Statuses == {"pending", "unconfirmed", "confirmed", "failed", "cancelled"}

NewUpdate(k, request) ==
    [key |-> k, requested |-> request, status |-> "pending", submitting |-> TRUE,
     observed |-> NoReading, timer |-> TRUE, version |-> 0, running |-> TRUE]

Updates ==
    [key : Keys, requested : Readings, status : Statuses, submitting : BOOLEAN,
     observed : Readings, timer : BOOLEAN, version : 0..MaxVersion, running : BOOLEAN]

Begun == 1..created

\* The update a key answers to: its holder, or its own.
Owner(k) == IF held[k] # None THEN held[k] ELSE updates[k]

\* Mutant of Token: an invalidation clears observed and keeps the token.
TokenKept(i) == IF i = None THEN NoToken ELSE <<i, 0>>

\* The object identity of an update's read_token: replaced with each invalidation.
Token(i) == IF i = None THEN NoToken ELSE <<i, update[i].version>>

Open(i) == update[i].submitting \/ update[i].status = "pending"

Matches(u) ==
    /\ u.requested # NoReading
    /\ \A f \in Fields : u.requested[f] # Unset => u.observed[f] = u.requested[f]

\* The keys of k's group that hold_related makes k's update the holder of.
RelatedKeys(k) ==
    IF GroupOf[k] \in RelatedGroups THEN {j \in Keys : SameGroup(j, k)} ELSE {}

\* A key whose value is not frozen by an unresolved command takes the cached
\* value when a command starts.
SnapshotDue(k) ==
    \/ Owner(k) = None
    \/ update[Owner(k)].status = "confirmed" /\ held[k] = None

Confirmed(u) == [u EXCEPT !.status = "confirmed", !.timer = FALSE]
Cancelled(u) == [u EXCEPT !.status = "cancelled", !.timer = FALSE]

-----------------------------------------------------------------------------
Init ==
    /\ active = TRUE
    /\ created = 0
    /\ update = <<>>
    /\ updates = [k \in Keys |-> None]
    /\ held = [k \in Keys |-> None]
    /\ values = [k \in Keys |-> NoReading]
    /\ reads = [r \in Reads |-> [k \in Keys |-> NoToken]]
    /\ reading = {}
    /\ fresh = [r \in Reads |-> {}]
    /\ tainted = {}

\* The commands of k's group that are neither confirmed nor for k itself.
Unresolved(k) ==
    {updates[j] : j \in {j \in Keys \ {k} : /\ SameGroup(j, k)
                                            /\ updates[j] # None
                                            /\ update[updates[j]].status # "confirmed"}}

\* Mutant of GroupBusy: a command only waits for its own control.
OwnControlBusy(k) == updates[k] # None /\ Open(updates[k])

GroupBusy(k) ==
    \E j \in Keys : SameGroup(j, k) /\ updates[j] # None /\ Open(updates[j])

\* tracked_control up to the command's first await: begin, then hold_related
\* for every control of a related group.  snapshot is the caches' content.
Begin(k, request, snapshot) ==
    /\ active
    /\ created < MaxUpdates
    /\ GroupOf[k] \in SupersedeGroups \/ ~GroupBusy(k)
    /\ created' = created + 1
    /\ update' =
          [i \in 1..created + 1 |->
              IF i = created + 1 THEN NewUpdate(k, request)
              ELSE IF i \in Unresolved(k) THEN Cancelled(update[i])
              ELSE IF i = Owner(k) THEN [update[i] EXCEPT !.timer = FALSE]
              ELSE update[i]]
    /\ updates' = [updates EXCEPT ![k] = created + 1]
    /\ held' = [j \in Keys |->
                  IF j \in RelatedKeys(k) THEN created + 1
                  ELSE IF j = k THEN None
                  ELSE held[j]]
    /\ values' = [j \in Keys |->
                    IF j \in RelatedKeys(k) \union {k} /\ SnapshotDue(j)
                    THEN snapshot[j] ELSE values[j]]
    /\ UNCHANGED <<active, reads, reading, fresh, tainted>>

\* Mutant of Finished: a failed command stays submitting.
FinishedFailedSubmitting(u, failed) ==
    LET done == [u EXCEPT !.submitting = failed, !.running = FALSE]
    IN  IF failed THEN [done EXCEPT !.status = "failed", !.timer = FALSE]
        ELSE IF Matches(u) THEN Confirmed(done)
        ELSE done

Finished(u, failed) ==
    LET done == [u EXCEPT !.submitting = FALSE, !.running = FALSE]
    IN  IF failed THEN [done EXCEPT !.status = "failed", !.timer = FALSE]
        ELSE IF Matches(u) THEN Confirmed(done)
        ELSE done

\* The wrapped command returns, or raises (failed).  A finish of an update
\* that is no longer its key's update changes nothing.
Finish(i, failed) ==
    /\ update[i].running
    /\ update' = [update EXCEPT ![i] =
                    IF updates[update[i].key] = i THEN Finished(update[i], failed)
                    ELSE [update[i] EXCEPT !.running = FALSE]]
    /\ UNCHANGED <<active, created, updates, held, values, reads, reading, fresh, tainted>>

\* invalidate_observations of the updates in ids; reads in flight are stale
\* for them from here on.
Invalidate(ids, modified) ==
    /\ \A i \in ids : update[i].version < MaxVersion
    /\ update' = [i \in Begun |->
                    IF i \in ids
                    THEN [modified[i] EXCEPT !.observed = NoReading,
                                             !.version = update[i].version + 1]
                    ELSE update[i]]
    /\ fresh' = [r \in Reads |-> fresh[r] \ ids]
    /\ tainted' = tainted \ ids
    /\ UNCHANGED <<active, created, updates, held, values, reads, reading>>

\* A running command replaces what was requested by what it will send or what
\* was accepted.  set_requested goes by key: the update it finds need not be
\* the caller's own.
SetRequested(i, request) ==
    LET own == updates[update[i].key] IN
    /\ update[i].running
    /\ own # None
    /\ Invalidate({own}, [update EXCEPT ![own].requested = request])

\* The updates a command's acknowledgement invalidates: those of the group
\* still submitting (battery settings) or the key's own (charging, storm
\* alerts).  A superseded charging command returns before it gets there.
Acknowledged(i) ==
    IF GroupOf[update[i].key] \in GroupAcks
    THEN {updates[j] : j \in {j \in Keys : /\ SameGroup(j, update[i].key)
                                           /\ updates[j] # None
                                           /\ update[updates[j]].submitting}}
    ELSE {updates[update[i].key]} \ {None}

Acknowledge(i) ==
    /\ update[i].running
    /\ GroupOf[update[i].key] \in SupersedeGroups => updates[update[i].key] = i
    /\ Acknowledged(i) # {}
    /\ Invalidate(Acknowledged(i), update)

\* The confirmation window of 600 s ends.
Expire(i) ==
    /\ update[i].timer
    /\ update' = [update EXCEPT ![i] =
                    IF updates[update[i].key] = i /\ update[i].status = "pending"
                    THEN [update[i] EXCEPT !.status = "unconfirmed", !.timer = FALSE]
                    ELSE [update[i] EXCEPT !.timer = FALSE]]
    /\ UNCHANGED <<active, created, updates, held, values, reads, reading, fresh, tainted>>

\* A read of the cloud starts: read_tokens, before the request is awaited.
StartRead(r) ==
    /\ r \notin reading
    /\ reading' = reading \union {r}
    /\ reads' = [reads EXCEPT ![r] = [k \in Keys |-> Token(Owner(k))]]
    /\ fresh' = [fresh EXCEPT ![r] = Begun]
    /\ UNCHANGED <<active, created, update, updates, held, values, tainted>>

\* The keys whose part of the report observe accepts.
Accepted(r, report) ==
    {k \in Keys : report[k] # NoReading /\ Token(Owner(k)) = reads[r][k]}

\* Those of them whose own update takes the report as evidence.
Observing(r, report) ==
    {k \in Accepted(r, report) :
        /\ updates[k] # None
        /\ updates[k] = Owner(k)
        /\ update[updates[k]].status \notin {"failed", "cancelled"}}

\* Mutant of Observed: a command still being submitted can be confirmed.
ObservedEarly(u, reported) ==
    LET seen == [u EXCEPT !.observed = Merge(u.observed, reported)]
    IN  IF Matches(seen) THEN Confirmed(seen) ELSE seen

Observed(u, reported) ==
    LET seen == [u EXCEPT !.observed = Merge(u.observed, reported)]
    IN  IF ~u.submitting /\ Matches(seen) THEN Confirmed(seen) ELSE seen

\* A read ends and its values are observed, all in one step; a read that
\* failed or was served from a cache reports nothing.
EndRead(r, report) ==
    LET observing == Observing(r, report) IN
    /\ r \in reading
    /\ \E family \in Families : \A k \in Keys \ family : report[k] = NoReading
    /\ reading' = reading \ {r}
    /\ values' = [k \in Keys |->
                    IF k \in Accepted(r, report) THEN Merge(values[k], report[k])
                    ELSE values[k]]
    /\ update' = [i \in Begun |->
                    IF \E k \in observing : updates[k] = i
                    THEN Observed(update[i], report[CHOOSE k \in observing : updates[k] = i])
                    ELSE update[i]]
    /\ tainted' = tainted \union {updates[k] : k \in {k \in observing : updates[k] \notin fresh[r]}}
    /\ reads' = [reads EXCEPT ![r] = [k \in Keys |-> NoToken]]
    /\ fresh' = [fresh EXCEPT ![r] = {}]
    /\ UNCHANGED <<active, created, updates, held>>

\* A pending profile change is cancelled: cancel_group.
CancelGroup(k) ==
    /\ active
    /\ GroupOf[k] \in CancelGroups
    /\ update' = [i \in Begun |->
                    IF \E j \in Keys : SameGroup(j, k) /\ updates[j] = i
                    THEN [Cancelled(update[i]) EXCEPT !.submitting = FALSE]
                    ELSE update[i]]
    /\ UNCHANGED <<active, created, updates, held, values, reads, reading, fresh, tainted>>

\* Drop the keys in gone, cancelling their updates' timers.
Drop(gone) ==
    /\ update' = [i \in Begun |->
                    IF \E k \in gone : updates[k] = i
                    THEN [update[i] EXCEPT !.timer = FALSE] ELSE update[i]]
    /\ updates' = [k \in Keys |-> IF k \in gone THEN None ELSE updates[k]]
    /\ held' = [k \in Keys |-> IF k \in gone THEN None ELSE held[k]]
    /\ values' = [k \in Keys |-> IF k \in gone THEN NoReading ELSE values[k]]
    /\ UNCHANGED <<created, reads, reading, fresh, tainted>>

\* A charger disappears from the inventory.  It may be back later, while a
\* command for it is still running.
Prune(s) ==
    /\ active
    /\ Drop({k \in Keys : SerialOf[k] = s})
    /\ UNCHANGED active

\* The config entry is unloaded or reloaded: mark_runtime_stopped.
Cleanup ==
    /\ active
    /\ active' = FALSE
    /\ Drop(Keys)

Next ==
    \/ \E k \in Keys, request \in Readings \ {NoReading},
          snapshot \in [Keys -> [Fields -> Vals]] : Begin(k, request, snapshot)
    \/ \E i \in Begun, failed \in BOOLEAN : Finish(i, failed)
    \/ \E i \in Begun, request \in Readings : SetRequested(i, request)
    \/ \E i \in Begun : Acknowledge(i)
    \/ \E i \in Begun : Expire(i)
    \/ \E r \in Reads : StartRead(r)
    \/ \E r \in Reads, report \in [Keys -> Readings] : EndRead(r, report)
    \/ \E k \in Keys : CancelGroup(k)
    \/ \E s \in Serials : Prune(s)
    \/ Cleanup

Spec == Init /\ [][Next]_vars

\* Home Assistant fires a timer that is armed, and every request of a command
\* ends (the API client bounds each by a timeout).  Each happens to a command
\* only once, so that one condition per command asks for both.
Fairness ==
    \A i \in UpdateIds :
        WF_vars(i \in Begun /\ (Expire(i) \/ \E failed \in BOOLEAN : Finish(i, failed)))

FairSpec == Spec /\ Fairness
-----------------------------------------------------------------------------
\* Every variable has its type, and the update a key refers to is that key's.
TypeOK ==
    /\ active \in BOOLEAN
    /\ created \in 0..MaxUpdates
    /\ update \in [Begun -> Updates]
    /\ updates \in [Keys -> 0..created]
    /\ held \in [Keys -> 0..created]
    /\ values \in [Keys -> Readings]
    /\ reads \in [Reads -> [Keys -> (0..created) \X (0..MaxVersion)]]
    /\ reading \subseteq Reads
    /\ fresh \in [Reads -> SUBSET Begun]
    /\ tainted \subseteq Begun
    /\ \A k \in Keys : updates[k] \in Begun => update[updates[k]].key = k

\* At most one command of a control group of one device is open, submitting or
\* awaiting confirmation (the guard of begin, over every sequence of commands,
\* cancellations, removals of chargers and late returns).
OneOpenPerGroup ==
    \A j, k \in Keys :
        j # k /\ SameGroup(j, k) /\ updates[j] # None /\ updates[k] # None
            => ~(Open(updates[j]) /\ Open(updates[k]))

\* A timer is armed for the tracked updates that are pending and for no other:
\* no pending update can lose the timer that ends its window, although begin
\* cancels the timer of a key's holder without looking at its status, and no
\* timer outlives the update it is for.
TimersMatchPending ==
    \A i \in Begun :
        update[i].timer <=> /\ updates[update[i].key] = i
                            /\ update[i].status = "pending"

\* What an update counts as observed comes only from reads that started after
\* the command began and after its last invalidation, so a read that was in
\* flight when the cloud acknowledged the command can never confirm it.
NoStaleEvidence == tainted = {}

\* What makes these invariants inductive.  A holder is an update of the held
\* key's own group; a token a read holds is never newer than the update's, and
\* is the update's current one only if the read is fresh for it; a coroutine
\* that is still running has not been confirmed, and still counts as
\* submitting unless its group was cancelled.
HoldersInGroup ==
    \A k \in Keys : held[k] # None =>
        /\ GroupOf[k] \in RelatedGroups
        /\ SameGroup(update[held[k]].key, k)

TokensTrackFreshness ==
    \A r \in Reads, k \in Keys :
        LET token == reads[r][k] IN
        token[1] \in Begun =>
            /\ token[2] <= update[token[1]].version
            /\ token[2] = update[token[1]].version => token[1] \in fresh[r]

RunningIsUnsettled ==
    \A i \in Begun :
        update[i].running =>
            /\ update[i].status # "confirmed"
            /\ update[i].submitting \/ update[i].status = "cancelled"

TrackerInv ==
    /\ TypeOK
    /\ OneOpenPerGroup
    /\ TimersMatchPending
    /\ NoStaleEvidence
    /\ HoldersInGroup
    /\ TokensTrackFreshness
    /\ RunningIsUnsettled

\* A command that was reported confirmed is never reported failed, unconfirmed
\* or pending later, although its coroutine, timer and reads are independent;
\* only cancel_group may withdraw it.
ConfirmedIsFinal ==
    [][\A i \in Begun :
          update[i].status = "confirmed"
              => update'[i].status \in {"confirmed", "cancelled"}]_vars

\* The value shown for a control is frozen from the start of a command of its
\* group until a read reports it that started after the command began and was
\* last acknowledged: neither the next command's snapshot of the optimistic
\* caches nor a slow read moves it.
Frozen(k) ==
    Owner(k) # None /\ (update[Owner(k)].status # "confirmed" \/ held[k] # None)

FrozenValueNeedsFreshRead ==
    [][\A k \in Keys :
          Frozen(k) /\ values'[k] # values[k]
              => \/ \E r \in reading \ reading' : Owner(k) \in fresh[r]
                 \/ updates'[k] = None /\ values'[k] = NoReading]_vars

\* The groups whose commands wait for each other.
WaitingGroups ==
    {{j \in Keys : SameGroup(j, k)} : k \in {k \in Keys : GroupOf[k] \notin SupersedeGroups}}

\* A group whose commands do not supersede accepts a new command again: what
\* keeps it busy fails, is confirmed or cancelled, leaves with its charger, or
\* sees its window of 600 s end.
GroupFreed ==
    \A group \in WaitingGroups :
        (\E k \in group : GroupBusy(k)) ~> (\A k \in group : ~GroupBusy(k))

\* How a command stands to its users.
Standing(i) ==
    [status |-> update[i].status, sending |-> update[i].submitting, met |-> Matches(update[i])]

\* What the tracker promises: each key's group and device is one group of controls, the
\* keys of a related group show each other's outcome, and the reads that can tell of a
\* command are those that are fresh for it.
Promise == INSTANCE ControlPromise WITH
    Group <- [k \in Keys |-> <<SerialOf[k], GroupOf[k]>>],
    Superseding <- {k \in Keys : GroupOf[k] \in SupersedeGroups},
    Linked <- {k \in Keys : GroupOf[k] \in RelatedGroups},
    Commands <- UpdateIds,
    Values <- Readings,
    Blank <- NoReading,
    command <- [i \in Begun |-> Standing(i)],
    current <- updates,
    owner <- [k \in Keys |-> Owner(k)],
    shown <- values,
    asked <- fresh

\* The tracker implements its promise: tokens, timers and holders, whatever the commands
\* and reads that overlap do, never let a read bear on a command it cannot tell of, never
\* open two commands of a group, and move no value that is frozen.
KeepsPromise == Promise!Spec
=============================================================================
