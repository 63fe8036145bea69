----------------------------- MODULE ScheduleSync -----------------------------
(***************************************************************************)
(* The mirror of a charger's cloud schedule (schedule_sync.py).  Edits     *)
(* (toggle, save, delete, replace) of one charger run one at a time; what  *)
(* an accepted edit asked for is echoed in the slot cache, and a read      *)
(* follows a second later.  Reads run one at a time and replace the cache, *)
(* unless an edit was accepted or the sync was stopped, disabled or        *)
(* started anew while they were under way.  A read may be answered with a  *)
(* schedule from before an edit that was accepted before it was sent.      *)
(*                                                                         *)
(* One charger is modelled; what an edit changes in a slot is whether it   *)
(* is on.  Slot identifiers are never used twice.  The scheduler's backoff *)
(* and the server's timestamp are left open: an edit may be refused, a     *)
(* pending read not sent, a collection may need a read first.              *)
(*                                                                         *)
(* Starting and disabling remove the helpers of old versions, and then     *)
(* wait, with their locks, until no task of Home Assistant is pending: the *)
(* tasks that wait for the locks may be among these.                       *)
(***************************************************************************)
EXTENDS Integers, FiniteSets

CONSTANTS
    Callers,       \* concurrent edits
    Slots,         \* slot identifiers
    Requests,      \* the edits that each asks for
    Elsewhere,     \* the changes made in the Enphase app
    Poll,          \* reader: startup, interval, coordinator update, service, button
    Patch,         \* reader: the read that follows an edit
    Nobody,        \* no lock holder
    Initial,       \* the schedules the charger may start with
    Unknown,       \* no accepted edit says what the slot is
    MaxChanges     \* bound: edits, changes of the entry and changes elsewhere

\* A slot is on or off, deleted, or not yet created.
States == {"on", "off", "gone", "new"}
Present(state) == state \in {"on", "off"}
Schedules == [Slots -> States]

\* A schedule as it is listed: slots deleted and slots not created are not in it.
Listed(state) == IF Present(state) THEN state ELSE "absent"
Listing(schedule) == [k \in Slots |-> Listed(schedule[k])]
Listings == [Slots -> {"on", "off", "absent"}]

Edits == [kind : {"toggle", "save", "delete", "replace"}, slot : Slots, to : {"on", "off"}]

ASSUME ConstantsAssumption ==
    /\ Requests \in [Callers -> SUBSET Edits]
    /\ Elsewhere \subseteq [slot : Slots, to : {"on", "off", "gone"}]
    /\ Initial \subseteq Schedules
    /\ Poll \notin Callers /\ Patch \notin Callers /\ Poll # Patch
    /\ Nobody \notin Callers \union {Poll, Patch}
    /\ Unknown \notin States \union {"absent"}
    /\ MaxChanges \in Nat

Readers == {Poll, Patch} \union Callers

VARIABLES
    running,      \* runtime_active
    enabled,      \* the option, read by _sync_enabled
    applied,      \* the option the update listener has applied or is applying
    applying,     \* whether it is: stopping or starting the sync, or at its startup read
    queued,       \* another update listener waits for update_listener_lock
    stopping,     \* _stopping
    generation,   \* _lifecycle_generation
    lifecycle,    \* holder of _lifecycle_lock that has yielded, and its generation
    waiting,      \* who waits for _lifecycle_lock
    cleaned,      \* _disabled_cleanup_done
    subscribed,   \* _unsub_interval and _unsub_coordinator
    lock,         \* _lock: the reader that holds it
    mutating,     \* _mutation_locks: the caller that holds it
    revision,     \* _mutation_revisions
    cache,        \* _slot_cache
    patch,        \* _pending_patch_refresh: none, its timer, its task
    read,         \* what each reader is doing
    call,         \* what each caller is doing
    cloud,        \* the charger's schedule
    reported,     \* the one that reads are answered with
    known,        \* history: what the slots are by the edits accepted
    changes       \* counter of the bound

lifecycleVars == <<running, enabled, applied, applying, queued, lifecycle, waiting, cleaned,
                   subscribed>>
epoch == <<stopping, generation>>
data == <<revision, cache, patch>>
vars == <<lifecycleVars, epoch, lock, mutating, data, read, call, cloud, reported, known,
          changes>>

-----------------------------------------------------------------------------
\* The history field blind holds the slots with an edit accepted since the read was sent.
NoRead == [pc |-> "idle", by |-> "caller", gen |-> 0, rev |-> 0, seen |-> Unknown,
           blind |-> {}]
NoCall == [pc |-> "idle", gen |-> 0, request |-> Unknown, sent |-> Unknown, echo |-> Unknown]

\* _lifecycle_active
Active(gen) == ~stopping /\ gen = generation

\* Mutant of Fresh: the revision is not compared.
FreshWhateverEdited(r) == Active(read[r].gen)
\* Mutant of Fresh: the lifecycle is not compared.
FreshWhateverStopped(r) == read[r].rev = revision
\* A read's result counts: no stop, start or accepted edit since it began.
Fresh(r) == Active(read[r].gen) /\ read[r].rev = revision

\* A read that is sent, with the revision of now, and one that waits for its turn.
Reading(by) ==
    [NoRead EXCEPT !.pc = "sent", !.by = by, !.gen = generation, !.rev = revision]
Queued(by) == [NoRead EXCEPT !.pc = "queued", !.by = by, !.gen = generation]

\* Tasks the sync retains for shutdown: the readers _async_stop_locked cancels.
Cancelled == {r \in {Poll, Patch} : read[r].by = "task"}

\* Mutant of LockAfterStop: a read that is cancelled keeps the lock.
LockKept == lock
\* A cancelled read lets go of the lock.
LockAfterStop == IF lock \in Cancelled THEN Nobody ELSE lock

\* _async_stop_locked. The retained tasks it cancels include one that waits for the
\* lifecycle lock to disable the sync.
StopLocked(leaves) ==
    /\ waiting' = waiting \ {leaves, "retained"}
    /\ subscribed' = FALSE
    /\ patch' = "none"
    /\ read' = [r \in Readers |-> IF r \in Cancelled THEN NoRead ELSE read[r]]
    /\ lock' = LockAfterStop

\* async_stop and _disable_support, up to the lock: older work is retired at once.
Retire(who) ==
    /\ stopping' = TRUE
    /\ generation' = generation + 1
    /\ waiting' = waiting \union {who}

LockFree == lifecycle.op = "free"
Free == [op |-> "free", gen |-> 0]

-----------------------------------------------------------------------------
\* Setup has called async_start, which is removing the helpers of old versions; with the
\* option off it disables the sync.
Init ==
    /\ running = TRUE
    /\ enabled \in BOOLEAN /\ applied = enabled /\ applying = "no" /\ queued = FALSE
    /\ stopping = ~enabled /\ cleaned = ~enabled /\ generation = 1
    /\ lifecycle = [op |-> IF enabled THEN "start" ELSE "disable", gen |-> 1]
    /\ waiting = {}
    /\ subscribed = FALSE
    /\ lock = Nobody /\ mutating = Nobody
    /\ revision = 0
    /\ cache = [k \in Slots |-> "absent"]
    /\ patch = "none"
    /\ read = [r \in Readers |-> NoRead]
    /\ call = [c \in Callers |-> NoCall]
    /\ cloud \in Initial /\ reported = cloud
    /\ known = [k \in Slots |-> Unknown]
    /\ changes = 0

\* _async_refresh_impl finds the option off. A retained task is not cancelled by the
\* stop it makes itself unless it has to wait for the lock.
DisableSupport(by) ==
    Retire(IF by = "task" /\ (~LockFree \/ waiting # {}) THEN "retained" ELSE "disable")

\* The update listener goes on to its startup read, which may not be made.
AfterStart == IF applying = "start" THEN "read" ELSE applying

\* async_start after the helpers are gone: unless it was overtaken it subscribes and
\* makes the startup refresh, which gives way to another and may find the option off.
FinishStart ==
    /\ lifecycle.op = "start"
    /\ lifecycle' = Free
    /\ subscribed' = Active(lifecycle.gen)
    /\ \/ /\ Active(lifecycle.gen) /\ ~enabled
          /\ DisableSupport("start")
          /\ UNCHANGED <<applying, lock, read>>
       \/ /\ Active(lifecycle.gen) /\ enabled /\ lock = Nobody
          /\ lock' = Poll
          /\ read' = [read EXCEPT ![Poll] =
                Reading(IF applying = "start" THEN "start" ELSE "manual")]
          /\ applying' = AfterStart
          /\ UNCHANGED <<epoch, waiting>>
       \/ /\ Active(lifecycle.gen) => enabled /\ lock # Nobody
          /\ applying' = AfterStart
          /\ UNCHANGED <<epoch, waiting, lock, read>>
    /\ UNCHANGED <<running, enabled, applied, queued, cleaned, mutating, data, call, cloud,
                   reported, known, changes>>

\* The update listener, up to async_stop's wait (async_apply_config_entry_options).
Apply(option) ==
    /\ applied' = option
    /\ applying' = "stop"
    /\ Retire("apply")

\* The user changes the option. The listener runs at once, unless one is running.
SetOption ==
    /\ running /\ changes < MaxChanges
    /\ enabled' = ~enabled
    /\ changes' = changes + 1
    /\ IF applying = "no" THEN Apply(~enabled) /\ UNCHANGED queued
       ELSE queued' = TRUE /\ UNCHANGED <<applied, applying, stopping, generation, waiting>>
    /\ UNCHANGED <<running, lifecycle, cleaned, subscribed, lock, mutating, data, read, call,
                   cloud, reported, known>>

\* Something else of the entry changes while the listener runs: another waits for it.
OtherUpdate ==
    /\ running /\ applying # "no" /\ ~queued /\ changes < MaxChanges
    /\ queued' = TRUE
    /\ changes' = changes + 1
    /\ UNCHANGED <<running, enabled, applied, applying, lifecycle, waiting, cleaned, subscribed,
                   epoch, lock, mutating, data, read, call, cloud, reported, known>>

\* async_start has returned; the next listener compares the option with what was
\* applied, and others may be waiting still.
Applied ==
    /\ running /\ applying = "read" /\ read[Poll].by # "start"
    /\ \/ enabled # applied /\ Apply(enabled) /\ queued' \in {FALSE, queued}
       \/ /\ enabled = applied
          /\ applying' = "no" /\ queued' = FALSE
          /\ UNCHANGED <<applied, stopping, generation, waiting>>
    /\ UNCHANGED <<running, enabled, lifecycle, cleaned, subscribed, lock, mutating, data,
                   read, call, cloud, reported, known, changes>>

\* Mutant of MayRestart: the entry may have been unloaded during the stop.
RestartAlways == TRUE
MayRestart == running

\* It has stopped, and is started again: with the option off, start disables instead.
Restart ==
    /\ "apply" \in waiting /\ LockFree
    /\ StopLocked("apply")
    /\ IF MayRestart
       THEN /\ applying' = "start"
            /\ generation' = generation + 1
            /\ stopping' = ~enabled
            /\ cleaned' = ~enabled
            /\ lifecycle' = [op |-> IF enabled THEN "start" ELSE "disable",
                             gen |-> generation + 1]
       ELSE applying' = "no" /\ UNCHANGED <<generation, stopping, cleaned, lifecycle>>
    /\ UNCHANGED <<running, enabled, applied, queued, mutating, revision, cache, call,
                   cloud, reported, known, changes>>

\* A refresh that found the option off has the lock (_async_disable_support_locked).
BeginDisable ==
    /\ "disable" \in waiting /\ LockFree
    /\ stopping' = TRUE
    /\ IF cleaned
       THEN /\ waiting' = waiting \ {"disable"}
            /\ applying' = AfterStart
            /\ UNCHANGED <<cleaned, lifecycle, subscribed, patch, read, lock>>
       ELSE /\ cleaned' = TRUE
            /\ lifecycle' = [op |-> "disable", gen |-> generation]
            /\ StopLocked("disable")
            /\ UNCHANGED applying
    /\ UNCHANGED <<running, enabled, applied, queued, generation, mutating, revision, cache,
                   call, cloud, reported, known, changes>>

\* A retained one that waited has it: the stop cancels the task that makes it, and what
\* it was to drop stays.
CancelItself ==
    /\ "retained" \in waiting /\ LockFree
    /\ ~cleaned \* whoever disables or stops the sync meanwhile cancels it
    /\ stopping' = TRUE
    /\ cleaned' = TRUE
    /\ StopLocked("retained")
    /\ UNCHANGED <<running, enabled, applied, applying, queued, lifecycle, generation, mutating,
                   revision, cache, call, cloud, reported, known, changes>>

\* _async_disable_support_locked once the tasks have ended and the helpers are gone.
FinishDisable ==
    /\ lifecycle.op = "disable"
    /\ lifecycle' = Free
    /\ applying' = AfterStart
    /\ cache' = [k \in Slots |-> "absent"]
    /\ known' = [k \in Slots |-> Unknown]
    /\ UNCHANGED <<running, enabled, applied, queued, waiting, cleaned, subscribed, epoch, lock,
                   mutating, revision, patch, read, call, cloud, reported, changes>>

\* async_unload_entry: the runtime is marked stopped, then async_stop.
Unload ==
    /\ running
    /\ running' = FALSE
    /\ Retire("stop")
    /\ UNCHANGED <<enabled, applied, applying, queued, lifecycle, cleaned, subscribed, lock,
                   mutating, data, read, call, cloud, reported, known, changes>>

FinishStop ==
    /\ "stop" \in waiting /\ LockFree
    /\ StopLocked("stop")
    /\ UNCHANGED <<running, enabled, applied, applying, queued, lifecycle, cleaned, epoch,
                   mutating, revision, cache, call, cloud, reported, known, changes>>

-----------------------------------------------------------------------------
\* Reads.

\* An ordinary refresh: it gives way to the one that holds the lock. by: an interval
\* tick or a coordinator update, whose task is retained, or a service or a button.
Refresh(by) ==
    /\ ~stopping
    /\ by = "task" => subscribed
    /\ \/ /\ ~enabled /\ DisableSupport(by)
          /\ UNCHANGED <<lock, read>>
       \/ /\ enabled /\ lock = Nobody
          /\ lock' = Poll
          /\ read' = [read EXCEPT ![Poll] = Reading(by)]
          /\ UNCHANGED <<waiting, epoch>>
    /\ UNCHANGED <<running, enabled, applied, applying, queued, lifecycle, cleaned, subscribed,
                   mutating, data, call, cloud, reported, known, changes>>

\* _run of _schedule_post_patch_refresh: a second after an edit.
PatchTimer ==
    /\ patch = "timer" /\ ~stopping
    /\ \/ /\ ~enabled /\ DisableSupport("task")
          /\ patch' = "task"
          /\ UNCHANGED read
       \/ /\ enabled \* the scheduler backs off
          /\ patch' = "none"
          /\ UNCHANGED <<waiting, epoch, read>>
       \/ /\ enabled
          /\ patch' = "task"
          /\ read' = [read EXCEPT ![Patch] = Queued("task")]
          /\ UNCHANGED <<waiting, epoch>>
    /\ UNCHANGED <<running, enabled, applied, applying, queued, lifecycle, cleaned, subscribed,
                   lock, mutating, revision, cache, call, cloud, reported, known, changes>>

\* A read that waited has the lock. Its revision is that of now.
Acquire(r) ==
    /\ read[r].pc = "queued" /\ lock = Nobody
    /\ IF Active(read[r].gen)
       THEN /\ lock' = r
            /\ read' = [read EXCEPT ![r] = Reading(read[r].by)]
            /\ UNCHANGED patch
       ELSE /\ read' = [read EXCEPT ![r] = NoRead]
            /\ patch' = IF r = Patch THEN "none" ELSE patch
            /\ UNCHANGED lock
    /\ UNCHANGED <<lifecycleVars, epoch, mutating, revision, cache, call,
                   cloud, reported, known, changes>>

\* The cloud answers with what it reports, or an error; the answer is on its way.
See(r) ==
    /\ read[r].pc = "sent"
    /\ read' = [read EXCEPT ![r].pc = "answered", ![r].seen = Listing(reported)]
    /\ UNCHANGED <<lifecycleVars, epoch, lock, mutating, data, call, cloud, reported, known,
                   changes>>

\* "Scheduler writes often return before reads reflect the new slot state."
Settle ==
    /\ reported # cloud
    /\ reported' = cloud
    /\ UNCHANGED <<lifecycleVars, epoch, lock, mutating, data, read, call, cloud, known,
                   changes>>

\* The refresh ends: its lock is free, and a patch read is no longer pending.
Ends(r) ==
    /\ read' = [read EXCEPT ![r] = NoRead]
    /\ lock' = Nobody
    /\ patch' = IF r = Patch THEN "none" ELSE patch

\* _apply_sync_serial_result of a valid answer. It counts for more than the edits
\* accepted before it was sent.
ReadSucceeds(r) ==
    /\ read[r].pc = "answered"
    /\ Ends(r)
    /\ IF Fresh(r)
       THEN /\ cache' = read[r].seen
            /\ known' = [k \in Slots |->
                  IF k \in read[r].blind \/ read[r].seen[k] = known[k] THEN known[k]
                  ELSE Unknown]
       ELSE UNCHANGED <<cache, known>>
    /\ UNCHANGED <<lifecycleVars, epoch, mutating, revision, call, cloud, reported, changes>>

\* An error: the cache stays.
ReadFails(r) ==
    /\ read[r].pc = "answered"
    /\ Ends(r)
    /\ UNCHANGED <<lifecycleVars, epoch, mutating, revision, cache, call, cloud, reported,
                   known, changes>>

-----------------------------------------------------------------------------
\* Edits.

\* _async_mutate_serial up to its lock: the lifecycle is that of the call.
Ask(c, request) ==
    /\ call[c].pc = "idle" /\ changes < MaxChanges
    /\ call' = [call EXCEPT ![c] = [NoCall EXCEPT !.pc = "queued", !.gen = generation,
                                                  !.request = request]]
    /\ changes' = changes + 1
    /\ UNCHANGED <<lifecycleVars, epoch, lock, mutating, data, read, cloud, reported, known>>

\* What is sent: a toggle sends the state of every cached slot, a save or a deletion
\* that of its slot, a collection that of all. A slot that is not cached is created
\* under an identifier that the cloud chooses.
SentSlots(request) ==
    {k \in Slots :
        \/ request.kind = "replace"
        \/ request.kind = "delete" /\ k = request.slot
        \/ request.kind = "save" /\ k = request.slot /\ Present(cache[k])
        \/ request.kind = "toggle" /\ Present(cache[k])}

Payload(request) ==
    [k \in SentSlots(request) |->
        IF k = request.slot /\ request.kind # "delete" THEN request.to
        ELSE IF request.kind = "toggle" THEN cache[k] ELSE "gone"]

\* The edit is turned down before anything is sent.
Refused(c) ==
    \/ ~Active(call[c].gen) \/ ~enabled
    \/ call[c].request.kind \in {"toggle", "delete"} /\ ~Present(cache[call[c].request.slot])

\* Mutant of MayEnter: edits of a charger overlap.
EnterAtOnce == TRUE
MayEnter == mutating = Nobody

\* It is turned down, also because the scheduler backs off; or it prepares, a
\* collection without the server's timestamp; or it is sent.
Enter(c) ==
    /\ call[c].pc = "queued" /\ MayEnter
    /\ \/ /\ call' = [call EXCEPT ![c] = NoCall]
          /\ UNCHANGED <<mutating, read>>
       \/ /\ ~Refused(c) /\ call[c].request.kind = "replace"
          /\ mutating' = c
          /\ call' = [call EXCEPT ![c].pc = "prepare"]
          /\ read' = [read EXCEPT ![c] = Queued("caller")]
       \/ /\ ~Refused(c)
          /\ mutating' = c
          /\ call' = [call EXCEPT ![c].pc = "sent", ![c].sent = Payload(call[c].request)]
          /\ UNCHANGED read
    /\ UNCHANGED <<lifecycleVars, epoch, lock, data, cloud, reported, known, changes>>

\* The replace_prepare refresh has ended, whatever came of it.
Prepared(c) ==
    /\ call[c].pc = "prepare" /\ read[c].pc = "idle"
    /\ IF Active(call[c].gen)
       THEN /\ call' = [call EXCEPT ![c].pc = "sent", ![c].sent = Payload(call[c].request)]
            /\ UNCHANGED mutating
       ELSE /\ call' = [call EXCEPT ![c] = NoCall]
            /\ mutating' = Nobody
    /\ UNCHANGED <<lifecycleVars, epoch, lock, data, read, cloud, reported, known, changes>>

\* What the accepted edits say of the slots, once the cloud holds something else.
StillKnown(schedule) ==
    [k \in Slots |-> IF schedule[k] = cloud[k] THEN known[k] ELSE Unknown]

Creates(c) == call[c].request.kind = "save" /\ DOMAIN call[c].sent = {}

Sent(c) ==
    IF Creates(c)
    THEN {[k \in {slot} |-> call[c].request.to] : slot \in {k \in Slots : cloud[k] = "new"}}
    ELSE {call[c].sent}

\* What the cloud makes of it: it changes the slots there are, and creates those that
\* are saved.
Outcome(c, sent) ==
    [k \in Slots |->
        IF k \in DOMAIN sent
           /\ \/ Present(cloud[k])
              \/ cloud[k] = "new" /\ Present(sent[k]) /\ call[c].request.kind # "toggle"
        THEN sent[k]
        ELSE cloud[k]]

\* The cloud carries the edit out; the answer is on its way.
CarryOut(c) ==
    /\ call[c].pc = "sent"
    /\ \E sent \in Sent(c) :
        /\ cloud' = Outcome(c, sent)
        /\ known' = StillKnown(Outcome(c, sent))
        /\ call' = [call EXCEPT ![c].pc = "taken", ![c].sent = sent,
                                ![c].echo = Outcome(c, sent)]
    /\ UNCHANGED <<lifecycleVars, epoch, lock, mutating, data, read, reported, changes>>

\* Mutant of Revised: an accepted edit does not move the revision.
NotRevised == revision
\* An accepted edit invalidates the reads that are under way.
Revised == revision + 1

\* The slots the edit was about.
Asked(c) ==
    IF call[c].request.kind = "toggle" THEN {call[c].request.slot} ELSE DOMAIN call[c].sent

\* The cache as the code edits it itself, without the schedule in the answer. A toggle
\* does not put back a slot that a late read has taken out of it meanwhile.
Echoed(c) ==
    {k \in DOMAIN call[c].sent : call[c].request.kind = "toggle" => Present(cache[k])}

Echo(c) ==
    [k \in Slots |-> IF k \in Echoed(c) THEN Listed(call[c].sent[k]) ELSE cache[k]]

\* What the edit asked for is so, and in the cache.
Carried(c, full) ==
    {k \in DOMAIN call[c].sent :
        /\ full \/ k \in Echoed(c)
        /\ call[c].sent[k] = call[c].echo[k] /\ cloud[k] = call[c].echo[k]}

\* The pending read of the edit: none is added to one that is pending.
SchedulePatch == patch' = IF patch = "none" THEN "timer" ELSE patch

\* The reads that are under way now were sent before the edit was accepted.
Blinded(c) ==
    [r \in Readers |->
        IF read[r].pc \in {"sent", "answered"}
        THEN [read[r] EXCEPT !.blind = read[r].blind \union Asked(c)]
        ELSE read[r]]

\* The edit is accepted. An edit of a retired lifecycle leaves no trace. full: the
\* answer has the schedule; a toggle is then read back already.
Accepted(c, full) ==
    /\ call[c].pc = "taken"
    /\ full => call[c].request.kind \in {"toggle", "replace"}
    /\ full => \E k \in Slots : Present(call[c].echo[k])
    /\ call' = [call EXCEPT ![c] = NoCall]
    /\ mutating' = Nobody
    /\ IF Active(call[c].gen)
       THEN /\ cache' = IF full THEN Listing(call[c].echo) ELSE Echo(c)
            /\ revision' = Revised
            /\ IF full /\ call[c].request.kind = "toggle" THEN UNCHANGED patch
               ELSE SchedulePatch
            /\ known' = [k \in Slots |->
                  IF k \notin Asked(c) THEN known[k]
                  ELSE IF k \in Carried(c, full) THEN Listed(cloud[k]) ELSE Unknown]
            /\ read' = Blinded(c)
       ELSE UNCHANGED <<data, known, read>>
    /\ UNCHANGED <<lifecycleVars, epoch, lock, cloud, reported, changes>>

\* An error, whether or not the cloud has carried the edit out.
Failed(c) ==
    /\ call[c].pc \in {"sent", "taken"}
    /\ call' = [call EXCEPT ![c] = NoCall]
    /\ mutating' = Nobody
    /\ UNCHANGED <<lifecycleVars, epoch, lock, data, read, cloud, reported, known, changes>>

\* A slot is changed or added in the Enphase app.
External(k, state) ==
    /\ changes < MaxChanges
    /\ cloud[k] \notin {"gone", state}
    /\ cloud[k] = "new" => Present(state)
    /\ cloud' = [cloud EXCEPT ![k] = state]
    /\ known' = [known EXCEPT ![k] = Unknown]
    /\ changes' = changes + 1
    /\ UNCHANGED <<lifecycleVars, epoch, lock, mutating, data, read, call, reported>>

-----------------------------------------------------------------------------
\* What goes on without Home Assistant: locks are taken as they are let go of.
LifecycleStep == Applied \/ Restart \/ BeginDisable \/ CancelItself \/ FinishStop

\* The helpers are removed, and Home Assistant has no task pending.
HelpersGone == FinishStart \/ FinishDisable

ReadStep(r) == Acquire(r) \/ See(r) \/ ReadSucceeds(r) \/ ReadFails(r)

EditStep(c) ==
    \/ Enter(c)
    \/ Prepared(c)
    \/ \E full \in BOOLEAN : Accepted(c, full)
    \/ Failed(c)

Next ==
    \/ LifecycleStep
    \/ HelpersGone
    \/ SetOption
    \/ OtherUpdate
    \/ Unload
    \/ \E by \in {"task", "manual"} : Refresh(by)
    \/ PatchTimer
    \/ Settle
    \/ \E r \in Readers : ReadStep(r)
    \/ \E c \in Callers : EditStep(c) \/ CarryOut(c)
    \/ \E c \in Callers : \E request \in Requests[c] : Ask(c, request)
    \/ \E change \in Elsewhere : External(change.slot, change.to)

Spec == Init /\ [][Next]_vars

\* async_block_till_done, called with the lifecycle lock held, may wait for a task that
\* waits for this lock, or for an update listener that waits for the one that called it.
Hung == ~LockFree /\ (waiting # {} \/ (queued /\ applying = "start"))

\* The event loop runs what is due: a waiter gets the lock, the interval ticks, every
\* request ends, and whoever removes helpers goes on if nobody waits for it. The
\* scheduler goes on answering some of the reads it is sent, in the end with the
\* schedule of now.
FairSpec ==
    /\ Spec
    /\ WF_vars(~Hung /\ HelpersGone)
    /\ WF_vars(LifecycleStep)
    /\ WF_vars(Refresh("task"))
    /\ WF_vars(\E r \in Readers : ReadStep(r))
    /\ SF_vars(\E r \in Readers : ReadSucceeds(r))
    /\ WF_vars(\E c \in Callers : EditStep(c))
    /\ WF_vars(Settle)

-----------------------------------------------------------------------------
Payloads == UNION {[slots -> States] : slots \in SUBSET Slots}

ReadRecords ==
    [pc : {"idle", "queued", "sent", "answered"}, by : {"task", "start", "manual", "caller"},
     gen : Nat, rev : Nat, seen : Listings \union {Unknown}, blind : SUBSET Slots]

CallRecords ==
    [pc : {"idle", "queued", "prepare", "sent", "taken"}, gen : Nat,
     request : Edits \union {Unknown}, sent : Payloads \union {Unknown},
     echo : Schedules \union {Unknown}]

TypeOK ==
    /\ running \in BOOLEAN /\ enabled \in BOOLEAN /\ applied \in BOOLEAN
    /\ stopping \in BOOLEAN /\ cleaned \in BOOLEAN /\ subscribed \in BOOLEAN
    /\ applying \in {"no", "stop", "start", "read"} /\ queued \in BOOLEAN
    /\ lifecycle \in [op : {"free", "start", "disable"}, gen : Nat]
    /\ waiting \subseteq {"apply", "disable", "retained", "stop"}
    /\ lock \in Readers \union {Nobody}
    /\ mutating \in Callers \union {Nobody}
    /\ generation \in Nat /\ revision \in Nat /\ changes \in Nat
    /\ cache \in Listings /\ cloud \in Schedules /\ reported \in Schedules
    /\ known \in [Slots -> {"on", "off", "absent", Unknown}]
    /\ patch \in {"none", "timer", "task"}
    /\ read \in [Readers -> ReadRecords]
    /\ call \in [Callers -> CallRecords]

\* An accepted edit stays in the cache until the slot is changed otherwise, or a read
\* that was sent since shows it otherwise: no read that was sent before the edit was
\* accepted, and no answer of an older edit, undoes it.
AcceptedKept == \A k \in Slots : known[k] # Unknown => cache[k] = known[k]

\* Toggles send the state of every slot. One that is under way asks of the others what
\* earlier accepted edits made of them, as long as no read sent since showed otherwise:
\* edits of one charger do not overlap.
TogglesMerge ==
    \A c \in Callers :
        call[c].pc = "sent" /\ call[c].request.kind = "toggle" =>
            \A k \in DOMAIN call[c].sent \ {call[c].request.slot} :
                known[k] # Unknown => call[c].sent[k] = known[k]

Empty(listing) == \A k \in Slots : ~Present(listing[k])

\* Once a sync that was switched off has no slots in its cache, no answer that comes
\* late, to a read or to an edit, fills it again before it is switched on.
DisabledStaysEmpty == [][cleaned /\ cleaned' /\ Empty(cache) => Empty(cache')]_vars

\* An unloaded entry's sync is stopped for good, whatever start, disabling or edit was
\* under way: it has no subscription, no timer and no task.
UnloadedIsQuiet ==
    ~running /\ waiting = {} /\ LockFree =>
        /\ stopping /\ ~subscribed /\ patch = "none"
        /\ \A r \in Readers : read[r].by # "task"

\* A refresh has seen the option off and disabled the sync, and by the time the update
\* listener looked it was on again, as the listener had left it: nothing starts the sync.
LeftStopped ==
    running /\ enabled /\ applied /\ stopping /\ applying = "no" /\ waiting = {} /\ LockFree

\* The cache catches up with the charger's schedule, after any edits, failures, late
\* reads, restarts and changes elsewhere, while the option is on and the entry loaded,
\* unless the sync was left stopped, or two tasks wait for each other.
CatchesUp ==
    \/ <>[](cache = Listing(cloud))
    \/ <>[](~running)
    \/ <>[](~enabled)
    \/ <>[]LeftStopped
    \/ <>[]Hung

\* The slots a read that is under way can tell of: those with no edit accepted since.
Tells ==
    [r \in Readers |->
        IF read[r].pc \in {"sent", "answered"} THEN Slots \ read[r].blind ELSE {}]

Mirror == INSTANCE ScheduleMirror WITH cloud <- Listing(cloud), tells <- Tells

\* The sync is a copy of the charger's schedule in which an accepted edit gives way to
\* no read that was sent before: each step of reads, edits, timers and restarts is one
\* of the copy, or none.
ImplementsMirror == Mirror!Spec
=============================================================================
