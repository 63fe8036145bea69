----------------------------- MODULE ExportLimit -----------------------------
(***************************************************************************)
(* The export limit of a gateway (export_limit_runtime.py): a write is     *)
(* never replayed and its answer proves nothing, so ExportLimitRuntime     *)
(* keeps one pending request, stored before the write is sent, that blocks *)
(* every other write until a read of the settings matches it.              *)
(*                                                                         *)
(* Each load of the config entry makes a runtime object of its own; the    *)
(* Store (disk), the repair issue and the cloud are shared by all of them. *)
(* A service call holds the runtime it started with.  Callers are service  *)
(* calls and the background task (Poller) of the current runtime; a pc     *)
(* names the await a caller is at.  Settings stand for gateway identity,   *)
(* watts and slew rate together: a sample matches a request if they are    *)
(* the same setting.  A load of the Store that raises is left out.         *)
(***************************************************************************)
EXTENDS Integers, Sequences

CONSTANTS
    Callers,        \* service calls
    Poller,         \* the background task: async_start, then _poll
    Settings,       \* configurations of the gateway
    Supported,      \* those the integration may change
    Unreadable,     \* an answer parse_settings refuses, or none yet
    MaxIntents,     \* bound: requests recorded
    MaxRuntimes,    \* bound: loads of the config entry
    MaxExternal,    \* bound: changes of the settings by somebody else
    MaxToggles,     \* bound: changes of the option
    ReloadMidCall   \* may a reload overlap a service call

Free == "free"

ASSUME ConstantsAssumption ==
    /\ Poller \notin Callers
    /\ Free \notin Callers \union {Poller}
    /\ Supported \subseteq Settings
    /\ Unreadable \notin Settings
    /\ {MaxIntents, MaxRuntimes, MaxExternal, MaxToggles} \subseteq Nat
    /\ MaxRuntimes > 0
    /\ ReloadMidCall \in BOOLEAN

None == 0
Everyone == Callers \union {Poller}
Runtimes == 1..MaxRuntimes
Requests == 0..MaxIntents

VARIABLES
    runtime,     \* the runtime object of the loaded entry
    enabled,     \* the option, shared by every runtime
    stopped,     \* _stopped of each runtime
    loaded,      \* _loaded
    pending,     \* pending: a request, or None
    status,      \* request_status
    lock,        \* the holder of _lock
    task,        \* _task of the current runtime; "start" is async_start
    disk,        \* the pending request of the Store
    issue,       \* the repair issue export_limit_pending
    call,        \* what each caller is doing
    wish,        \* the setting each recorded request asks for
    aged,        \* requests at least OBSERVATION_SECONDS old
    config,      \* the gateway's settings, as the cloud reports them
    inflight,    \* requests sent whose write the cloud may still carry out
    confirmed,   \* history: requests a read matched
    external, toggles   \* counters

cloud == <<config, inflight, external>>
own == <<runtime, enabled, stopped, toggles>>
memory == <<loaded, pending, status>>
vars == <<own, memory, lock, task, disk, issue, call, wish, aged, cloud, confirmed>>

-----------------------------------------------------------------------------
Idle == [pc |-> "idle", rt |-> None, kind |-> "refresh", want |-> Unreadable,
         stage |-> "gate", sample |-> Unreadable, after |-> None, seen |-> Unreadable,
         intent |-> None]

Calls ==
    [pc : {"idle", "load", "auth", "read", "answer", "confirm", "form", "record",
           "withdraw", "write", "reject"},
     rt : {None} \union Runtimes, kind : {"refresh", "apply"},
     want : Settings \union {Unreadable}, stage : {"gate", "identity", "verify"},
     sample : Settings \union {Unreadable}, after : Requests,
     seen : Settings \union {Unreadable}, intent : Requests]

At(c, pc) == call[c].pc = pc
Rt(c) == call[c].rt
Goto(c, pc) == call' = [call EXCEPT ![c].pc = pc]

\* _require_enabled
Permitted(r) == enabled /\ ~stopped[r]

\* Mutant of Overdue: the issue is never raised.
NeverOverdue(r, p) == FALSE
\* What _sync_pending_issue leaves of the issue when r's pending request is p.
Overdue(r, p) == Permitted(r) /\ p # None /\ p \in aged

\* _schedule
Schedule(r) ==
    task' = IF r = runtime /\ Permitted(r) /\ task = "none" THEN "loop" ELSE task

\* Leaving async_refresh or async_apply: the lock is released; the background
\* task goes on while it is permitted to.
Leave(c) ==
    /\ lock' = [lock EXCEPT ![Rt(c)] = Free]
    /\ call' = [call EXCEPT ![c] = Idle]

LoopOn(c) ==
    IF c = Poller THEN task' = IF Permitted(Rt(c)) THEN "loop" ELSE "none"
                  ELSE UNCHANGED task

-----------------------------------------------------------------------------
Init ==
    /\ runtime = 1
    /\ enabled = TRUE
    /\ stopped = [r \in Runtimes |-> FALSE]
    /\ loaded = [r \in Runtimes |-> FALSE]
    /\ pending = [r \in Runtimes |-> None]
    /\ status = [r \in Runtimes |-> "idle"]
    /\ lock = [r \in Runtimes |-> Free]
    /\ task = "start"
    /\ disk = None
    /\ issue = FALSE
    /\ call = [c \in Everyone |-> Idle]
    /\ wish = <<>>
    /\ aged = {}
    /\ config \in Settings
    /\ inflight = {}
    /\ confirmed = {}
    /\ external = 0
    /\ toggles = 0

\* What async_refresh does after _load: an overdue request is unconfirmed.
NoticeOverdue(kind, r, p) ==
    IF kind = "refresh" /\ p # None /\ p \in aged
    THEN /\ status' = [status EXCEPT ![r] = "unconfirmed"]
         /\ issue' = Overdue(r, p)
    ELSE UNCHANGED <<status, issue>>

\* Mutant of Acquire: nobody waits for the lock.
AcquireAnyway(c) == lock' = [lock EXCEPT ![runtime] = c]
Acquire(c) ==
    /\ lock[runtime] = Free
    /\ lock' = [lock EXCEPT ![runtime] = c]

\* async_refresh and async_apply up to their first await.  A caller that waits
\* for the lock has done nothing yet; one that is not permitted leaves at once.
Start(c, kind, want) ==
    /\ At(c, "idle")
    /\ Acquire(c)
    /\ Permitted(runtime)
    /\ call' = [call EXCEPT ![c] =
                  [Idle EXCEPT !.pc = IF loaded[runtime] THEN "auth" ELSE "load",
                               !.rt = runtime, !.kind = kind, !.want = want]]
    /\ IF loaded[runtime] THEN NoticeOverdue(kind, runtime, pending[runtime])
                          ELSE UNCHANGED <<status, issue>>
    /\ UNCHANGED <<own, loaded, pending, task, disk, wish, aged, cloud, confirmed>>

Refresh(c) == c # Poller /\ Start(c, "refresh", Unreadable)
Apply(c) == c # Poller /\ \E s \in Settings : Start(c, "apply", s)

\* async_start's refresh, and each turn of _poll.
Poll == task # "none" /\ Start(Poller, "refresh", Unreadable)

\* _poll or async_start finds nothing to do: the option is off.
StopPolling ==
    /\ task # "none"
    /\ At(Poller, "idle")
    /\ ~ Permitted(runtime)
    /\ task' = "none"
    /\ UNCHANGED <<own, memory, lock, disk, issue, call, wish, aged, cloud, confirmed>>

\* Mutant of Restored: a stored request is dropped once it is overdue.
RestoredUnlessAged == IF disk \in aged THEN None ELSE disk
Restored == disk

\* _load
Load(c) ==
    LET r == Rt(c)
    IN  /\ At(c, "load")
        /\ Goto(c, "auth")
        /\ loaded' = [loaded EXCEPT ![r] = TRUE]
        /\ pending' = [pending EXCEPT ![r] = Restored]
        /\ status' = [status EXCEPT ![r] = IF Restored # None THEN "unconfirmed" ELSE @]
        /\ IF call[c].kind = "refresh" /\ Restored # None /\ Restored \in aged
           THEN issue' = Overdue(r, Restored) ELSE UNCHANGED issue
        /\ UNCHANGED <<own, lock, task, disk, wish, aged, cloud, confirmed>>

\* The access checks succeed and _read sends its request, if still permitted.
Authorise(c) ==
    /\ At(c, "auth")
    /\ Permitted(Rt(c))
    /\ Goto(c, "read")
    /\ UNCHANGED <<own, memory, lock, task, disk, issue, wish, aged, cloud, confirmed>>

\* The cloud serves the read, or answers what parse_settings refuses.
Serve(c) ==
    /\ At(c, "read")
    /\ \E s \in {config, Unreadable} :
          call' = [call EXCEPT ![c].pc = "answer", ![c].sample = s,
                               ![c].after = Len(wish)]
    /\ UNCHANGED <<own, memory, lock, task, disk, issue, wish, aged, cloud, confirmed>>

\* What the caller of _read does once it returns, p being the pending request:
\* a refresh ends; an apply goes on to the installer form unless a request is
\* still pending or, at the second look, the settings have changed.
Continue(c, p) ==
    LET k == call[c]
    IN  \/ /\ k.kind = "refresh"
           /\ Leave(c)
           /\ IF c = Poller THEN LoopOn(c) ELSE Schedule(Rt(c))
        \/ /\ k.kind = "apply"
           /\ \/ k.stage = "verify"
              \/ k.stage = "gate" /\ p # None
              \/ k.stage = "identity" /\ k.sample # k.seen
           /\ Leave(c)
           /\ UNCHANGED task
        \/ /\ k.kind = "apply"
           /\ \/ k.stage = "gate" /\ p = None
              \/ k.stage = "identity" /\ k.sample = k.seen
           /\ call' = [call EXCEPT ![c].pc = "form", ![c].seen = k.sample]
           /\ UNCHANGED <<lock, task>>

\* Mutant of Matches: an overdue request is not compared any more.
MatchesUntilAged(sample, p) == p \notin aged /\ sample = wish[p]
Matches(sample, p) == sample = wish[p]

\* The end of _read: a match ends the request and is stored ...
Match(c) ==
    LET r == Rt(c)
    IN  /\ At(c, "answer")
        /\ pending[r] # None
        /\ Matches(call[c].sample, pending[r])
        /\ confirmed' = confirmed \union {pending[r]}
        /\ pending' = [pending EXCEPT ![r] = None]
        /\ status' = [status EXCEPT ![r] = "confirmed"]
        /\ Goto(c, "confirm")
        /\ UNCHANGED <<own, loaded, lock, task, disk, issue, wish, aged, cloud>>

\* ... and anything else leaves it pending, unconfirmed once it is overdue.
NoMatch(c) ==
    LET r == Rt(c)
        p == pending[r]
    IN  /\ At(c, "answer")
        /\ p # None => ~ Matches(call[c].sample, p)
        /\ status' = [status EXCEPT ![r] =
                        IF p # None /\ call[c].sample # Unreadable /\ p \in aged
                        THEN "unconfirmed" ELSE @]
        /\ issue' = Overdue(r, p)
        /\ Continue(c, p)
        /\ UNCHANGED <<own, loaded, pending, disk, wish, aged, cloud, confirmed>>

\* The match is stored.
MatchSaved(c) ==
    /\ At(c, "confirm")
    /\ disk' = None
    /\ issue' = Overdue(Rt(c), None)
    /\ Continue(c, None)
    /\ UNCHANGED <<own, memory, wish, aged, cloud, confirmed>>

\* An exception in _read, or before it: a failed verification leaves the request
\* unconfirmed, any other caller gives up.  async_refresh publishes; async_apply
\* does after a failed verification, after a failed request, or if the session
\* has expired.
GiveUp(c) ==
    /\ status' = [status EXCEPT ![Rt(c)] =
                    IF call[c].stage = "verify" THEN "unconfirmed" ELSE @]
    /\ issue' \in {Overdue(Rt(c), pending[Rt(c)])} \union
                   (IF call[c].kind = "apply" /\ call[c].stage # "verify" /\ ~ At(c, "read")
                    THEN {issue} ELSE {})
    /\ Leave(c)
    /\ LoopOn(c)
    /\ UNCHANGED <<own, loaded, pending, wish, aged, cloud, confirmed>>

MatchNotSaved(c) ==
    /\ At(c, "confirm")
    /\ disk' \in {disk, None}
    /\ GiveUp(c)

CannotRead(c) ==
    /\ At(c, "auth") \/ At(c, "read") \/ At(c, "form")
    /\ GiveUp(c)
    /\ UNCHANGED disk

-----------------------------------------------------------------------------
\* async_apply has the form.  Nothing to do: the settings are not readable or
\* not supported, or they are what was asked for.
NothingToApply(c) ==
    /\ At(c, "form")
    /\ call[c].stage = "gate"
    /\ call[c].seen \notin Supported \/ call[c].seen = call[c].want
    /\ Leave(c)
    /\ UNCHANGED <<own, memory, task, disk, issue, wish, aged, cloud, confirmed>>

\* The form disagrees in its slew rate only: the identity of the gateway and
\* its settings are read again.
LookAgain(c) ==
    /\ At(c, "form")
    /\ call[c].stage = "gate"
    /\ call[c].seen \in Supported \ {call[c].want}
    /\ Permitted(Rt(c))
    /\ call' = [call EXCEPT ![c].pc = "read", ![c].stage = "identity"]
    /\ UNCHANGED <<own, memory, lock, task, disk, issue, wish, aged, cloud, confirmed>>

\* The request is recorded, first in memory.
Record(c) ==
    LET r == Rt(c)
        id == Len(wish) + 1
    IN  /\ At(c, "form")
        /\ call[c].stage = "gate" => call[c].seen \in Supported \ {call[c].want}
        /\ id <= MaxIntents
        /\ wish' = Append(wish, call[c].want)
        /\ pending' = [pending EXCEPT ![r] = id]
        /\ status' = [status EXCEPT ![r] = "pending"]
        /\ call' = [call EXCEPT ![c].pc = "record", ![c].intent = id]
        /\ UNCHANGED <<own, loaded, lock, task, disk, issue, aged, cloud, confirmed>>

\* Mutant of Stored: the request is not on disk when the write is sent.
StoredLater(id) == disk
Stored(id) == id

\* The request is on disk: the write is sent, or, if it is no longer permitted,
\* the request is withdrawn.
Send(c) ==
    LET r == Rt(c)
    IN  /\ At(c, "record")
        /\ disk' = Stored(call[c].intent)
        /\ issue' = Overdue(r, pending[r])
        /\ IF Permitted(r)
           THEN /\ inflight' = inflight \union {call[c].intent}
                /\ Goto(c, "write")
                /\ UNCHANGED <<pending, status>>
           ELSE /\ pending' = [pending EXCEPT ![r] = None]
                /\ status' = [status EXCEPT ![r] = "rejected"]
                /\ Goto(c, "withdraw")
                /\ UNCHANGED inflight
        /\ UNCHANGED <<own, loaded, lock, task, wish, aged, config, external, confirmed>>

\* The request could not be stored: nothing has been sent.
NotRecorded(c) ==
    LET r == Rt(c)
    IN  /\ At(c, "record")
        /\ disk' \in {disk, call[c].intent}
        /\ pending' = [pending EXCEPT ![r] = None]
        /\ status' = [status EXCEPT ![r] = "rejected"]
        /\ issue' = Overdue(r, None)
        /\ Leave(c)
        /\ UNCHANGED <<own, loaded, task, wish, aged, cloud, confirmed>>

\* The request is dropped from the Store; or that fails, and only a refused
\* write still publishes.
Withdrawn(c) ==
    LET published == issue' = Overdue(Rt(c), pending[Rt(c)])
    IN  /\ At(c, "withdraw") \/ At(c, "reject")
        /\ \/ disk' = None /\ published
           \/ disk' \in {disk, None} /\ IF At(c, "reject") THEN published ELSE UNCHANGED issue
        /\ IF At(c, "reject") THEN Schedule(Rt(c)) ELSE UNCHANGED task
        /\ Leave(c)
        /\ UNCHANGED <<own, memory, wish, aged, cloud, confirmed>>

\* Any answer to the write but a refusal: only a read can tell.  status is the
\* request_status: pending after an answer, unconfirmed after an error.
Answered(c) ==
    LET r == Rt(c)
    IN  /\ At(c, "write")
        /\ \E s \in {"pending", "unconfirmed"} :
              status' = [status EXCEPT ![r] = IF Permitted(r) THEN s ELSE "unconfirmed"]
        /\ issue' = Overdue(r, pending[r])
        /\ Schedule(r)
        /\ IF Permitted(r)
           THEN /\ call' = [call EXCEPT ![c].pc = "read", ![c].stage = "verify"]
                /\ UNCHANGED lock
           ELSE Leave(c)
        /\ UNCHANGED <<own, loaded, pending, disk, wish, aged, cloud, confirmed>>

\* The cloud refuses the write: it is not carried out, nothing is pending.
Refused(c) ==
    LET r == Rt(c)
    IN  /\ At(c, "write")
        /\ call[c].intent \in inflight
        /\ inflight' = inflight \ {call[c].intent}
        /\ pending' = [pending EXCEPT ![r] = None]
        /\ status' = [status EXCEPT ![r] = "rejected"]
        /\ Goto(c, "reject")
        /\ UNCHANGED <<own, loaded, lock, task, disk, issue, wish, aged, config,
                       external, confirmed>>

\* A service call is cancelled at its await: the lock is released, a request
\* that is being stored is withdrawn, one that is being sent is unconfirmed.
Cancel(c) ==
    LET r == Rt(c)
    IN  /\ c # Poller
        /\ \/ /\ call[c].pc \in {"load", "auth", "read", "answer", "confirm", "form"}
              /\ disk' \in {disk} \union (IF At(c, "confirm") THEN {None} ELSE {})
              /\ Leave(c)
              /\ UNCHANGED <<pending, status, issue, task>>
           \/ /\ At(c, "record")
              /\ disk' \in {disk, call[c].intent}
              /\ pending' = [pending EXCEPT ![r] = None]
              /\ status' = [status EXCEPT ![r] = "rejected"]
              /\ Goto(c, "withdraw")
              /\ UNCHANGED <<lock, issue, task>>
           \/ /\ At(c, "write")
              /\ status' = [status EXCEPT ![r] = "unconfirmed"]
              /\ issue' = Overdue(r, pending[r])
              /\ Schedule(r)
              /\ Leave(c)
              /\ UNCHANGED <<disk, pending>>
        /\ UNCHANGED <<own, loaded, wish, aged, cloud, confirmed>>

-----------------------------------------------------------------------------
\* The cloud carries out a write, whatever became of its caller.
CarryOut(id) ==
    /\ id \in inflight
    /\ config' = wish[id]
    /\ inflight' = inflight \ {id}
    /\ UNCHANGED <<own, memory, lock, task, disk, issue, call, wish, aged, external, confirmed>>

\* Somebody else changes the settings.
Change(s) ==
    /\ external < MaxExternal
    /\ s # config
    /\ config' = s
    /\ external' = external + 1
    /\ UNCHANGED <<own, memory, lock, task, disk, issue, call, wish, aged, inflight, confirmed>>

\* OBSERVATION_SECONDS pass since a request was recorded.
Age(id) ==
    /\ id \in 1..Len(wish) \ aged
    /\ aged' = aged \union {id}
    /\ UNCHANGED <<own, memory, lock, task, disk, issue, call, wish, cloud, confirmed>>

\* The user turns the option on or off; the reload comes later.
Toggle ==
    /\ toggles < MaxToggles
    /\ enabled' = ~enabled
    /\ toggles' = toggles + 1
    /\ UNCHANGED <<runtime, stopped, memory, lock, task, disk, issue, call, wish, aged,
                   cloud, confirmed>>

\* What the Store may hold once callers are interrupted while storing.
Interrupted(callers) ==
    {disk} \union {None : c \in {c \in callers : call[c].pc \in {"confirm", "withdraw", "reject"}}}
           \union {call[c].intent : c \in {c \in callers : At(c, "record")}}

NextRuntime ==
    /\ runtime < MaxRuntimes
    /\ runtime' = runtime + 1
    /\ task' = IF enabled THEN "start" ELSE "none"
    /\ issue' = FALSE
    /\ UNCHANGED <<enabled, toggles, memory, wish, aged, cloud, confirmed>>

\* The entry is reloaded: stop() and its task are waited for; service calls
\* that hold the old runtime go on.
Reload ==
    /\ ReloadMidCall \/ \A c \in Callers : At(c, "idle")
    /\ NextRuntime
    /\ stopped' = [stopped EXCEPT ![runtime] = TRUE]
    /\ disk' \in Interrupted({Poller})
    /\ call' = [call EXCEPT ![Poller] = Idle]
    /\ lock' = [lock EXCEPT ![runtime] = IF @ = Poller THEN Free ELSE @]

\* Home Assistant dies and starts again: only the Store survives.
Crash ==
    /\ NextRuntime
    /\ UNCHANGED stopped
    /\ disk' \in Interrupted(Everyone)
    /\ call' = [c \in Everyone |-> Idle]
    /\ lock' = [r \in Runtimes |-> Free]

Step(c) ==
    \/ Load(c) \/ Authorise(c) \/ Serve(c) \/ Match(c) \/ NoMatch(c)
    \/ MatchSaved(c) \/ MatchNotSaved(c) \/ CannotRead(c)
    \/ NothingToApply(c) \/ LookAgain(c) \/ Record(c) \/ Send(c) \/ NotRecorded(c)
    \/ Withdrawn(c) \/ Answered(c) \/ Refused(c)

Next ==
    \/ \E c \in Everyone : Refresh(c) \/ Apply(c) \/ Step(c) \/ Cancel(c)
    \/ Poll \/ StopPolling
    \/ \E id \in 1..MaxIntents : CarryOut(id) \/ Age(id)
    \/ \E s \in Settings : Change(s)
    \/ Toggle \/ Reload \/ Crash

Spec == Init /\ [][Next]_vars

-----------------------------------------------------------------------------
\* The event loop and the cloud's answers: a caller never waits for ever; the
\* lock is fair (asyncio.Lock is first come, first served); the background
\* task's reads do not fail for ever.
ReadsSettings == Serve(Poller) /\ call'[Poller].sample = config

Fairness ==
    /\ \A c \in Everyone : WF_vars(Step(c))
    /\ SF_vars(Poll)
    /\ SF_vars(Authorise(Poller))
    /\ SF_vars(ReadsSettings)

FairSpec == Spec /\ Fairness

-----------------------------------------------------------------------------
TypeOK ==
    /\ runtime \in Runtimes
    /\ enabled \in BOOLEAN
    /\ stopped \in [Runtimes -> BOOLEAN]
    /\ loaded \in [Runtimes -> BOOLEAN]
    /\ pending \in [Runtimes -> Requests]
    /\ status \in [Runtimes -> {"idle", "pending", "unconfirmed", "confirmed", "rejected"}]
    /\ lock \in [Runtimes -> Everyone \union {Free}]
    /\ task \in {"none", "start", "loop"}
    /\ disk \in Requests
    /\ issue \in BOOLEAN
    /\ call \in [Everyone -> Calls]
    /\ wish \in Seq(Settings) /\ Len(wish) <= MaxIntents
    /\ aged \subseteq 1..Len(wish)
    /\ config \in Settings
    /\ inflight \subseteq 1..Len(wish)
    /\ confirmed \subseteq 1..Len(wish)
    /\ external \in 0..MaxExternal
    /\ toggles \in 0..MaxToggles

\* The writes whose outcome is open: sent, perhaps still to be carried out, and
\* not seen by any read.
Open == inflight \ confirmed

\* "The runtime persists pending intent" (docs/architecture.md): while the
\* outcome of a write is open the Store holds its request, through errors,
\* cancellations, reloads and crashes; so at most one write is open, and no
\* second write is sent that the first could overtake.
OpenWriteStored == Open \subseteq {disk}

\* ... and once the loaded runtime has read the Store it knows the request, which
\* blocks its other writes and shows as pending.
OpenWriteKnown == loaded[runtime] => Open \subseteq {pending[runtime]}

\* A request is confirmed by a read of the settings it asks for, served after the
\* request was recorded: a read already under way is no evidence.
ConfirmedByLaterRead ==
    [][\A id \in confirmed' \ confirmed :
          \E c \in Everyone : /\ At(c, "answer")
                              /\ call[c].sample = wish[id]
                              /\ id <= call[c].after]_vars

\* An overdue request raises the repair issue, or is no longer pending, or the
\* option was turned off: the background task keeps looking, also after a
\* restart and after cancelled or failed calls.
OverdueReported ==
    (pending[runtime] \in aged /\ enabled) ~>
        (issue \/ pending[runtime] = None \/ ~enabled)

\* A request the gateway's settings agree with does not stay pending.
Reconciled ==
    \A id \in 1..MaxIntents :
        []<>~(enabled /\ pending[runtime] = id /\ config = wish[id])
=============================================================================
