--------------------------- MODULE ChargingCommands ---------------------------
(***************************************************************************)
(* The charging commands of one charger (evse_runtime.py): Start and Stop  *)
(* of the user, the restart that applies a new charging current (a Stop, a *)
(* delay and a Start) and the automatic resume of a suspended session.     *)
(* All of them take the charger's command lock; an explicit command first  *)
(* replaces the charger's command token, and whoever finds another token   *)
(* after an await returns as superseded.  Chargers share nothing.          *)
(*                                                                         *)
(* The current task of the code is the process an action is for.  Home     *)
(* Assistant starts tasks eagerly: a task runs to its first await in the   *)
(* step that creates it.  Between the release of an asyncio.Lock and the   *)
(* step of the waiter it wakes the lock counts as free, but a newcomer     *)
(* waits its turn.                                                         *)
(***************************************************************************)
EXTENDS Integers, Sequences

CONSTANTS
    Commands,      \* calls of async_start_charging and async_stop_charging
    Setters,       \* calls that set the charging current
    Restarts,      \* async_restart_after_amp_change tasks
    Resumer,       \* the async_auto_resume task
    Nobody,
    MaxIntents,    \* bound: explicit commands
    MaxTokens      \* bound: command tokens made

ASSUME ConstantsAssumption ==
    /\ Commands \intersect Setters = {} /\ Commands \intersect Restarts = {}
    /\ Setters \intersect Restarts = {}
    /\ Resumer \notin Commands \union Setters \union Restarts
    /\ Nobody \notin Commands \union Setters \union Restarts \union {Resumer}
    /\ {MaxIntents, MaxTokens} \subseteq Nat

Processes == Commands \union Setters \union Restarts \union {Resumer}
ChargerStates == {"charging", "suspended", "idle", "unplugged"}
NoToken == 0

VARIABLES
    active,     \* coord.runtime_active
    token,      \* _charging_command_tokens[sn]
    made,       \* the number of tokens made
    lock,       \* the holder of the command lock
    queue,      \* its waiters
    restart,    \* the stored amp restart: _amp_restart_tasks and its intent
    desired,    \* _desired_charging
    telemetry,  \* what coord.data says it does; "unplugged" when it says nothing
    proc,       \* what each process is doing
    latest,     \* history: explicit commands so far
    halted      \* history: a Stop of the user is completed, and no Start since

vars == <<active, token, made, lock, queue, restart, desired, telemetry, proc,
          latest, halted>>

-----------------------------------------------------------------------------
\* since (history): the explicit commands there were when the process began, or,
\* for a restart, when the new current was set.
Quiet == [pc |-> "idle", kind |-> "none", token |-> -1, since |-> 0,
          strict |-> FALSE, forced |-> FALSE]

\* charging_command_token: made when there is none.
Current == IF token = NoToken THEN made + 1 ELSE token
Adopt(t) == t <= MaxTokens /\ token' = t /\ made' = IF t > made THEN t ELSE made

\* How c's command leaves c: a restart whose Stop has not failed sleeps before its
\* Start while it is the stored one; a restart that ends is no longer stored.
Rests(c, p, stored, failed) == c \in Restarts /\ p.kind = "stop" /\ stored = c /\ ~failed
Left(c, p, stored, failed) ==
    IF Rests(c, p, stored, failed) THEN [p EXCEPT !.pc = "sleep"] ELSE Quiet
Stored(c, p, stored, failed) ==
    IF stored = c /\ ~Rests(c, p, stored, failed) THEN Nobody ELSE stored

\* Mutant of Released: a command that is superseded keeps the lock.
KeptIfSuperseded(c) == IF proc[c].token # token THEN lock ELSE Nobody
Released(c) == IF lock = c THEN Nobody ELSE lock

Over(c, failed) ==
    /\ proc' = [proc EXCEPT ![c] = Left(c, proc[c], restart, failed)]
    /\ restart' = Stored(c, proc[c], restart, failed)
    /\ lock' = Released(c)

-----------------------------------------------------------------------------
Init ==
    /\ active = TRUE
    /\ token = NoToken
    /\ made = 0
    /\ lock = Nobody
    /\ queue = <<>>
    /\ restart = Nobody
    /\ telemetry \in ChargerStates
    /\ desired = IF telemetry = "charging" THEN "on" ELSE "off"
    /\ proc = [c \in Processes |-> Quiet]
    /\ latest = 0
    /\ halted = FALSE

\* Mutant of Obsolete: the desired state is not looked at.
ObsoleteByToken(p, t) == p.token # t
\* The holder of the lock finds its intent replaced, or the charger stopped.
Obsolete(p, t) == p.token # t \/ (p.kind = "resume" /\ desired = "off")

\* A Start that the telemetry makes needless: "already_charging".
Needless(c, p, stored) ==
    /\ p.kind = "start"
    /\ ~p.strict /\ ~p.forced /\ stored # c
    /\ desired # "off"
    /\ telemetry = "charging"

\* c, in state p, has the lock, t being the charger's token: it returns, or sends
\* its request.  rest and stored are proc and restart but for what c changes.
Return(c, p, t, rest, stored) ==
    /\ \/ Obsolete(p, t) /\ UNCHANGED desired
       \/ /\ ~Obsolete(p, t)
          /\ p.kind = "start" /\ telemetry = "unplugged"
          /\ UNCHANGED desired
       \/ /\ ~Obsolete(p, t)
          /\ Needless(c, p, stored)
          /\ desired' = "on"
    /\ proc' = [rest EXCEPT ![c] = Left(c, p, stored, FALSE)]
    /\ restart' = Stored(c, p, stored, FALSE)
    /\ UNCHANGED lock

Send(c, p, t, rest, stored) ==
    /\ ~Obsolete(p, t)
    /\ p.kind = "start" => telemetry # "unplugged"
    /\ ~Needless(c, p, stored)
    /\ proc' = [rest EXCEPT ![c] = [p EXCEPT !.pc = "request"]]
    /\ lock' = c
    /\ restart' = stored
    /\ UNCHANGED desired

Free(waiting) == lock = Nobody /\ waiting = <<>>

\* c takes the command lock, or waits for it.
Join(c, p, t, rest, stored, waiting) ==
    IF Free(waiting)
    THEN /\ Return(c, p, t, rest, stored) \/ Send(c, p, t, rest, stored)
         /\ queue' = waiting
    ELSE /\ queue' = Append(waiting, c)
         /\ proc' = [rest EXCEPT ![c] = [p EXCEPT !.pc = "queued"]]
         /\ restart' = stored
         /\ UNCHANGED <<lock, desired>>

\* The waiter that was woken has its turn.
Enter(c) ==
    /\ lock = Nobody
    /\ queue # <<>> /\ c = Head(queue)
    /\ queue' = Tail(queue)
    /\ Return(c, proc[c], token, proc, restart) \/ Send(c, proc[c], token, proc, restart)
    /\ UNCHANGED <<active, token, made, telemetry, latest, halted>>

-----------------------------------------------------------------------------
\* _cancel_pending_amp_restart: the stored restart is forgotten, and its task is
\* cancelled unless a command is under way.
Cancelled == IF restart # Nobody /\ lock = Nobody THEN {restart} ELSE {}
Without(cs) == SelectSeq(queue, LAMBDA d : d \notin cs)
Silenced(cs) == [c \in Processes |-> IF c \in cs THEN Quiet ELSE proc[c]]

\* Mutants of NewIntent: the token is kept; the restart is not forgotten.
TokenKept == Current
NewIntent == made + 1

\* The user's Start (strict: with a charging current) or Stop.
Command(c, kind, strict) ==
    /\ active
    /\ proc[c].pc = "idle"
    /\ latest < MaxIntents
    /\ Adopt(NewIntent)
    /\ latest' = latest + 1
    /\ halted' = (halted /\ kind # "start")
    /\ LET p == [Quiet EXCEPT !.kind = kind, !.token = NewIntent, !.since = latest + 1,
                              !.strict = strict, !.forced = restart # Nobody \/ lock # Nobody]
       IN  Join(c, p, NewIntent, Silenced(Cancelled), Nobody, Without(Cancelled))
    /\ UNCHANGED <<active, telemetry>>

\* The cloud carries c's command out and says so.
Serve(c) ==
    /\ proc[c].pc = "request"
    /\ IF proc[c].token # token
       THEN Over(c, FALSE)
       ELSE /\ proc' = [proc EXCEPT ![c].pc = IF proc[c].kind = "resume" THEN "settle"
                                              ELSE "stream"]
            /\ UNCHANGED <<lock, restart>>
    /\ UNCHANGED <<active, token, made, queue, desired, telemetry, latest, halted>>

\* The cloud finds the charger not ready for a Start.
NotReady(c) ==
    /\ proc[c].pc = "request" /\ proc[c].kind # "stop"
    /\ desired' = IF proc[c].token = token /\ proc[c].kind = "start" THEN "off" ELSE desired
    /\ Over(c, FALSE)
    /\ UNCHANGED <<active, token, made, queue, telemetry, latest, halted>>

\* Mutant of MayRetry: whatever the user has asked since.
RetryAlways(c) == proc[c].kind # "stop" /\ ~proc[c].strict
\* async_issue_start_charging asks again, without a level, after "invalid charge level".
MayRetry(c) == proc[c].kind # "stop" /\ ~proc[c].strict /\ proc[c].token = token

\* c's request fails, whether or not the cloud has carried it out.
Fail(c) ==
    /\ proc[c].pc = "request"
    /\ \/ Over(c, TRUE)
       \/ /\ MayRetry(c)
          /\ proc' = [proc EXCEPT ![c].strict = TRUE]
          /\ UNCHANGED <<lock, restart>>
    /\ UNCHANGED <<active, token, made, queue, desired, telemetry, latest, halted>>

\* Mutant of StillCurrent: the check after the call is left out.
AssumedCurrent(c) == TRUE
StillCurrent(c) == proc[c].token = token

\* The stream is on: the outcome is recorded.
Streaming(c) ==
    /\ proc[c].pc = "stream"
    /\ IF StillCurrent(c)
       THEN /\ desired' = IF proc[c].kind = "stop" THEN "off" ELSE "on"
            /\ halted' = (proc[c].kind = "stop" /\ (c \in Commands \/ halted))
            /\ proc' = [proc EXCEPT ![c].pc = "settle"]
            /\ UNCHANGED <<lock, restart>>
       ELSE /\ Over(c, FALSE)
            /\ UNCHANGED <<desired, halted>>
    /\ UNCHANGED <<active, token, made, queue, telemetry, latest>>

\* The charge mode is enforced and the refresh asked for, or one of them fails.
Settle(c) ==
    /\ proc[c].pc = "settle"
    /\ \E failed \in BOOLEAN : Over(c, failed)
    /\ UNCHANGED <<active, token, made, queue, desired, telemetry, latest, halted>>

\* A caller of the user's goes away, at whichever await it is.
Abandon(c) ==
    /\ c \in Commands \union Setters
    /\ proc[c].pc # "idle"
    /\ queue' = Without({c})
    /\ proc' = [proc EXCEPT ![c] = Quiet]
    /\ lock' = Released(c)
    /\ UNCHANGED <<active, token, made, restart, desired, telemetry, latest, halted>>

-----------------------------------------------------------------------------
\* A new charging current is set: the setter notes the intent, and asks for a refresh.
Capture(n) ==
    /\ active
    /\ proc[n].pc = "idle"
    /\ Adopt(Current)
    /\ proc' = [proc EXCEPT ![n] = [Quiet EXCEPT !.pc = "amps", !.token = Current,
                                                 !.since = latest]]
    /\ UNCHANGED <<active, lock, queue, restart, desired, telemetry, latest, halted>>

Wanted(n) == telemetry = "charging" /\ proc[n].token = Current

\* ... then restarts an active session (schedule_amp_restart).
Apply(n) ==
    /\ proc[n].pc = "amps"
    /\ Adopt(Current)
    /\ IF Wanted(n)
       THEN \E c \in Restarts :
              /\ proc[c].pc = "idle"
              /\ LET p == [Quiet EXCEPT !.kind = "stop", !.token = Current,
                                        !.since = proc[n].since]
                 IN  Join(c, p, Current, Silenced(Cancelled \union {n}), c,
                          Without(Cancelled))
       ELSE /\ proc' = [proc EXCEPT ![n] = Quiet]
            /\ UNCHANGED <<lock, queue, restart, desired>>
    /\ UNCHANGED <<active, telemetry, latest, halted>>

\* The restart's delay is over.
Wake(c) ==
    /\ proc[c].pc = "sleep"
    /\ \/ /\ restart = c
          /\ Adopt(Current)
          /\ Join(c, [proc[c] EXCEPT !.kind = "start", !.token = Current], Current, proc,
                  restart, queue)
       \/ /\ proc' = [proc EXCEPT ![c] = Quiet]
          /\ restart' = IF restart = c THEN Nobody ELSE restart
          /\ UNCHANGED <<token, made, lock, queue, desired>>
    /\ UNCHANGED <<active, telemetry, latest, halted>>

-----------------------------------------------------------------------------
\* A poll finds the charger in any state (it does as its driver and its own program
\* like), or reports the state of before the last command once more; then
\* sync_desired_charging resumes a suspended session.
Resume ==
    /\ proc[Resumer].pc = "idle"
    /\ Adopt(Current)
    /\ Join(Resumer, [Quiet EXCEPT !.kind = "resume", !.token = Current, !.since = latest],
            Current, proc, restart, queue)

Poll ==
    /\ active
    /\ telemetry' \in ChargerStates
    /\ IF desired = "unset"
       THEN /\ desired' = IF telemetry' = "charging" THEN "on" ELSE "off"
            /\ UNCHANGED <<token, made, lock, queue, restart, proc>>
       ELSE \/ UNCHANGED <<token, made, lock, queue, restart, proc, desired>>
            \/ desired = "on" /\ telemetry' = "suspended" /\ Resume
    /\ UNCHANGED <<active, latest, halted>>

\* The processes in cs are cancelled where they are.
Drop(cs) ==
    /\ proc' = Silenced(cs)
    /\ queue' = Without(cs)
    /\ lock' = IF lock \in cs THEN Nobody ELSE lock
    /\ restart' = Nobody

\* The charger leaves the site.
Prune ==
    /\ active
    /\ token # NoToken \/ desired # "unset"
    /\ token' = NoToken
    /\ desired' = "unset"
    /\ telemetry' = "unplugged"
    /\ halted' = FALSE
    /\ Drop(Cancelled \union {Resumer})
    /\ UNCHANGED <<active, made, latest>>

\* The entry is unloaded or reloaded; the caches of a configured charger stay.
Retire ==
    /\ active
    /\ active' = FALSE
    /\ token' = NoToken
    /\ desired' \in {desired, "unset"}
    /\ Drop(Restarts \union {Resumer})
    /\ UNCHANGED <<made, telemetry, latest, halted>>

-----------------------------------------------------------------------------
Proceed(c) == Serve(c) \/ NotReady(c) \/ Fail(c) \/ Streaming(c) \/ Settle(c)

Next ==
    \/ \E c \in Commands : \E kind \in {"start", "stop"}, strict \in BOOLEAN :
           (kind = "stop" => ~strict) /\ Command(c, kind, strict)
    \/ \E c \in Processes : Enter(c) \/ Proceed(c) \/ Abandon(c)
    \/ \E n \in Setters : Capture(n) \/ Apply(n)
    \/ \E c \in Restarts : Wake(c)
    \/ Poll
    \/ Prune
    \/ Retire

Spec == Init /\ [][Next]_vars

\* A request is answered or times out, a sleep ends, a woken task runs.
Fairness ==
    /\ WF_vars(\E c \in Processes : Enter(c))
    /\ \A c \in Processes : WF_vars(Proceed(c))
    /\ \A c \in Restarts : WF_vars(Wake(c))
    /\ \A n \in Setters : WF_vars(Apply(n))

FairSpec == Spec /\ Fairness

-----------------------------------------------------------------------------
ProcessState ==
    [pc : {"idle", "queued", "request", "stream", "settle", "sleep", "amps"},
     kind : {"none", "start", "stop", "resume"},
     token : -1 .. MaxTokens, since : 0 .. MaxIntents,
     strict : BOOLEAN, forced : BOOLEAN]

\* Type invariant.  Only waiters are in the queue, and the stored restart is alive.
TypeOK ==
    /\ active \in BOOLEAN
    /\ token \in 0 .. MaxTokens
    /\ made \in 0 .. MaxTokens
    /\ lock \in Processes \union {Nobody}
    /\ queue \in Seq({c \in Processes : proc[c].pc = "queued"})
    /\ restart \in {c \in Restarts : proc[c].pc # "idle"} \union {Nobody}
    /\ desired \in {"unset", "on", "off"}
    /\ telemetry \in ChargerStates
    /\ proc \in [Processes -> ProcessState]
    /\ latest \in 0 .. MaxIntents
    /\ halted \in BOOLEAN

\* Commands to one charger do not overtake one another: the process between its
\* request and the end of its command is the one that holds the lock, so there is one
\* at most, whoever is cancelled, forgotten or woken (evse_runtime.py:568, 762, 924).
HolderCommands ==
    \A c \in Processes : lock = c <=> proc[c].pc \in {"request", "stream", "settle"}

\* c sends a request, a retry included.
Sends(c) == proc'[c].pc = "request" /\ proc'[c] # proc[c]

\* "Explicit intent is recorded before waiting": a request, a retry or a delayed
\* Start is sent only while no explicit command is newer than what it is for, however
\* long it has waited (the token checks of evse_runtime.py and the restart's owner).
NewestIntentSends ==
    [][\A c \in Processes : Sends(c) => proc'[c].since = latest']_vars

\* A command that a newer one has replaced while it was under way does not record
\* its own outcome over the newer intent (evse_runtime.py:814, 939).
NewestIntentRecords ==
    [][\A c \in Processes :
           proc[c].pc = "stream" /\ proc'[c].pc # "stream" /\ desired' \notin {desired, "unset"}
               => proc[c].since = latest]_vars

\* After a completed Stop no automatic resume sends a Start, whichever was first
\* and whatever old telemetry says, until the user asks for a Start or the restart for
\* a new current completes one.
StopHolds ==
    [][\A c \in Processes : Sends(c) /\ proc'[c].kind = "resume" => ~halted]_vars

\* Every command returns, whoever is cancelled or replaced while it waits.
CommandsReturn ==
    \A c \in Commands \union {Resumer} : proc[c].pc # "idle" ~> proc[c].pc = "idle"
=============================================================================
