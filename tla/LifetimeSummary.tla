-------------------------- MODULE LifetimeSummary --------------------------
(***************************************************************************)
(* The lifetime energy of the chargers: the store of the chargers' summary *)
(* (SummaryStore, summary.py), which is read by the coordinator's refresh  *)
(* and by the startup warmup, and the guard through which both pass the    *)
(* totals they read (EnergyManager._apply_lifetime_guard, energy.py).  A   *)
(* total that falls far is a reset of the meter or a glitch of the cloud:  *)
(* the guard holds the old total, drops the store's cache, and accepts the *)
(* new one only when it is read again.  The store shares one answer among  *)
(* its callers, so an answer must not confirm itself.                      *)
(*                                                                         *)
(* The store compares its revisions for equality only.  "completed" of a   *)
(* call says that the completion revision moved since the call began,      *)
(* "superseded" that the invalidation revision moved since the request was *)
(* sent, and "current" that the last completion is of the present          *)
(* invalidation revision.  Totals are in watt-hours.                       *)
(***************************************************************************)
EXTENDS Integers, FiniteSets

CONSTANTS
    Chargers,    \* the chargers of the site
    Answers,     \* the names of the cloud's answers; a name is used again once forgotten
    Readings,    \* the numbers the cloud may report as a total
    None

ASSUME LifetimeAssumption ==
    /\ Readings \subseteq Nat
    /\ None \notin Nat

Warmup == "warmup"
Refresh == "refresh"
Callers == {Warmup, Refresh}

\* The two targets of the cache's lifetime, as ages: a cache of age 0 is younger than
\* the fast target, of age 1 between the two, of age 2 older than the idle target.
FastTtl == 1
IdleTtl == 2
Ages == 0..2

ResetDrop == 500       \* LIFETIME_RESET_DROP_THRESHOLD_KWH
ResetFloor == 5000     \* LIFETIME_RESET_FLOOR_KWH
Tolerance == 50        \* LIFETIME_CONFIRM_TOLERANCE_KWH
ConfirmCount == 2      \* LIFETIME_CONFIRM_COUNT

\* The cloud reports watt-hours or kilowatt-hours without saying which: a number above
\* 200 is taken for watt-hours.
Total(reading) == IF reading > 200 THEN reading ELSE 1000 * reading

VARIABLES
    cache,       \* the cached summary, or None
    ttl,         \* the lifetime the next summary is stored with
    backoff,     \* TRUE while requests are withheld after a failure
    stopped,     \* the runtime was unloaded
    current,     \* the last completed request is of the present invalidation revision
    call,        \* the call of async_fetch each caller has under way
    warmed,      \* the startup warmup has asked for the summary
    guard,       \* per charger: the accepted total and the suspected reset
    reset        \* the chargers whose meter was reset for good (not in the code)

vars == <<cache, ttl, backoff, stopped, current, call, warmed, guard, reset>>

\* What an answer says of the chargers; None where it leaves the total out.
Reported == [Chargers -> Readings \union {None}]

Summaries == [answer: Answers, readings: Reported, age: Ages, ttl: {FastTtl, IdleTtl}]

Calls == [phase: {"idle", "waiting", "fetching"}, force: BOOLEAN,
          completed: BOOLEAN, superseded: BOOLEAN]

Idle == [phase |-> "idle", force |-> FALSE, completed |-> FALSE, superseded |-> FALSE]

\* "evidence" is not in the code: the answers that count towards the suspected reset, and
\* after a reset was accepted, until the next total, those that confirmed it.
Guards == [last: Nat \union {None}, pending: Nat \union {None},
           count: 0..(ConfirmCount - 1), evidence: SUBSET Answers]

TypeOK ==
    /\ cache \in Summaries \union {None}
    /\ ttl \in {FastTtl, IdleTtl}
    /\ backoff \in BOOLEAN
    /\ stopped \in BOOLEAN
    /\ current \in BOOLEAN
    /\ call \in [Callers -> Calls]
    /\ warmed \in BOOLEAN
    /\ guard \in [Chargers -> Guards]
    /\ reset \in SUBSET Chargers

Init ==
    /\ cache = None
    /\ ttl = IdleTtl
    /\ backoff = FALSE
    /\ stopped = FALSE
    /\ current = FALSE
    /\ call = [c \in Callers |-> Idle]
    /\ warmed = FALSE
    /\ guard = [s \in Chargers |-> [last |-> None, pending |-> None, count |-> 0, evidence |-> {}]]
    /\ reset = {}

-----------------------------------------------------------------------------
(* The guard *)

\* A fall large enough to be a reset of the meter.
Suspicious(g, total) ==
    /\ g.last # None
    /\ g.last - total >= ResetDrop
    /\ total <= ResetFloor \/ 2 * total <= g.last

\* Mutant: only an equal total confirms a suspected reset.
ConfirmsExactly(g, total) == g.pending = total

\* The total agrees with the reset already suspected.
Confirms(g, total) ==
    /\ g.pending # None
    /\ total - g.pending <= Tolerance
    /\ g.pending - total <= Tolerance

Settled(g, total) == [last |-> total, pending |-> None, count |-> 0, evidence |-> {}]

\* A suspected reset is counted, and accepted when it was counted often enough.  (The
\* code also accepts one that is old enough; a suspicion old enough is always counted
\* twice, since its clock starts when it is counted first.)
Suspected(g, total, answer) ==
    LET count == IF Confirms(g, total) THEN g.count + 1 ELSE 1
        evidence == IF Confirms(g, total) THEN g.evidence \union {answer} ELSE {answer}
    IN  IF count >= ConfirmCount
        THEN [last |-> total, pending |-> None, count |-> 0, evidence |-> evidence]
        ELSE [last |-> g.last, count |-> count, evidence |-> evidence,
              pending |-> IF Confirms(g, total) THEN g.pending ELSE total]

\* The guard of one charger after a total; a small fall is held and ends a suspicion.
Judged(g, total, answer) ==
    IF g.last = None \/ total > g.last THEN Settled(g, total)
    ELSE IF Suspicious(g, total) THEN Suspected(g, total, answer)
    ELSE Settled(g, g.last)

\* _apply_lifetime_guard for one charger; a reading that is left out leaves it alone.
Guarded(g, reading, answer) ==
    IF reading = None THEN g ELSE Judged(g, Total(reading), answer)

\* Mutant: a suspicion leaves the store's cache in place.
DoubtsNothing(g, total) == FALSE

\* A reset of the charger is suspected anew: the guard invalidates the store.
Doubts(g, total) == Suspicious(g, total) /\ ~Confirms(g, total)

Doubtful(summary) ==
    /\ summary # None
    /\ \E s \in Chargers : /\ summary.readings[s] # None
                           /\ Doubts(guard[s], Total(summary.readings[s]))

-----------------------------------------------------------------------------
(* The store *)

Fresh(summary) == summary # None /\ summary.age < summary.ttl

Fetching(c) == call[c].phase = "fetching"

\* The names no summary and no guard refers to.
Unused ==
    {a \in Answers : /\ cache = None \/ cache.answer # a
                     /\ \A s \in Chargers : a \notin guard[s].evidence}

\* The calls after the call of c ended; after an invalidation a request under way is
\* superseded.
CallsAfter(c, invalidated, completes) ==
    [d \in Callers |->
        IF d = c THEN Idle
        ELSE [call[d] EXCEPT !.completed = @ \/ (completes /\ call[d].phase = "waiting"),
                             !.superseded = @ \/ (invalidated /\ call[d].phase = "fetching")]]

\* The call of c returns the summary, and c passes its totals through the guard before
\* anything else runs.  "kept" is the cache the store is left with unless the guard
\* invalidates it, "completes" says that a request was completed.
Return(c, summary, kept, completes) ==
    /\ guard' = IF summary = None THEN guard
                ELSE [s \in Chargers |-> Guarded(guard[s], summary.readings[s], summary.answer)]
    /\ cache' = IF Doubtful(summary) THEN None ELSE kept
    /\ current' = ((current \/ completes) /\ ~Doubtful(summary))
    /\ call' = CallsAfter(c, Doubtful(summary), completes)

\* The answer another caller waited for is taken over, unless it was invalidated since.
Shared(completed) == completed /\ current

\* Inside the lock a call is answered from the cache, or sends the request.
Enter(c, force, completed, kept) ==
    \/ /\ stopped \/ Shared(completed) \/ (~force /\ Fresh(kept)) \/ backoff
       /\ Return(c, IF stopped THEN None ELSE kept, kept, FALSE)
    \/ /\ ~stopped /\ ~Shared(completed) /\ ~(~force /\ Fresh(kept)) /\ ~backoff
       /\ call' = [call EXCEPT ![c] = [Idle EXCEPT !.phase = "fetching"]]
       /\ cache' = kept
       /\ UNCHANGED <<current, guard>>

\* async_fetch up to its first await.
Fetch(c, force, kept) ==
    \/ ~force /\ Fresh(kept) /\ Return(c, kept, kept, FALSE)
    \/ /\ ~(~force /\ Fresh(kept))
       /\ \E d \in Callers : call[d].phase # "idle"
       /\ call' = [call EXCEPT ![c] = [Idle EXCEPT !.phase = "waiting", !.force = force]]
       /\ cache' = kept
       /\ UNCHANGED <<current, guard>>
    \/ /\ ~(~force /\ Fresh(kept))
       /\ \A d \in Callers : call[d].phase = "idle"
       /\ Enter(c, force, FALSE, kept)

\* The startup warmup asks for the summary, once.
BeginWarmup ==
    /\ ~stopped /\ ~warmed
    /\ warmed' = TRUE
    /\ Fetch(Warmup, TRUE, cache)
    /\ UNCHANGED <<ttl, backoff, stopped, reset>>

\* A refresh of the coordinator: prepare_refresh sets the target of the cache's lifetime
\* and says whether the cache will do; a charger whose limits are missing forces the
\* request too.
BeginRefresh(target, limitsMissing) ==
    LET due == cache = None \/ cache.ttl > target \/ cache.age >= target
        kept == IF due THEN cache ELSE [cache EXCEPT !.ttl = target]
    IN  /\ ~stopped
        /\ call[Refresh].phase = "idle"
        /\ ttl' = target
        /\ Fetch(Refresh, due \/ limitsMissing, kept)
        /\ UNCHANGED <<backoff, stopped, warmed, reset>>

\* The lock is free for a caller that waited for it.
Acquire(c) ==
    /\ call[c].phase = "waiting"
    /\ \A d \in Callers : ~Fetching(d)
    /\ Enter(c, call[c].force, call[c].completed, cache)
    /\ UNCHANGED <<ttl, backoff, stopped, warmed, reset>>

\* What the cloud may report: after a reset for good the totals stay low and within the
\* tolerance of each other.
Low == {r \in Readings : r \in 201..(200 + Tolerance)}

Reports == {readings \in Reported : \A s \in reset : readings[s] \in Low}

\* The store was invalidated since the request was sent.
Outdated(c) == call[c].superseded

\* The result of an outdated request is dropped; what is cached by now is returned.
ReturnCached(c) == Outdated(c) /\ Return(c, cache, cache, FALSE) /\ UNCHANGED backoff

\* The cloud answers the request of c.
Succeed(c, answer, readings) ==
    /\ Fetching(c)
    /\ \/ ReturnCached(c)
       \/ LET summary == [answer |-> answer, readings |-> readings, age |-> 0, ttl |-> ttl]
          IN  /\ ~Outdated(c)
              /\ Return(c, summary, summary, TRUE)
              /\ backoff' = FALSE
    /\ UNCHANGED <<ttl, stopped, warmed, reset>>

\* The request of c fails or times out.
Fail(c) ==
    /\ Fetching(c)
    /\ \/ ReturnCached(c)
       \/ ~Outdated(c) /\ Return(c, cache, cache, TRUE) /\ backoff' = TRUE
    /\ UNCHANGED <<ttl, stopped, warmed, reset>>

\* The task of c is cancelled: the warmup's deadline has passed, or the entry is unloaded.
Cancel(c) ==
    /\ call[c].phase # "idle"
    /\ call' = [call EXCEPT ![c] = Idle]
    /\ UNCHANGED <<cache, ttl, backoff, stopped, current, warmed, guard, reset>>

\* Unloading retires the store and invalidates what it holds.
Stop ==
    /\ ~stopped
    /\ stopped' = TRUE
    /\ cache' = None
    /\ current' = FALSE
    /\ call' = [c \in Callers |-> [call[c] EXCEPT !.superseded = @ \/ Fetching(c)]]
    /\ UNCHANGED <<ttl, backoff, warmed, guard, reset>>

Age ==
    /\ cache # None /\ cache.age < IdleTtl
    /\ cache' = [cache EXCEPT !.age = @ + 1]
    /\ UNCHANGED <<ttl, backoff, stopped, current, call, warmed, guard, reset>>

BackoffEnds ==
    /\ backoff
    /\ backoff' = FALSE
    /\ UNCHANGED <<cache, ttl, stopped, current, call, warmed, guard, reset>>

\* The meter of a charger starts again from nothing.
MeterReset(s) ==
    /\ s \notin reset
    /\ reset' = reset \union {s}
    /\ UNCHANGED <<cache, ttl, backoff, stopped, current, call, warmed, guard>>

AnyRefresh == \E target \in {FastTtl, IdleTtl}, limitsMissing \in BOOLEAN :
                BeginRefresh(target, limitsMissing)

AnySuccess == \E c \in Callers, answer \in Unused, readings \in Reports : Succeed(c, answer, readings)

Next ==
    \/ BeginWarmup
    \/ AnyRefresh
    \/ AnySuccess
    \/ \E c \in Callers : Acquire(c) \/ Fail(c) \/ Cancel(c)
    \/ \E s \in Chargers : MeterReset(s)
    \/ Stop \/ Age \/ BackoffEnds

Spec == Init /\ [][Next]_vars

\* Polling goes on, a caller that may take the lock does, the clock runs, a request ends
\* (the client's timeout), and the cloud answers one of infinitely many.
Fairness ==
    /\ WF_vars(AnyRefresh)
    /\ \A c \in Callers : WF_vars(Acquire(c))
    /\ SF_vars(AnySuccess)
    /\ WF_vars(Age)
    /\ WF_vars(BackoffEnds)

FairSpec == Spec /\ Fairness

-----------------------------------------------------------------------------
(* Properties *)

\* The accepted total of the charger falls.
Falls(s) ==
    /\ guard[s].last # None
    /\ guard'[s].last < guard[s].last

\* The accepted total of a charger falls only when two different answers of the cloud
\* showed the reset: an answer that two callers share, or that is read again from the
\* cache, does not confirm itself (summary.py:157, energy.py:1241).
ResetNeedsTwoAnswers ==
    [][\A s \in Chargers : Falls(s) => Cardinality(guard'[s].evidence) >= 2]_vars

\* Once the runtime is unloaded nothing is cached and no total changes, whatever request
\* is answered late (summary.py:183, 204).
RetiredIsInert == [][stopped => cache' = None /\ guard' = guard]_vars

\* Once the meter of a charger was reset for good, the reset is accepted, or the runtime is
\* unloaded: neither the cache, the backoff nor the sharing of answers withholds the second
\* look for ever (energy.py:1241-1275).
PersistentResetAccepted ==
    \A s \in Chargers : s \in reset ~> (stopped \/ guard[s].last \in Low)
=============================================================================
