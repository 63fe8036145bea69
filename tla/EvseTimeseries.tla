---------------------------- MODULE EvseTimeseries ----------------------------
(***************************************************************************)
(* The charger energy cache (evse_timeseries.py).  Callers of              *)
(* async_refresh that overlap share one request per endpoint family, and   *)
(* per day for the daily one, without a task of its own: whoever gets the  *)
(* key's lock makes the request, the others find its completion when the   *)
(* lock is theirs.  Failures and the provider's Retry-After set a backoff  *)
(* per family; a change of the site's chargers (prune) and stop start a    *)
(* new generation, which rejects what is still in flight.                  *)
(*                                                                         *)
(* Time is a clock of a few ticks (time.monotonic).  A payload is the set  *)
(* of the chargers it has records for.                                     *)
(***************************************************************************)
EXTENDS Integers, FiniteSets, FiniteSetsExt

CONSTANTS
    Callers,          \* concurrent calls of async_refresh
    Serials,          \* chargers the cloud knows
    Days,             \* calendar dates, a set of integers
    Calls,            \* the <<day, force>> callers ask for
    KeepDays,         \* EVSE_TIMESERIES_CACHE_DAYS
    Ttl,              \* cache_ttl
    Delays,           \* delays of a failure: backoff, or a longer Retry-After
    Nobody,           \* no lock holder; no caller
    Absent,           \* a missing dictionary entry; active_serials not yet known
    ActiveSets,       \* the sets of chargers the site may report
    MaxTime,          \* bound: the clock
    MaxGeneration     \* bound: invalidations

\* A cached payload.
CacheRecords == [stamp : Nat, serials : SUBSET Serials]

\* _Acquisition.  generation: of the last attempt that completed.
Acquisitions == [lock : Callers \union {Nobody}, generation : Int, callers : Nat]
NewAcquisition == [lock |-> Nobody, generation |-> -1, callers |-> 0]

ASSUME ConstantsAssumption ==
    /\ Days \subseteq Nat \ {0}
    /\ Calls \subseteq Days \X BOOLEAN
    /\ KeepDays \in Nat \ {0}
    /\ Ttl \in Nat
    /\ Delays \subseteq Nat
    /\ IsFiniteSet(Callers)
    /\ Nobody \notin Callers
    /\ Absent \notin Acquisitions \union CacheRecords
    /\ ActiveSets \subseteq SUBSET Serials
    /\ {MaxTime, MaxGeneration} \subseteq Nat

Endpoints == {"lifetime", "daily"}
Lifetime == <<"lifetime", 0>>
Keys == {Lifetime} \union ({"daily"} \X Days)
Endpoint(key) == key[1]

VARIABLES
    now,           \* the clock
    stopped,       \* _stopped
    generation,    \* _generation
    active,        \* _active_serials
    cache,         \* _lifetime_cache and _daily_cache
    backoff,       \* backoff_until of each endpoint; 0 is None
    acquisitions,  \* _acquisitions: the _Acquisition of each key
    call,          \* what each caller is doing
    deadline       \* history: the latest deadline of a failure, until a success

vars == <<now, stopped, generation, active, cache, backoff, acquisitions, call, deadline>>

-----------------------------------------------------------------------------
\* keys: those registered; todo: those not yet dealt with; done: those
\* whose completion count has changed since; since (history): those an attempt of
\* this generation has completed for since; gen: the generation of the request.
Quiet == [pc |-> "idle", force |-> FALSE, todo |-> {}, keys |-> {}, done |-> {},
          gen |-> 0, since |-> {}]

\* The key c is dealing with: the lifetime family comes first.
Turn(c) == IF Lifetime \in call[c].todo THEN Lifetime ELSE CHOOSE key \in call[c].todo : TRUE

BackoffActive(e) == now < backoff[e]

Fresh(key) == cache[key] # Absent /\ now - cache[key].stamp < Ttl

\* _endpoint_due
Due(key, force) ==
    ~stopped /\ ~BackoffActive(Endpoint(key)) /\ (force \/ ~Fresh(key))

\* Mutant of Filter: what the provider answers is kept whole.
KeepAll(serials) == serials
\* _filter_serials
Filter(serials) == IF active = Absent THEN serials ELSE serials \intersect active

Cached(c) == {key \in Keys : c[key] # Absent}
CachedDays(c) == {key[2] : key \in Cached(c) \ {Lifetime}}

\* Mutant of PruneDays: the oldest days are the ones kept.
PruneNewestDays(c) ==
    [key \in Keys |->
        IF Endpoint(key) = "daily"
           /\ Cardinality({d \in CachedDays(c) : d < key[2]}) >= KeepDays
        THEN Absent ELSE c[key]]
\* _prune_days
PruneDays(c) ==
    [key \in Keys |->
        IF Endpoint(key) = "daily"
           /\ Cardinality({d \in CachedDays(c) : d > key[2]}) >= KeepDays
        THEN Absent ELSE c[key]]

-----------------------------------------------------------------------------
Init ==
    /\ now = 1
    /\ stopped = FALSE
    /\ generation = 0
    /\ active = Absent
    /\ cache = [key \in Keys |-> Absent]
    /\ backoff = [e \in Endpoints |-> 0]
    /\ acquisitions = [key \in Keys |-> Absent]
    /\ call = [c \in Callers |-> Quiet]
    /\ deadline = [e \in Endpoints |-> 0]

\* async_refresh registers with the acquisition of each family that is due,
\* before its first await.
Refresh(c, day, force) ==
    LET due == {key \in {Lifetime, <<"daily", day>>} : Due(key, force)}
        found(key) == IF acquisitions[key] = Absent THEN NewAcquisition ELSE acquisitions[key]
    IN  /\ call[c].pc = "idle"
        /\ due # {}
        /\ acquisitions' = [key \in Keys |->
                              IF key \in due THEN [found(key) EXCEPT !.callers = @ + 1]
                              ELSE acquisitions[key]]
        /\ call' = [call EXCEPT ![c] =
                      [Quiet EXCEPT !.pc = "queued", !.force = force, !.keys = due, !.todo = due]]
        /\ UNCHANGED <<now, stopped, generation, active, cache, backoff, deadline>>

\* Mutants of Unregister: the record stays; it is dropped whoever else uses it.
UnregisterOne(a, keys) ==
    [key \in Keys |-> IF key \in keys THEN [a[key] EXCEPT !.callers = @ - 1] ELSE a[key]]
\* The finally clause of async_refresh.
Unregister(a, keys) ==
    [key \in Keys |->
        IF key \notin keys THEN a[key]
        ELSE IF a[key].callers = 1 THEN Absent
        ELSE [a[key] EXCEPT !.callers = @ - 1]]

\* c is done with the key whose turn it is, a being the acquisitions with its
\* lock released and cl the calls: it turns to the next one or returns.
Advance(c, a, cl) ==
    IF call[c].todo = {Turn(c)}
    THEN /\ call' = [cl EXCEPT ![c] = Quiet]
         /\ acquisitions' = Unregister(a, call[c].keys)
    ELSE /\ call' = [cl EXCEPT ![c].pc = "queued", ![c].todo = @ \ {Turn(c)}]
         /\ acquisitions' = a

\* Mutant of Shared: a completed attempt is not shared.
NeverShared(c, key) == FALSE
\* An attempt has completed since c registered.
Shared(c, key) ==
    /\ key \in call[c].done
    /\ acquisitions[key].generation = generation

\* The lock is c's: nothing is left to do for the key ...
Skip(c) ==
    LET key == Turn(c)
    IN  /\ call[c].pc = "queued"
        /\ acquisitions[key].lock = Nobody
        /\ Shared(c, key) \/ ~Due(key, call[c].force)
        /\ Advance(c, acquisitions, call)
        /\ UNCHANGED <<now, stopped, generation, active, cache, backoff, deadline>>

\* ... or c makes the request.
Request(c) ==
    LET key == Turn(c)
    IN  /\ call[c].pc = "queued"
        /\ acquisitions[key].lock = Nobody
        /\ ~Shared(c, key)
        /\ Due(key, call[c].force)
        /\ acquisitions' = [acquisitions EXCEPT ![key].lock = c]
        /\ call' = [call EXCEPT ![c].pc = "fetching", ![c].gen = generation]
        /\ UNCHANGED <<now, stopped, generation, active, cache, backoff, deadline>>

\* The answer belongs to a generation that is over.
Late(c) == call[c].gen # generation

\* Mutant of Released: the lock is kept.
KeptLocked(key) == acquisitions
Released(key) == [acquisitions EXCEPT ![key].lock = Nobody]

\* The request is over and counts as an attempt, unless it is late.
Complete(c, key) ==
    IF Late(c) THEN Advance(c, Released(key), call)
    ELSE Advance(c, [Released(key) EXCEPT ![key].generation = generation],
                 [d \in Callers |->
                    IF key \in call[d].keys
                    THEN [call[d] EXCEPT !.done = @ \union {key}, !.since = @ \union {key}]
                    ELSE call[d]])

\* The provider answers: a payload, or something that is none.
Answer(c) ==
    LET key == Turn(c)
        e == Endpoint(key)
    IN  /\ call[c].pc = "fetching"
        /\ Complete(c, key)
        /\ \/ /\ ~Late(c)
              /\ cache' = PruneDays([cache EXCEPT ![key] =
                              [stamp |-> now, serials |-> Filter(Serials)]])
              /\ backoff' = [backoff EXCEPT ![e] = 0]
              /\ deadline' = [deadline EXCEPT ![e] = 0]
           \/ UNCHANGED <<cache, backoff, deadline>>
        /\ UNCHANGED <<now, stopped, generation, active>>

\* Mutant of BackoffAfter: the last failure decides.
BackoffOfLast(e, delay) == now + delay
\* _note_service_unavailable: a backoff is extended, never shortened.
BackoffAfter(e, delay) == Max({now + delay, backoff[e]})

\* The request fails; the provider may have asked not to come back for a while.
Fail(c, delay) ==
    LET key == Turn(c)
        e == Endpoint(key)
    IN  /\ call[c].pc = "fetching"
        /\ Complete(c, key)
        /\ IF Late(c) THEN UNCHANGED <<backoff, deadline>>
           ELSE /\ backoff' = [backoff EXCEPT ![e] = BackoffAfter(e, delay)]
                /\ deadline' = [deadline EXCEPT ![e] = Max({now + delay, @})]
        /\ UNCHANGED <<now, stopped, generation, active, cache>>

\* The caller is cancelled: its lock, if it has one, goes to the next.
Cancel(c) ==
    LET key == Turn(c)
    IN  /\ call[c].pc # "idle"
        /\ acquisitions' =
             Unregister(IF call[c].pc = "fetching" THEN Released(key) ELSE acquisitions,
                        call[c].keys)
        /\ call' = [call EXCEPT ![c] = Quiet]
        /\ UNCHANGED <<now, stopped, generation, active, cache, backoff, deadline>>

NextGeneration ==
    /\ generation < MaxGeneration
    /\ generation' = generation + 1
    /\ call' = [c \in Callers |-> [call[c] EXCEPT !.since = {}]]

\* prune: the chargers of the site are known, or change.
Prune(serials) ==
    /\ serials # active
    /\ IF active # Absent THEN NextGeneration ELSE UNCHANGED <<generation, call>>
    /\ active' = serials
    /\ cache' = PruneDays([key \in Keys |->
                    IF cache[key] = Absent THEN Absent
                    ELSE [cache[key] EXCEPT !.serials = @ \intersect serials]])
    /\ UNCHANGED <<now, stopped, backoff, acquisitions, deadline>>

\* stop, which clears; the unload calls it twice.
Stop ==
    /\ NextGeneration
    /\ stopped' = TRUE
    /\ cache' = [key \in Keys |-> Absent]
    /\ UNCHANGED <<now, active, backoff, acquisitions, deadline>>

Tick ==
    /\ now < MaxTime
    /\ now' = now + 1
    /\ UNCHANGED <<stopped, generation, active, cache, backoff, acquisitions, call,
                   deadline>>

Next ==
    \/ \E c \in Callers :
         \/ \E asked \in Calls : Refresh(c, asked[1], asked[2])
         \/ Skip(c) \/ Request(c) \/ Answer(c) \/ Cancel(c)
         \/ \E delay \in Delays : Fail(c, delay)
    \/ \E serials \in ActiveSets : Prune(serials)
    \/ Stop
    \/ Tick

Spec == Init /\ [][Next]_vars

\* A request ends (the API client bounds each by a timeout) and a caller that
\* can have the lock goes on.
Fairness ==
    \A c \in Callers :
        /\ WF_vars(Answer(c) \/ \E delay \in Delays : Fail(c, delay))
        /\ SF_vars(Skip(c) \/ Request(c))

FairSpec == Spec /\ Fairness

-----------------------------------------------------------------------------
PcValues == {"idle", "queued", "fetching"}
CallStates == [pc : PcValues, force : BOOLEAN, todo : SUBSET Keys, keys : SUBSET Keys,
               done : SUBSET Keys, gen : Nat, since : SUBSET Keys]

TypeOK ==
    /\ now \in Nat
    /\ stopped \in BOOLEAN
    /\ generation \in Nat
    /\ active \in {Absent} \union ActiveSets
    /\ cache \in [Keys -> {Absent} \union CacheRecords]
    /\ backoff \in [Endpoints -> Nat]
    /\ deadline \in [Endpoints -> Nat]
    /\ acquisitions \in [Keys -> {Absent} \union Acquisitions]
    /\ call \in [Callers -> CallStates]

\* "Acquisition records are removed when their last caller finishes" and not
\* before (the finally clause would raise KeyError, or leave a caller with a lock
\* nobody else sees): a record counts its callers, through cancellations too, and
\* its lock belongs to one that is fetching its key.
RecordsCountCallers ==
    \A key \in Keys :
        LET users == {c \in Callers : key \in call[c].keys}
        IN  IF acquisitions[key] = Absent THEN users = {}
            ELSE /\ acquisitions[key].callers = Cardinality(users)
                 /\ users # {}
                 /\ \A c \in Callers :
                       acquisitions[key].lock = c <=>
                           call[c].pc = "fetching" /\ Turn(c) = key

\* "Authoritative serial pruning removes retired charger records", and a request
\* that was in flight does not bring them back; nor does one refill the cache
\* after stop.
NoRetiredRecords ==
    \A key \in Cached(cache) :
        /\ ~stopped
        /\ active # Absent => cache[key].serials \subseteq active

\* "Callers overlapping one attempt reuse its completion": a caller does not make
\* a request for a key some attempt has completed since the caller registered,
\* unless a new generation began in between.
AttemptShared ==
    [][\A c \in Callers :
          call[c].pc = "queued" /\ call'[c].pc = "fetching"
              => Turn(c) \notin call[c].since]_vars

\* "Older requests cannot displace newer dates": a day leaves the cache only for
\* KeepDays newer ones.
NewerDaysKept ==
    [][~stopped' =>
          \A day \in CachedDays(cache) \ CachedDays(cache') :
              Cardinality({d \in CachedDays(cache') : d > day}) >= KeepDays]_vars

\* "Forced reads bypass successful-cache freshness, never an active failure or
\* provider deadline": no request is made before the latest deadline a failure of
\* the current generation set, whichever caller or day it was for, unless a
\* success came after it.
DeadlineHonoured ==
    [][\A c \in Callers :
          call[c].pc = "queued" /\ call'[c].pc = "fetching"
              => now >= deadline[Endpoint(Turn(c))]]_vars

\* Every call returns: "cancelled owners release waiters".
CallsReturn == \A c \in Callers : call[c].pc # "idle" ~> call[c].pc = "idle"
=============================================================================
