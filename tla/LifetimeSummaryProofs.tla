------------------------ MODULE LifetimeSummaryProofs ------------------------
(***************************************************************************)
(* Proofs about the lifetime energy, for any chargers, readings and names  *)
(* of answers.  The inductive invariant adds to the types that a suspected *)
(* reset rests on exactly one answer, that this answer is not in the cache *)
(* (the guard invalidated it), and that after the unload nothing is cached *)
(* and every request under way is superseded.                              *)
(***************************************************************************)
EXTENDS LifetimeSummary, FiniteSetTheorems, TLAPS

\* A charger's suspicion was counted once, for one answer.
Counted(g) ==
    IF g.pending = None THEN g.count = 0
    ELSE g.count = 1 /\ \E a \in Answers : g.evidence = {a}

\* The answer is not the one the suspicion rests on.
NewTo(g, answer) == g.pending # None => answer \notin g.evidence

CountedOnce == \A s \in Chargers : Counted(guard[s])

EvidenceNotCached == cache # None => \A s \in Chargers : NewTo(guard[s], cache.answer)

Retired ==
    stopped => cache = None /\ \A c \in Callers : Fetching(c) => call[c].superseded

LifetimeInv == TypeOK /\ CountedOnce /\ EvidenceNotCached /\ Retired

-----------------------------------------------------------------------------
LEMMA TotalNat == ASSUME NEW r \in Readings PROVE Total(r) \in Nat
BY LifetimeAssumption DEF Total

LEMMA TwoAnswers ==
    ASSUME NEW a, NEW b, a # b
    PROVE  Cardinality({a} \union {b}) >= 2
<1>1. IsFiniteSet({b}) /\ Cardinality({b}) = 1
  BY FS_Singleton
<1>2. Cardinality({b} \union {a}) = Cardinality({b}) + 1
  BY <1>1, FS_AddElement
<1> QED  BY <1>1, <1>2

\* What the guard of one charger does with a total of an answer new to it.
LEMMA JudgedOutcome ==
    ASSUME NEW g \in Guards, NEW total \in Nat, NEW answer \in Answers,
           Counted(g), NewTo(g, answer)
    PROVE  /\ Judged(g, total, answer) \in Guards
           /\ Counted(Judged(g, total, answer))
           /\ ~Doubts(g, total) => NewTo(Judged(g, total, answer), answer)
           /\ g.last # None /\ Judged(g, total, answer).last < g.last
                => Cardinality(Judged(g, total, answer).evidence) >= 2
<1> USE LifetimeAssumption
<1> DEFINE h == Judged(g, total, answer)
<1>1. /\ g.last \in Nat \union {None} /\ g.pending \in Nat \union {None}
      /\ g.count \in 0..1 /\ g.evidence \in SUBSET Answers
      /\ g = [last |-> g.last, pending |-> g.pending, count |-> g.count, evidence |-> g.evidence]
  BY DEF Guards, ConfirmCount
<1>2. ASSUME NEW t \in Nat \union {None}
      PROVE  /\ Settled(g, t) \in Guards /\ Counted(Settled(g, t))
             /\ NewTo(Settled(g, t), answer) /\ Settled(g, t).last = t
  BY DEF Settled, Guards, Counted, NewTo, ConfirmCount
<1>3. CASE g.last = None
  <2>1. h = Settled(g, total)
    BY <1>3 DEF Judged
  <2> QED  BY <1>2, <1>3, <2>1
<1>4. CASE g.last # None /\ total > g.last
  <2>1. h = Settled(g, total)
    BY <1>4 DEF Judged
  <2> QED  BY <1>1, <1>2, <1>4, <2>1
<1>5. CASE g.last # None /\ ~(total > g.last) /\ ~Suspicious(g, total)
  <2>1. h = Settled(g, g.last)
    BY <1>5 DEF Judged
  <2> QED  BY <1>1, <1>2, <1>5, <2>1
<1>6. CASE g.last # None /\ ~(total > g.last) /\ Suspicious(g, total)
  <2>1. h = Suspected(g, total, answer)
    BY <1>6 DEF Judged
  <2>2. CASE Confirms(g, total)
    <3>1. PICK a \in Answers : g.count = 1 /\ g.evidence = {a} /\ a # answer
      BY <2>2 DEF Counted, Confirms, NewTo
    <3>2. h = [last |-> total, pending |-> None, count |-> 0, evidence |-> {a} \union {answer}]
      BY <2>1, <2>2, <3>1 DEF Suspected, ConfirmCount
    <3>3. h \in Guards /\ Counted(h) /\ NewTo(h, answer)
      BY <3>1, <3>2 DEF Guards, Counted, NewTo, ConfirmCount
    <3>4. h.evidence = {a} \union {answer}
      BY <3>2
    <3>5. Cardinality({a} \union {answer}) >= 2
      BY <3>1, TwoAnswers
    <3> QED  BY <3>3, <3>4, <3>5
  <2>3. CASE ~Confirms(g, total)
    <3>1. h = [last |-> g.last, count |-> 1, evidence |-> {answer}, pending |-> total]
      BY <2>1, <2>3 DEF Suspected, ConfirmCount
    <3>2. h \in Guards /\ Counted(h) /\ h.last = g.last
      BY <1>1, <3>1 DEF Guards, Counted, ConfirmCount
    <3>3. Doubts(g, total)
      BY <1>6, <2>3 DEF Doubts
    <3> QED  BY <1>1, <1>6, <3>2, <3>3
  <2> QED  BY <2>2, <2>3
<1> QED  BY <1>3, <1>4, <1>5, <1>6

-----------------------------------------------------------------------------
FallsConfirmed == \A s \in Chargers : Falls(s) => Cardinality(guard'[s].evidence) >= 2

\* What every step does to the store, the calls and the guards.
Outcome ==
    /\ cache' \in Summaries \union {None} /\ current' \in BOOLEAN
    /\ call' \in [Callers -> Calls] /\ guard' \in [Chargers -> Guards]
    /\ CountedOnce' /\ EvidenceNotCached' /\ FallsConfirmed
    /\ stopped => cache' = None /\ guard' = guard

\* A request that was superseded stays so, and none begins after the unload.
CallsRetired ==
    stopped => \A c \in Callers : call'[c].phase = "fetching" => call'[c].superseded

\* The cache, or the cache with another lifetime.
LikeCache(kept) ==
    /\ kept \in Summaries \union {None}
    /\ kept # None => cache # None /\ kept.answer = cache.answer

LEMMA LastIsNat ==
    ASSUME TypeOK, NEW s \in Chargers
    PROVE  guard[s].last \in Nat \union {None} /\ guard[s] \in Guards
BY DEF TypeOK, Guards

LEMMA QuietStep ==
    ASSUME LifetimeInv, guard' = guard, LikeCache(cache')
    PROVE  /\ guard' \in [Chargers -> Guards] /\ CountedOnce' /\ EvidenceNotCached'
           /\ FallsConfirmed /\ (stopped => cache' = None)
<1>1. guard' \in [Chargers -> Guards] /\ CountedOnce'
  BY DEF LifetimeInv, TypeOK, CountedOnce
<1>2. EvidenceNotCached' /\ (stopped => cache' = None)
  BY DEF LifetimeInv, EvidenceNotCached, LikeCache, Retired
<1>3. FallsConfirmed
  <2> SUFFICES ASSUME NEW s \in Chargers, Falls(s) PROVE FALSE
    BY DEF FallsConfirmed
  <2>1. guard[s].last \in Nat
    BY LastIsNat DEF Falls, LifetimeInv
  <2> QED  BY <2>1 DEF Falls
<1> QED  BY <1>1, <1>2, <1>3

LEMMA CallsAfterTyped ==
    ASSUME LifetimeInv, NEW c \in Callers, NEW invalidated \in BOOLEAN, NEW completes \in BOOLEAN,
           call' = CallsAfter(c, invalidated, completes)
    PROVE  call' \in [Callers -> Calls] /\ CallsRetired
<1>1. Idle \in Calls /\ Idle.phase = "idle"
  BY DEF Idle, Calls
<1>2. ASSUME NEW d \in Callers, d # c
      PROVE  /\ call'[d] \in Calls /\ call'[d].phase = call[d].phase
             /\ call[d].superseded => call'[d].superseded
  <2>1. call[d] \in Calls
    BY DEF LifetimeInv, TypeOK
  <2>2. call'[d] = [call[d] EXCEPT
                      !.completed = @ \/ (completes /\ call[d].phase = "waiting"),
                      !.superseded = @ \/ (invalidated /\ call[d].phase = "fetching")]
    BY <1>2 DEF CallsAfter
  <2> QED  BY <2>1, <2>2 DEF Calls
<1>3. call' = [d \in Callers |-> call'[d]] /\ call'[c] = Idle
  BY DEF CallsAfter
<1>4. call' \in [Callers -> Calls]
  BY <1>1, <1>2, <1>3
<1>5. CallsRetired
  <2> SUFFICES ASSUME stopped, NEW d \in Callers, call'[d].phase = "fetching"
               PROVE  call'[d].superseded
    BY DEF CallsRetired
  <2>1. d # c
    BY <1>1, <1>3
  <2> QED  BY <1>2, <2>1 DEF LifetimeInv, Retired, Fetching
<1> QED  BY <1>4, <1>5

\* A call returns a summary whose answer is new to every suspicion.
LEMMA ReturnOutcome ==
    ASSUME LifetimeInv, NEW c \in Callers, NEW summary \in Summaries \union {None},
           NEW completes \in BOOLEAN, Return(c, summary, summary, completes),
           summary # None => \A s \in Chargers : NewTo(guard[s], summary.answer),
           stopped => summary = None
    PROVE  Outcome /\ CallsRetired
<1>1. current' \in BOOLEAN /\ Doubtful(summary) \in BOOLEAN
  BY DEF Return, LifetimeInv, TypeOK, Doubtful
<1>2. call' \in [Callers -> Calls] /\ CallsRetired
  BY <1>1, CallsAfterTyped DEF Return
<1>3. cache' \in Summaries \union {None} /\ (stopped => cache' = None /\ guard' = guard)
  BY DEF Return
<1>4. CASE summary = None
  <2>1. guard' = guard /\ cache' = None
    BY <1>4 DEF Return
  <2>2. LikeCache(cache')
    BY <2>1 DEF LikeCache
  <2> QED  BY <1>1, <1>2, <1>3, <2>1, <2>2, QuietStep DEF Outcome
<1>5. CASE summary # None
  <2>1. /\ summary.answer \in Answers /\ summary.readings \in Reported
        /\ guard' = [s \in Chargers |-> Guarded(guard[s], summary.readings[s], summary.answer)]
    BY <1>5 DEF Return, Summaries
  <2>2. ASSUME NEW s \in Chargers
        PROVE  /\ guard'[s] \in Guards /\ Counted(guard'[s])
               /\ ~Doubtful(summary) => NewTo(guard'[s], summary.answer)
               /\ Falls(s) => Cardinality(guard'[s].evidence) >= 2
    <3>1. /\ guard[s] \in Guards /\ Counted(guard[s]) /\ NewTo(guard[s], summary.answer)
          /\ guard'[s] = Guarded(guard[s], summary.readings[s], summary.answer)
      BY <1>5, <2>1, <2>2 DEF LifetimeInv, TypeOK, CountedOnce
    <3>2. CASE summary.readings[s] = None
      <4>1. guard'[s] = guard[s]
        BY <3>1, <3>2 DEF Guarded
      <4>2. ~Falls(s)
        BY <2>2, <4>1, LastIsNat DEF Falls, LifetimeInv
      <4> QED  BY <3>1, <4>1, <4>2
    <3>3. CASE summary.readings[s] # None
      <4>1. Total(summary.readings[s]) \in Nat
        BY <2>1, <2>2, <3>3, TotalNat DEF Reported
      <4>2. guard'[s] = Judged(guard[s], Total(summary.readings[s]), summary.answer)
        BY <3>1, <3>3 DEF Guarded
      <4>3. ~Doubtful(summary) => ~Doubts(guard[s], Total(summary.readings[s]))
        BY <1>5, <2>2, <3>3 DEF Doubtful
      <4> HIDE DEF Doubtful
      <4> QED  BY <2>1, <3>1, <4>1, <4>2, <4>3, JudgedOutcome DEF Falls
    <3> QED  BY <3>2, <3>3
  <2>3. guard' \in [Chargers -> Guards] /\ CountedOnce' /\ FallsConfirmed
    BY <2>1, <2>2 DEF CountedOnce, FallsConfirmed
  <2>4. EvidenceNotCached'
    <3>1. CASE Doubtful(summary)
      BY <3>1 DEF Return, EvidenceNotCached
    <3>2. CASE ~Doubtful(summary)
      <4>1. cache' = summary
        BY <3>2 DEF Return
      <4> QED  BY <2>2, <3>2, <4>1 DEF EvidenceNotCached
    <3> QED  BY <3>1, <3>2
  <2> QED  BY <1>1, <1>2, <1>3, <2>3, <2>4 DEF Outcome
<1> QED  BY <1>4, <1>5

-----------------------------------------------------------------------------
\* A call goes on without an answer.
LEMMA PhaseStep ==
    ASSUME LifetimeInv, NEW c \in Callers, NEW next \in Calls,
           call' = [call EXCEPT ![c] = next],
           next.phase = "fetching" => ~stopped
    PROVE  call' \in [Callers -> Calls] /\ CallsRetired
<1>1. call' \in [Callers -> Calls]
  BY DEF LifetimeInv, TypeOK
<1>2. CallsRetired
  <2> SUFFICES ASSUME stopped, NEW d \in Callers, call'[d].phase = "fetching"
               PROVE  call'[d].superseded
    BY DEF CallsRetired
  <2>1. d # c
    BY DEF LifetimeInv, TypeOK
  <2>2. call'[d] = call[d]
    BY <2>1 DEF LifetimeInv, TypeOK
  <2> QED  BY <2>2 DEF LifetimeInv, Retired, Fetching
<1> QED  BY <1>1, <1>2

LEMMA CacheNew ==
    ASSUME LifetimeInv, NEW kept, LikeCache(kept)
    PROVE  /\ kept # None => \A s \in Chargers : NewTo(guard[s], kept.answer)
           /\ stopped => kept = None
BY DEF LifetimeInv, LikeCache, EvidenceNotCached, Retired

LEMMA EnterOutcome ==
    ASSUME LifetimeInv, NEW c \in Callers, NEW force \in BOOLEAN, NEW completed \in BOOLEAN,
           NEW kept, LikeCache(kept), Enter(c, force, completed, kept)
    PROVE  Outcome /\ CallsRetired
<1>1. CASE Return(c, IF stopped THEN None ELSE kept, kept, FALSE)
  <2>1. (IF stopped THEN None ELSE kept) = kept
    BY CacheNew
  <2>2. Return(c, kept, kept, FALSE)
    BY <1>1, <2>1
  <2> QED  BY <2>2, CacheNew, ReturnOutcome DEF LikeCache
<1>2. CASE /\ ~stopped
           /\ call' = [call EXCEPT ![c] = [Idle EXCEPT !.phase = "fetching"]]
           /\ cache' = kept /\ UNCHANGED <<current, guard>>
  <2>1. [Idle EXCEPT !.phase = "fetching"] \in Calls
    BY DEF Idle, Calls
  <2>2. call' \in [Callers -> Calls] /\ CallsRetired
    BY <1>2, <2>1, PhaseStep
  <2>3. cache' \in Summaries \union {None} /\ current' \in BOOLEAN
    BY <1>2 DEF LikeCache, LifetimeInv, TypeOK
  <2> QED  BY <1>2, <2>2, <2>3, QuietStep DEF Outcome
<1> QED  BY <1>1, <1>2 DEF Enter

LEMMA FetchOutcome ==
    ASSUME LifetimeInv, NEW c \in Callers, NEW force \in BOOLEAN,
           NEW kept, LikeCache(kept), Fetch(c, force, kept), ~stopped
    PROVE  Outcome /\ CallsRetired
<1>1. CASE Return(c, kept, kept, FALSE)
  BY <1>1, CacheNew, ReturnOutcome DEF LikeCache
<1>2. CASE /\ call' = [call EXCEPT ![c] = [Idle EXCEPT !.phase = "waiting", !.force = force]]
           /\ cache' = kept /\ UNCHANGED <<current, guard>>
  <2> DEFINE next == [Idle EXCEPT !.phase = "waiting", !.force = force]
  <2>0. next \in Calls
    BY DEF Idle, Calls
  <2>1. call' \in [Callers -> Calls] /\ CallsRetired
    BY <1>2, <2>0, PhaseStep
  <2>2. cache' \in Summaries \union {None} /\ current' \in BOOLEAN
    BY <1>2 DEF LikeCache, LifetimeInv, TypeOK
  <2> QED  BY <1>2, <2>1, <2>2, QuietStep DEF Outcome
<1>3. CASE Enter(c, force, FALSE, kept)
  BY <1>3, EnterOutcome
<1> QED  BY <1>1, <1>2, <1>3 DEF Fetch

LEMMA CacheLikeItself == ASSUME LifetimeInv PROVE LikeCache(cache)
BY DEF LikeCache, LifetimeInv, TypeOK

LEMMA CachedOutcome ==
    ASSUME LifetimeInv, NEW c \in Callers, NEW completes \in BOOLEAN,
           Return(c, cache, cache, completes)
    PROVE  Outcome /\ CallsRetired
<1>1. cache \in Summaries \union {None}
  BY DEF LifetimeInv, TypeOK
<1> QED  BY <1>1, CacheLikeItself, CacheNew, ReturnOutcome

\* The frame of every action but Stop and MeterReset.
Frame ==
    /\ UNCHANGED <<stopped, reset>>
    /\ ttl' \in {FastTtl, IdleTtl} /\ backoff' \in BOOLEAN /\ warmed' \in BOOLEAN

LEMMA BeginWarmupOutcome ==
    ASSUME LifetimeInv, BeginWarmup
    PROVE  Outcome /\ CallsRetired /\ Frame
<1>1. Fetch(Warmup, TRUE, cache) /\ ~stopped /\ Warmup \in Callers
  BY DEF BeginWarmup, Callers
<1>2. Frame
  BY DEF BeginWarmup, Frame, LifetimeInv, TypeOK
<1> QED  BY <1>1, <1>2, CacheLikeItself, FetchOutcome

LEMMA BeginRefreshOutcome ==
    ASSUME LifetimeInv, NEW target \in {FastTtl, IdleTtl}, NEW limitsMissing \in BOOLEAN,
           BeginRefresh(target, limitsMissing)
    PROVE  Outcome /\ CallsRetired /\ Frame
<1> DEFINE due == cache = None \/ cache.ttl > target \/ cache.age >= target
           kept == IF due THEN cache ELSE [cache EXCEPT !.ttl = target]
<1>1. Fetch(Refresh, due \/ limitsMissing, kept) /\ ~stopped /\ Refresh \in Callers
  BY DEF BeginRefresh, Callers
<1>2. LikeCache(kept)
  <2>1. cache \in Summaries \union {None}
    BY DEF LifetimeInv, TypeOK
  <2>2. CASE due
    BY <2>1, <2>2 DEF LikeCache
  <2>3. CASE ~due
    <3>1. cache \in Summaries
      BY <2>1, <2>3
    <3>2. kept \in Summaries /\ kept.answer = cache.answer
      BY <2>3, <3>1 DEF Summaries
    <3> QED  BY <2>3, <3>1, <3>2 DEF LikeCache
  <2> QED  BY <2>2, <2>3
<1>3. Frame
  BY DEF BeginRefresh, Frame, LifetimeInv, TypeOK
<1>4. (due \/ limitsMissing) \in BOOLEAN
  OBVIOUS
<1> HIDE DEF due, kept
<1> QED  BY <1>1, <1>2, <1>3, <1>4, FetchOutcome

LEMMA AcquireOutcome ==
    ASSUME LifetimeInv, NEW c \in Callers, Acquire(c)
    PROVE  Outcome /\ CallsRetired /\ Frame
<1>1. Enter(c, call[c].force, call[c].completed, cache)
  BY DEF Acquire
<1>2. call[c].force \in BOOLEAN /\ call[c].completed \in BOOLEAN
  BY DEF LifetimeInv, TypeOK, Calls
<1>3. Frame
  BY DEF Acquire, Frame, LifetimeInv, TypeOK
<1> QED  BY <1>1, <1>2, <1>3, CacheLikeItself, EnterOutcome

LEMMA SucceedOutcome ==
    ASSUME LifetimeInv, NEW c \in Callers, NEW answer \in Unused, NEW readings \in Reports,
           Succeed(c, answer, readings)
    PROVE  Outcome /\ CallsRetired /\ Frame
<1> DEFINE summary == [answer |-> answer, readings |-> readings, age |-> 0, ttl |-> ttl]
<1>1. Frame
  BY DEF Succeed, ReturnCached, Frame, LifetimeInv, TypeOK
<1>2. CASE ReturnCached(c)
  BY <1>1, <1>2, CachedOutcome DEF ReturnCached
<1>3. CASE ~Outdated(c) /\ Return(c, summary, summary, TRUE)
  <2>1. summary \in Summaries /\ summary.answer = answer
    BY DEF Summaries, Unused, Reports, Ages, IdleTtl, FastTtl, LifetimeInv, TypeOK
  <2>2. \A s \in Chargers : NewTo(guard[s], answer)
    BY DEF Unused, NewTo
  <2>3. ~stopped
    BY <1>3 DEF Succeed, Outdated, LifetimeInv, Retired
  <2> HIDE DEF summary
  <2> QED  BY <1>1, <1>3, <2>1, <2>2, <2>3, ReturnOutcome
<1> QED  BY <1>2, <1>3 DEF Succeed

LEMMA FailOutcome ==
    ASSUME LifetimeInv, NEW c \in Callers, Fail(c)
    PROVE  Outcome /\ CallsRetired /\ Frame
<1>1. Frame
  BY DEF Fail, ReturnCached, Frame, LifetimeInv, TypeOK
<1>2. PICK completes \in BOOLEAN : Return(c, cache, cache, completes)
  BY DEF Fail, ReturnCached
<1> QED  BY <1>1, <1>2, CachedOutcome

LEMMA CancelOutcome ==
    ASSUME LifetimeInv, NEW c \in Callers, Cancel(c)
    PROVE  Outcome /\ CallsRetired /\ Frame
<1>1. Idle \in Calls /\ Idle.phase # "fetching"
  BY DEF Idle, Calls
<1>2. call' \in [Callers -> Calls] /\ CallsRetired
  BY <1>1, PhaseStep DEF Cancel
<1>3. guard' = guard /\ cache' = cache /\ current' \in BOOLEAN /\ Frame
  BY DEF Cancel, Frame, LifetimeInv, TypeOK
<1>4. LikeCache(cache') /\ cache' \in Summaries \union {None}
  BY <1>3, CacheLikeItself DEF LikeCache
<1> QED  BY <1>2, <1>3, <1>4, QuietStep DEF Outcome

LEMMA AgeOutcome ==
    ASSUME LifetimeInv, Age
    PROVE  Outcome /\ CallsRetired /\ Frame
<1>1. cache \in Summaries /\ cache.age \in {0, 1}
  BY DEF Age, LifetimeInv, TypeOK, Summaries, Ages, IdleTtl
<1>2. cache' \in Summaries /\ cache'.answer = cache.answer
  BY <1>1 DEF Age, Summaries, Ages
<1>3. LikeCache(cache')
  BY <1>2 DEF Age, LikeCache
<1>4. guard' = guard /\ call' = call /\ current' = current /\ Frame
  BY DEF Age, Frame, LifetimeInv, TypeOK
<1>5. call' \in [Callers -> Calls] /\ CallsRetired /\ current' \in BOOLEAN
  BY <1>4 DEF CallsRetired, LifetimeInv, TypeOK, Retired, Fetching
<1> QED  BY <1>2, <1>3, <1>4, <1>5, QuietStep DEF Outcome

LEMMA UnchangedOutcome ==
    ASSUME LifetimeInv, UNCHANGED <<cache, current, call, guard>>
    PROVE  Outcome /\ CallsRetired
<1>1. call' \in [Callers -> Calls] /\ CallsRetired /\ current' \in BOOLEAN
  BY DEF CallsRetired, LifetimeInv, TypeOK, Retired, Fetching
<1>2. LikeCache(cache') /\ cache' \in Summaries \union {None}
  BY CacheLikeItself DEF LikeCache
<1> QED  BY <1>1, <1>2, QuietStep DEF Outcome

LEMMA StopOutcome ==
    ASSUME LifetimeInv, Stop
    PROVE  Outcome /\ LifetimeInv'
<1>1. guard' = guard /\ cache' = None /\ ~stopped /\ stopped' = TRUE /\ current' = FALSE
  BY DEF Stop
<1>2. LikeCache(cache')
  BY <1>1 DEF LikeCache
<1>3. ASSUME NEW c \in Callers
      PROVE  /\ call'[c] \in Calls /\ call'[c].phase = call[c].phase
             /\ call[c].phase = "fetching" => call'[c].superseded
  <2>1. call[c] \in Calls
    BY DEF LifetimeInv, TypeOK
  <2>2. call'[c] = [call[c] EXCEPT !.superseded = @ \/ Fetching(c)]
    BY DEF Stop
  <2> QED  BY <2>1, <2>2 DEF Calls, Fetching
<1>4. call' \in [Callers -> Calls]
  BY <1>3 DEF Stop
<1>5. Outcome
  BY <1>1, <1>2, <1>4, QuietStep DEF Outcome
<1>6. TypeOK'
  BY <1>1, <1>4 DEF Stop, LifetimeInv, TypeOK
<1>7. Retired'
  BY <1>1, <1>3 DEF Retired, Fetching
<1> QED  BY <1>5, <1>6, <1>7 DEF LifetimeInv, Outcome

\* The bookkeeping of the steps that do not unload the runtime.
LEMMA FramedInvariant ==
    ASSUME LifetimeInv, Outcome, CallsRetired, stopped' = stopped, reset' \in SUBSET Chargers,
           ttl' \in {FastTtl, IdleTtl}, backoff' \in BOOLEAN, warmed' \in BOOLEAN
    PROVE  LifetimeInv'
<1>1. TypeOK'
  BY DEF Outcome, LifetimeInv, TypeOK
<1>2. Retired'
  BY DEF Outcome, CallsRetired, Retired, Fetching
<1> QED  BY <1>1, <1>2 DEF LifetimeInv, Outcome

LEMMA StepOutcome ==
    ASSUME LifetimeInv, [Next]_vars
    PROVE  Outcome /\ LifetimeInv'
<1>0. reset \in SUBSET Chargers /\ ttl \in {FastTtl, IdleTtl} /\ backoff \in BOOLEAN /\ warmed \in BOOLEAN
  BY DEF LifetimeInv, TypeOK
<1>1. ASSUME Outcome, CallsRetired, Frame PROVE Outcome /\ LifetimeInv'
  BY <1>0, <1>1, FramedInvariant DEF Frame
<1>2. CASE BeginWarmup
  BY <1>1, <1>2, BeginWarmupOutcome
<1>3. ASSUME NEW target \in {FastTtl, IdleTtl}, NEW limitsMissing \in BOOLEAN,
             BeginRefresh(target, limitsMissing)
      PROVE  Outcome /\ LifetimeInv'
  BY <1>1, <1>3, BeginRefreshOutcome
<1>4. ASSUME NEW c \in Callers, NEW answer \in Unused, NEW readings \in Reports,
             Succeed(c, answer, readings)
      PROVE  Outcome /\ LifetimeInv'
  BY <1>1, <1>4, SucceedOutcome
<1>5. ASSUME NEW c \in Callers, Acquire(c) PROVE Outcome /\ LifetimeInv'
  BY <1>1, <1>5, AcquireOutcome
<1>6. ASSUME NEW c \in Callers, Fail(c) PROVE Outcome /\ LifetimeInv'
  BY <1>1, <1>6, FailOutcome
<1>7. ASSUME NEW c \in Callers, Cancel(c) PROVE Outcome /\ LifetimeInv'
  BY <1>1, <1>7, CancelOutcome
<1>8. ASSUME NEW s \in Chargers, MeterReset(s) PROVE Outcome /\ LifetimeInv'
  <2>1. /\ stopped' = stopped /\ reset' \in SUBSET Chargers
        /\ UNCHANGED <<cache, current, call, guard, ttl, backoff, warmed>>
    BY <1>0, <1>8 DEF MeterReset
  <2> QED  BY <1>0, <2>1, UnchangedOutcome, FramedInvariant
<1>9. CASE Stop
  BY <1>9, StopOutcome
<1>10. CASE Age
  BY <1>1, <1>10, AgeOutcome
<1>11. CASE BackoffEnds
  <2>1. Frame /\ UNCHANGED <<cache, current, call, guard>>
    BY <1>0, <1>11 DEF BackoffEnds, Frame
  <2> QED  BY <1>1, <2>1, UnchangedOutcome
<1>12. CASE UNCHANGED vars
  <2>1. Frame /\ UNCHANGED <<cache, current, call, guard>>
    BY <1>0, <1>12 DEF vars, Frame
  <2> QED  BY <1>1, <2>1, UnchangedOutcome
<1> QED
  BY <1>2, <1>3, <1>4, <1>5, <1>6, <1>7, <1>8, <1>9, <1>10, <1>11, <1>12
  DEF Next, AnyRefresh, AnySuccess

LEMMA InitInv == Init => LifetimeInv
<1> SUFFICES ASSUME Init PROVE LifetimeInv
  OBVIOUS
<1>1. TypeOK
  <2>1. Idle \in Calls
    BY DEF Idle, Calls
  <2>2. [last |-> None, pending |-> None, count |-> 0, evidence |-> {}] \in Guards
    BY DEF Guards, ConfirmCount
  <2>3. call \in [Callers -> Calls] /\ guard \in [Chargers -> Guards]
    BY <2>1, <2>2 DEF Init
  <2> QED  BY <2>3 DEF Init, TypeOK
<1>2. CountedOnce /\ EvidenceNotCached /\ Retired
  BY DEF Init, CountedOnce, Counted, EvidenceNotCached, Retired, Fetching, Idle
<1> QED  BY <1>1, <1>2 DEF LifetimeInv

-----------------------------------------------------------------------------
\* Every reachable state satisfies the inductive invariant (summary.py:116-130,
\* energy.py:1241-1275): a suspicion rests on one answer, which is not cached.
THEOREM LifetimeInvariant == Spec => []LifetimeInv
<1>1. LifetimeInv /\ [Next]_vars => LifetimeInv'
  BY StepOutcome
<1> QED  BY InitInv, <1>1, PTL DEF Spec

\* The states are well typed, for any chargers and readings (energy.py:46-51).
THEOREM LifetimeTyping == Spec => []TypeOK
<1>1. LifetimeInv => TypeOK
  BY DEF LifetimeInv
<1> QED  BY LifetimeInvariant, <1>1, PTL

\* No accepted total falls on the word of one answer, however many callers it served
\* (summary.py:157, energy.py:1241).
THEOREM TwoAnswersNeeded == Spec => ResetNeedsTwoAnswers
<1>1. LifetimeInv /\ [Next]_vars => FallsConfirmed
  BY StepOutcome DEF Outcome
<1> QED  BY LifetimeInvariant, <1>1, PTL DEF Spec, ResetNeedsTwoAnswers, FallsConfirmed

\* After the unload no late answer is cached or moves a total (summary.py:183, 204).
THEOREM InertWhenRetired == Spec => RetiredIsInert
<1>1. LifetimeInv /\ [Next]_vars => (stopped => cache' = None /\ guard' = guard)
  BY StepOutcome DEF Outcome
<1> QED  BY LifetimeInvariant, <1>1, PTL DEF Spec, RetiredIsInert
=============================================================================
