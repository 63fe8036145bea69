------------------------ MODULE EvseTimeseriesProofs ------------------------
(***************************************************************************)
(* Proofs about the shared acquisition of the charger energy, for any      *)
(* callers, chargers, days, requests and delays.  The inductive invariant  *)
(* adds to the types and the counting of callers that a call under way has *)
(* a key left to deal with, that a request of a retired runtime belongs to *)
(* an older generation, that an attempt a caller may share is the          *)
(* acquisition's last, and that a backoff never ends before a deadline.    *)
(* For the days of the cache it is enough that they are finitely many.     *)
(***************************************************************************)
EXTENDS EvseTimeseries, FiniteSetTheorems, WellFoundedInduction, TLAPS

Users(key) == {c \in Callers : key \in call[c].keys}

Counted(key) ==
    IF acquisitions[key] = Absent THEN Users(key) = {}
    ELSE acquisitions[key].callers = Cardinality(Users(key)) /\ Users(key) # {}

Locked(key) ==
    acquisitions[key] # Absent =>
        \A c \in Callers :
            acquisitions[key].lock = c <=> call[c].pc = "fetching" /\ Turn(c) = key

\* A caller has registered what it has left to do; an idle one has nothing.
CallShape(c) ==
    /\ call[c].todo \subseteq call[c].keys
    /\ call[c].pc = "idle" => call[c] = Quiet
    /\ call[c].pc # "idle" => call[c].todo # {}

RequestOfGeneration(c) ==
    call[c].pc = "fetching" =>
        /\ call[c].gen <= generation
        /\ stopped => call[c].gen < generation

SharedIsLast(c) ==
    \A key \in call[c].since :
        /\ key \in call[c].done
        /\ key \in call[c].keys
        /\ acquisitions[key].generation = generation

BackoffCoversDeadline == \A e \in Endpoints : deadline[e] <= backoff[e]

CallsShaped == \A c \in Callers : CallShape(c)
RecordsCounted == \A key \in Keys : Counted(key)
RecordsLocked == \A key \in Keys : Locked(key)
RequestsOfGeneration == \A c \in Callers : RequestOfGeneration(c)
SharedAreLast == \A c \in Callers : SharedIsLast(c)

TimeseriesInv ==
    /\ TypeOK
    /\ CallsShaped
    /\ RecordsCounted
    /\ RecordsLocked
    /\ NoRetiredRecords
    /\ RequestsOfGeneration
    /\ SharedAreLast
    /\ BackoffCoversDeadline

-----------------------------------------------------------------------------
(* Operators *)

LEMMA MaxOfTwo ==
    ASSUME NEW a \in Nat, NEW b \in Nat
    PROVE  /\ Max({a, b}) \in Nat /\ Max({a, b}) >= a /\ Max({a, b}) >= b
           /\ Max({a, b}) \in {a, b}
<1>1. \E x \in {a, b} : \A y \in {a, b} : x >= y
  BY SMT
<1>2. Max({a, b}) \in {a, b} /\ \A y \in {a, b} : Max({a, b}) >= y
  BY <1>1 DEF Max
<1> QED  BY <1>2

LEMMA TurnLeft ==
    ASSUME NEW c \in Callers, call[c].todo # {}
    PROVE  Turn(c) \in call[c].todo
<1>1. CASE Lifetime \in call[c].todo
  BY <1>1 DEF Turn
<1>2. CASE Lifetime \notin call[c].todo
  <2>1. \E key \in call[c].todo : TRUE
    OBVIOUS
  <2>2. (CHOOSE key \in call[c].todo : TRUE) \in call[c].todo
    BY <2>1
  <2> QED  BY <1>2, <2>2 DEF Turn
<1> QED  BY <1>1, <1>2

LEMMA KeyEndpoint ==
    ASSUME NEW key \in Keys
    PROVE  Endpoint(key) \in Endpoints
BY DEF Keys, Lifetime, Endpoint, Endpoints

LEMMA Recount ==
    ASSUME NEW r \in Acquisitions, NEW n \in Nat
    PROVE  LET q == [r EXCEPT !.callers = n]
           IN  /\ q \in Acquisitions /\ q # Absent
               /\ q.callers = n /\ q.lock = r.lock /\ q.generation = r.generation
BY ConstantsAssumption DEF Acquisitions

\* The same calls have the same turns.
LEMMA TurnStays ==
    ASSUME NEW c \in Callers, call'[c].todo = call[c].todo
    PROVE  Turn(c)' = Turn(c)
BY DEF Turn

LEMMA UsersFinite ==
    ASSUME NEW key
    PROVE  IsFiniteSet(Users(key)) /\ IsFiniteSet(Users(key)')
<1>1. Users(key) \in SUBSET Callers /\ Users(key)' \in SUBSET Callers
  BY DEF Users
<1> QED  BY <1>1, FS_Subset, ConstantsAssumption

\* A caller of an acquisition has one.
LEMMA UserHasRecord ==
    ASSUME RecordsCounted, NEW c \in Callers, NEW key \in Keys, key \in call[c].keys
    PROVE  acquisitions[key] # Absent
BY DEF RecordsCounted, Counted, Users

LEMMA CountsAndLocks == RecordsCountCallers <=> RecordsCounted /\ RecordsLocked
BY DEF RecordsCountCallers, RecordsCounted, RecordsLocked, Counted, Locked, Users

-----------------------------------------------------------------------------
(* The steps that leave or keep an acquisition *)

\* What a step of c leaves alone of the other calls.
OthersGoOn(c) ==
    \A d \in Callers \ {c} :
        /\ call'[d].pc = call[d].pc
        /\ call'[d].todo = call[d].todo
        /\ call'[d].keys = call[d].keys

\* a is the acquisitions after c released its lock.
ReleasedBy(c, a) ==
    /\ a \in [Keys -> {Absent} \union Acquisitions]
    /\ \A key \in Keys :
         /\ a[key] = Absent <=> acquisitions[key] = Absent
         /\ a[key] # Absent =>
              /\ a[key].callers = acquisitions[key].callers
              /\ a[key].lock = IF acquisitions[key].lock = c THEN Nobody
                               ELSE acquisitions[key].lock

LEMMA LeaveCounts ==
    ASSUME TypeOK, RecordsCounted, RecordsLocked, NEW c \in Callers, NEW a, ReleasedBy(c, a),
           OthersGoOn(c), call' \in [Callers -> CallStates], call'[c] = Quiet,
           acquisitions' = Unregister(a, call[c].keys)
    PROVE  /\ acquisitions' \in [Keys -> {Absent} \union Acquisitions]
           /\ RecordsCounted' /\ RecordsLocked'
           /\ \A key \in Keys : acquisitions'[key] # Absent =>
                /\ a[key] # Absent
                /\ acquisitions'[key].generation = a[key].generation
<1> USE ConstantsAssumption
<1> SUFFICES ASSUME NEW key \in Keys
             PROVE  /\ acquisitions'[key] \in {Absent} \union Acquisitions
                    /\ Counted(key)' /\ Locked(key)'
                    /\ acquisitions'[key] # Absent =>
                         /\ a[key] # Absent
                         /\ acquisitions'[key].generation = a[key].generation
  BY DEF RecordsCounted, RecordsLocked, Unregister
<1>1. Counted(key) /\ Locked(key)
  BY DEF RecordsCounted, RecordsLocked
<1>2. acquisitions'[key] = IF key \notin call[c].keys THEN a[key]
                           ELSE IF a[key].callers = 1 THEN Absent
                           ELSE [a[key] EXCEPT !.callers = @ - 1]
  BY DEF Unregister
<1>3. Users(key)' = Users(key) \ {c}
  <2>1. call'[c].keys = {}
    BY DEF Quiet
  <2> QED  BY <2>1 DEF Users, OthersGoOn
<1>4. a[key] \in {Absent} \union Acquisitions
  BY DEF ReleasedBy
<1>5. \A d \in Callers \ {c} : Turn(d)' = Turn(d)
  BY TurnStays DEF OthersGoOn
<1>6. a[key] # Absent =>
        \A d \in Callers : a[key].lock = d <=> call'[d].pc = "fetching" /\ Turn(d)' = key
  <2> SUFFICES ASSUME a[key] # Absent, NEW d \in Callers
               PROVE  a[key].lock = d <=> call'[d].pc = "fetching" /\ Turn(d)' = key
    OBVIOUS
  <2>1. acquisitions[key] # Absent
        /\ a[key].lock = IF acquisitions[key].lock = c THEN Nobody ELSE acquisitions[key].lock
    BY DEF ReleasedBy
  <2>2. CASE d = c
    <3>1. call'[d].pc = "idle"
      BY <2>2 DEF Quiet
    <3> QED  BY <2>1, <2>2, <3>1
  <2>3. CASE d # c
    <3>1. acquisitions[key].lock = d <=> call[d].pc = "fetching" /\ Turn(d) = key
      BY <1>1, <2>1 DEF Locked
    <3>2. call'[d].pc = call[d].pc
      BY <2>3 DEF OthersGoOn
    <3> QED  BY <1>5, <2>1, <2>3, <3>1, <3>2
  <2> QED  BY <2>2, <2>3
<1>7. CASE key \notin call[c].keys
  <2>1. Users(key)' = Users(key)
    BY <1>3, <1>7 DEF Users
  <2>2. acquisitions'[key] = a[key]
    BY <1>2, <1>7
  <2>3. Counted(key)'
    BY <1>1, <2>1, <2>2 DEF Counted, ReleasedBy
  <2> QED  BY <1>4, <1>6, <2>2, <2>3 DEF Locked
<1>8. CASE key \in call[c].keys
  <2>1. c \in Users(key) /\ acquisitions[key] # Absent
    BY <1>1, <1>8 DEF Users, Counted
  <2>2. a[key] \in Acquisitions /\ a[key] # Absent /\ a[key].callers = Cardinality(Users(key))
    BY <1>1, <1>4, <2>1 DEF Counted, ReleasedBy
  <2>3. /\ Cardinality(Users(key)) \in Nat
        /\ Cardinality(Users(key)') \in Nat
        /\ Cardinality(Users(key)') = Cardinality(Users(key)) - 1
    BY <1>3, <2>1, UsersFinite, FS_RemoveElement, FS_CardinalityType
  <2>4. CASE a[key].callers = 1
    <3>1. Users(key)' = {}
      BY <2>2, <2>3, <2>4, UsersFinite, FS_EmptySet
    <3>2. acquisitions'[key] = Absent
      BY <1>2, <1>8, <2>4
    <3> QED  BY <3>1, <3>2 DEF Counted, Locked
  <2>5. CASE a[key].callers # 1
    <3>1. /\ a[key].callers \in Nat /\ a[key].callers - 1 \in Nat
          /\ Users(key)' # {}
      <4>1. a[key].callers \in Nat /\ a[key].callers - 1 \in Nat /\ Cardinality(Users(key)') # 0
        BY <2>2, <2>3, <2>5
      <4> QED  BY <4>1, FS_EmptySet
    <3> DEFINE r == a[key]
               n == r.callers - 1
    <3>2. acquisitions'[key] = [r EXCEPT !.callers = n]
      BY <1>2, <1>8, <2>5
    <3>3. /\ acquisitions'[key] \in Acquisitions
          /\ acquisitions'[key].callers = a[key].callers - 1
          /\ acquisitions'[key].lock = a[key].lock
          /\ acquisitions'[key].generation = a[key].generation
      <4>1. r \in Acquisitions /\ n \in Nat
        BY <2>2, <3>1
      <4>2. n = a[key].callers - 1 /\ r = a[key]
        OBVIOUS
      <4> HIDE DEF r, n
      <4>3. LET q == [r EXCEPT !.callers = n]
            IN  /\ q \in Acquisitions /\ q # Absent
                /\ q.callers = n /\ q.lock = r.lock /\ q.generation = r.generation
        BY <4>1, Recount
      <4> QED  BY <3>2, <4>2, <4>3
    <3>4. acquisitions'[key] # Absent
      BY <3>3
    <3> QED  BY <1>6, <2>2, <2>3, <3>1, <3>3, <3>4 DEF Counted, Locked
  <2> QED  BY <2>4, <2>5
<1> QED  BY <1>7, <1>8

LEMMA ContinueCounts ==
    ASSUME TypeOK, RecordsCounted, RecordsLocked, NEW c \in Callers, NEW a, ReleasedBy(c, a),
           OthersGoOn(c), call'[c].pc = "queued", call'[c].keys = call[c].keys,
           acquisitions' = a
    PROVE  /\ acquisitions' \in [Keys -> {Absent} \union Acquisitions]
           /\ RecordsCounted' /\ RecordsLocked'
<1> USE ConstantsAssumption
<1>1. acquisitions' \in [Keys -> {Absent} \union Acquisitions]
  BY DEF ReleasedBy
<1> SUFFICES ASSUME NEW key \in Keys PROVE Counted(key)' /\ Locked(key)'
  BY <1>1 DEF RecordsCounted, RecordsLocked
<1>2. Counted(key) /\ Locked(key)
  BY DEF RecordsCounted, RecordsLocked
<1>3. Users(key)' = Users(key)
  BY DEF Users, OthersGoOn
<1>4. Counted(key)'
  BY <1>2, <1>3 DEF Counted, ReleasedBy
<1>5. Locked(key)'
  <2> SUFFICES ASSUME acquisitions'[key] # Absent, NEW d \in Callers
               PROVE  acquisitions'[key].lock = d
                        <=> call'[d].pc = "fetching" /\ Turn(d)' = key
    BY DEF Locked
  <2>1. /\ acquisitions[key] # Absent
        /\ acquisitions'[key].lock = IF acquisitions[key].lock = c THEN Nobody
                                     ELSE acquisitions[key].lock
    BY DEF ReleasedBy
  <2>2. CASE d = c
    BY <2>1, <2>2
  <2>3. CASE d # c
    <3>1. acquisitions[key].lock = d <=> call[d].pc = "fetching" /\ Turn(d) = key
      BY <1>2, <2>1 DEF Locked
    <3>2. call'[d].pc = call[d].pc /\ Turn(d)' = Turn(d)
      BY <2>3, TurnStays DEF OthersGoOn
    <3> QED  BY <2>1, <2>3, <3>1, <3>2
  <2> QED  BY <2>2, <2>3
<1> QED  BY <1>4, <1>5

\* cl is the calls with only what is shared by an attempt changed.
CallsAlike(cl) ==
    /\ cl \in [Callers -> CallStates]
    /\ \A d \in Callers :
         /\ cl[d].pc = call[d].pc
         /\ cl[d].todo = call[d].todo
         /\ cl[d].keys = call[d].keys
         /\ cl[d].gen = call[d].gen
         /\ call[d].pc = "idle" => cl[d] = call[d]

LEMMA QuietCall == Quiet \in CallStates
BY DEF Quiet, CallStates, PcValues

LEMMA AdvanceStep ==
    ASSUME TypeOK, CallsShaped, RecordsCounted, RecordsLocked, NEW c \in Callers,
           call[c].pc # "idle", NEW a, NEW cl, ReleasedBy(c, a), CallsAlike(cl),
           Advance(c, a, cl)
    PROVE  /\ acquisitions' \in [Keys -> {Absent} \union Acquisitions]
           /\ call' \in [Callers -> CallStates]
           /\ CallsShaped' /\ RecordsCounted' /\ RecordsLocked'
           /\ \A key \in Keys : acquisitions'[key] # Absent =>
                acquisitions'[key].generation = a[key].generation
           /\ call'[c].pc # "fetching"
           /\ call'[c] = Quiet \/ /\ call'[c].done = cl[c].done
                                  /\ call'[c].since = cl[c].since
           /\ \A d \in Callers \ {c} : call'[d] = cl[d]
<1>1. call[c].todo # {} /\ call[c].todo \subseteq call[c].keys
  BY DEF CallsShaped, CallShape
<1>2. Turn(c) \in call[c].todo
  BY <1>1, TurnLeft
<1>3. cl[c] \in CallStates /\ cl \in [Callers -> CallStates]
  BY DEF CallsAlike
<1>4. \A d \in Callers : CallShape(d)
  BY DEF CallsShaped
<1>5. CASE call[c].todo = {Turn(c)}
  <2>1. call' = [cl EXCEPT ![c] = Quiet] /\ acquisitions' = Unregister(a, call[c].keys)
    BY <1>5 DEF Advance
  <2>2. call' \in [Callers -> CallStates] /\ call'[c] = Quiet
        /\ \A d \in Callers \ {c} : call'[d] = cl[d]
    BY <1>3, <2>1, QuietCall
  <2>3. OthersGoOn(c)
    BY <2>2 DEF OthersGoOn, CallsAlike
  <2>4. /\ acquisitions' \in [Keys -> {Absent} \union Acquisitions]
        /\ RecordsCounted' /\ RecordsLocked'
        /\ \A key \in Keys : acquisitions'[key] # Absent =>
                acquisitions'[key].generation = a[key].generation
    BY <2>1, <2>2, <2>3, LeaveCounts
  <2>5. CallsShaped'
    <3> SUFFICES ASSUME NEW d \in Callers PROVE CallShape(d)'
      BY DEF CallsShaped
    <3>1. CASE d = c
      BY <2>2, <3>1 DEF CallShape, Quiet
    <3>2. CASE d # c
      <4>1. call'[d] = cl[d] /\ call'[d] \in CallStates
        BY <2>2, <3>2
      <4>2. CallShape(d)
        BY <1>4
      <4>3. call[d].pc = "idle" => cl[d] = Quiet
        BY <4>2 DEF CallShape, CallsAlike
      <4> QED  BY <4>1, <4>2, <4>3 DEF CallShape, CallsAlike
    <3> QED  BY <3>1, <3>2
  <2>6. call'[c].pc # "fetching"
    BY <2>2 DEF Quiet
  <2> QED  BY <2>2, <2>4, <2>5, <2>6
<1>6. CASE call[c].todo # {Turn(c)}
  <2> DEFINE q == [cl[c] EXCEPT !.pc = "queued", !.todo = call[c].todo \ {Turn(c)}]
  <2>1. call' = [cl EXCEPT ![c] = q] /\ acquisitions' = a
    BY <1>3, <1>6 DEF Advance, CallsAlike
  <2>2. /\ q \in CallStates /\ q.pc = "queued" /\ q.todo = call[c].todo \ {Turn(c)}
        /\ q.keys = call[c].keys /\ q.done = cl[c].done /\ q.since = cl[c].since
    BY <1>3 DEF CallStates, PcValues, CallsAlike, TypeOK
  <2> HIDE DEF q
  <2>3. call' \in [Callers -> CallStates] /\ call'[c] = q
        /\ \A d \in Callers \ {c} : call'[d] = cl[d]
    BY <1>3, <2>1, <2>2
  <2>4. OthersGoOn(c)
    BY <2>3 DEF OthersGoOn, CallsAlike
  <2>5. /\ acquisitions' \in [Keys -> {Absent} \union Acquisitions]
        /\ RecordsCounted' /\ RecordsLocked'
    BY <2>1, <2>2, <2>3, <2>4, ContinueCounts
  <2>6. CallsShaped'
    <3> SUFFICES ASSUME NEW d \in Callers PROVE CallShape(d)'
      BY DEF CallsShaped
    <3>1. CASE d = c
      BY <1>1, <1>2, <1>6, <2>2, <2>3, <3>1 DEF CallShape
    <3>2. CASE d # c
      <4>1. call'[d] = cl[d] /\ call'[d] \in CallStates
        BY <2>3, <3>2
      <4>2. CallShape(d)
        BY <1>4
      <4>3. call[d].pc = "idle" => cl[d] = Quiet
        BY <4>2 DEF CallShape, CallsAlike
      <4> QED  BY <4>1, <4>2, <4>3 DEF CallShape, CallsAlike
    <3> QED  BY <3>1, <3>2
  <2> QED  BY <2>1, <2>2, <2>3, <2>5, <2>6
<1> QED  BY <1>5, <1>6

\* Calls that keep what they have to do keep the counts and the locks.
LEMMA SameCounts ==
    ASSUME TypeOK, RecordsCounted, RecordsLocked, acquisitions' = acquisitions,
           \A d \in Callers : /\ call'[d].pc = call[d].pc
                              /\ call'[d].todo = call[d].todo
                              /\ call'[d].keys = call[d].keys
    PROVE  RecordsCounted' /\ RecordsLocked'
<1> SUFFICES ASSUME NEW key \in Keys PROVE Counted(key)' /\ Locked(key)'
  BY DEF RecordsCounted, RecordsLocked
<1>1. Counted(key) /\ Locked(key)
  BY DEF RecordsCounted, RecordsLocked
<1>2. Users(key)' = Users(key)
  BY DEF Users
<1>3. \A d \in Callers : Turn(d)' = Turn(d)
  BY TurnStays
<1> QED  BY <1>1, <1>2, <1>3 DEF Counted, Locked

LEMMA Relock ==
    ASSUME NEW r \in Acquisitions, NEW l \in Callers \union {Nobody}
    PROVE  LET q == [r EXCEPT !.lock = l]
           IN  /\ q \in Acquisitions /\ q # Absent
               /\ q.callers = r.callers /\ q.lock = l /\ q.generation = r.generation
BY ConstantsAssumption DEF Acquisitions

LEMMA Regenerate ==
    ASSUME NEW r \in Acquisitions, NEW g \in Nat
    PROVE  LET q == [r EXCEPT !.generation = g]
           IN  /\ q \in Acquisitions /\ q # Absent
               /\ q.callers = r.callers /\ q.lock = r.lock /\ q.generation = g
BY ConstantsAssumption DEF Acquisitions

\* Who fetches a key holds its lock, and no other.
LEMMA FetcherLocks ==
    ASSUME TypeOK, CallsShaped, RecordsCounted, RecordsLocked, NEW c \in Callers,
           call[c].pc = "fetching"
    PROVE  /\ Turn(c) \in Keys /\ Turn(c) \in call[c].keys
           /\ acquisitions[Turn(c)] # Absent
           /\ acquisitions[Turn(c)].lock = c
           /\ \A key \in Keys \ {Turn(c)} :
                acquisitions[key] # Absent => acquisitions[key].lock # c
<1>1. call[c].todo # {} /\ call[c].todo \subseteq call[c].keys /\ call[c].keys \subseteq Keys
  BY DEF CallsShaped, CallShape, TypeOK, CallStates
<1>2. Turn(c) \in Keys /\ Turn(c) \in call[c].keys
  BY <1>1, TurnLeft
<1>3. acquisitions[Turn(c)] # Absent
  BY <1>2, UserHasRecord
<1> QED  BY <1>2, <1>3 DEF RecordsLocked, Locked

LEMMA ReleasedStep ==
    ASSUME TypeOK, CallsShaped, RecordsCounted, RecordsLocked, NEW c \in Callers,
           call[c].pc = "fetching"
    PROVE  /\ ReleasedBy(c, Released(Turn(c)))
           /\ \A key \in Keys : acquisitions[key] # Absent =>
                Released(Turn(c))[key].generation = acquisitions[key].generation
<1> DEFINE k == Turn(c)
           r == acquisitions[k]
           q == [r EXCEPT !.lock = Nobody]
           a == Released(k)
<1>1. /\ k \in Keys /\ r # Absent /\ r.lock = c
      /\ \A key \in Keys \ {k} : acquisitions[key] # Absent => acquisitions[key].lock # c
  BY FetcherLocks
<1>2. r \in Acquisitions
  BY <1>1 DEF TypeOK
<1>3. /\ q \in Acquisitions /\ q # Absent
      /\ q.callers = r.callers /\ q.lock = Nobody /\ q.generation = r.generation
  <2> HIDE DEF r
  <2> QED  BY <1>2, Relock
<1>4. a = [acquisitions EXCEPT ![k] = q]
  BY <1>1 DEF TypeOK, Released
<1> HIDE DEF k, q, a
<1>5. a[k] = q /\ \A key \in Keys \ {k} : a[key] = acquisitions[key]
  BY <1>1, <1>4 DEF TypeOK
<1>6. a \in [Keys -> {Absent} \union Acquisitions]
  BY <1>1, <1>3, <1>4 DEF TypeOK
<1>7. ASSUME NEW key \in Keys
      PROVE  /\ a[key] = Absent <=> acquisitions[key] = Absent
             /\ a[key] # Absent =>
                  /\ a[key].callers = acquisitions[key].callers
                  /\ a[key].lock = IF acquisitions[key].lock = c THEN Nobody
                                   ELSE acquisitions[key].lock
                  /\ a[key].generation = acquisitions[key].generation
  <2>1. CASE key = k
    BY <1>1, <1>3, <1>5, <2>1
  <2>2. CASE key # k
    BY <1>1, <1>5, <2>2
  <2> QED  BY <2>1, <2>2
<1>8. ReleasedBy(c, a)
  BY <1>6, <1>7 DEF ReleasedBy
<1> QED  BY <1>7, <1>8 DEF a, k

\* A call that is not over keeps what it registered for.
LEMMA AdvanceKeys ==
    ASSUME TypeOK, NEW c \in Callers, NEW a, NEW cl, CallsAlike(cl), Advance(c, a, cl),
           call'[c] # Quiet
    PROVE  call'[c] \in CallStates /\ call'[c].keys = call[c].keys
<1>1. cl[c] \in CallStates /\ cl \in [Callers -> CallStates] /\ cl[c].keys = call[c].keys
  BY DEF CallsAlike
<1>2. call[c].todo # {Turn(c)}
  BY <1>1 DEF Advance
<1> DEFINE q == [cl[c] EXCEPT !.pc = "queued", !.todo = call[c].todo \ {Turn(c)}]
<1>3. call' = [cl EXCEPT ![c] = q]
  BY <1>1, <1>2 DEF Advance, CallsAlike
<1>4. q \in CallStates /\ q.keys = call[c].keys
  BY <1>1 DEF CallStates, PcValues, TypeOK
<1> HIDE DEF q
<1> QED  BY <1>1, <1>3, <1>4

\* What is shared stays so while the generation and the records' attempts do.
LEMMA SharedGoesOn ==
    ASSUME TypeOK, RecordsCounted, RecordsCounted', SharedAreLast, generation' = generation,
           call' \in [Callers -> CallStates],
           \A d \in Callers : \/ call'[d].since = {}
                              \/ /\ call'[d].since = call[d].since
                                 /\ call'[d].done = call[d].done
                                 /\ call'[d].keys = call[d].keys,
           \A key \in Keys : acquisitions'[key] # Absent /\ acquisitions[key] # Absent =>
             acquisitions'[key].generation = acquisitions[key].generation
    PROVE  SharedAreLast'
<1> SUFFICES ASSUME NEW d \in Callers, NEW key \in call'[d].since
             PROVE  /\ key \in call'[d].done /\ key \in call'[d].keys
                    /\ acquisitions'[key].generation = generation
  BY DEF SharedAreLast, SharedIsLast
<1>1. /\ key \in call[d].since /\ call'[d].done = call[d].done
      /\ call'[d].keys = call[d].keys
  OBVIOUS
<1>2. /\ key \in call[d].done /\ key \in call[d].keys
      /\ acquisitions[key].generation = generation
  BY <1>1 DEF SharedAreLast, SharedIsLast
<1>3. key \in Keys
  BY <1>2 DEF TypeOK, CallStates
<1>4. acquisitions[key] # Absent
  BY <1>2, <1>3, UserHasRecord
<1>5. acquisitions'[key] # Absent
  BY <1>1, <1>2, <1>3 DEF RecordsCounted, Counted, Users
<1> QED  BY <1>1, <1>2, <1>3, <1>4, <1>5

\* What Complete leaves of a state that satisfies the invariant.
LEMMA CompleteStep ==
    ASSUME TimeseriesInv, NEW c \in Callers, call[c].pc = "fetching", Complete(c, Turn(c)),
           generation' = generation, stopped' = stopped
    PROVE  /\ acquisitions' \in [Keys -> {Absent} \union Acquisitions]
           /\ call' \in [Callers -> CallStates]
           /\ CallsShaped' /\ RecordsCounted' /\ RecordsLocked'
           /\ RequestsOfGeneration' /\ SharedAreLast'
<1> DEFINE k == Turn(c)
<1>1. TypeOK /\ CallsShaped /\ RecordsCounted /\ RecordsLocked /\ generation \in Nat
  BY DEF TimeseriesInv, TypeOK
<1>2. /\ ReleasedBy(c, Released(k))
      /\ \A key \in Keys : acquisitions[key] # Absent =>
           Released(k)[key].generation = acquisitions[key].generation
  BY <1>1, ReleasedStep
<1>3. k \in Keys /\ k \in call[c].keys /\ acquisitions[k] # Absent
  BY <1>1, FetcherLocks
<1>4. \A d \in Callers : call[d] \in CallStates /\ SharedIsLast(d) /\ RequestOfGeneration(d)
                         /\ CallShape(d)
  BY DEF TimeseriesInv, TypeOK, SharedAreLast, RequestsOfGeneration, CallsShaped
<1>5. CASE Late(c)
  <2>1. Advance(c, Released(k), call)
    BY <1>5 DEF Complete
  <2>2. CallsAlike(call)
    BY <1>1 DEF CallsAlike, TypeOK
  <2> HIDE DEF k
  <2>3. /\ acquisitions' \in [Keys -> {Absent} \union Acquisitions]
        /\ call' \in [Callers -> CallStates]
        /\ CallsShaped' /\ RecordsCounted' /\ RecordsLocked'
        /\ \A key \in Keys : acquisitions'[key] # Absent =>
             acquisitions'[key].generation = Released(k)[key].generation
        /\ call'[c].pc # "fetching"
        /\ call'[c] = Quiet \/ (call'[c].done = call[c].done /\ call'[c].since = call[c].since)
        /\ \A d \in Callers \ {c} : call'[d] = call[d]
    BY <1>1, <1>2, <2>1, <2>2, AdvanceStep
  <2>4. RequestsOfGeneration'
    BY <1>4, <2>3 DEF RequestsOfGeneration, RequestOfGeneration
  <2>5. SharedAreLast'
    <3>1. ASSUME NEW d \in Callers
          PROVE  \/ call'[d].since = {}
                 \/ /\ call'[d].since = call[d].since
                    /\ call'[d].done = call[d].done
                    /\ call'[d].keys = call[d].keys
      <4>1. CASE call'[d] = Quiet
        BY <4>1 DEF Quiet
      <4>2. CASE call'[d] # Quiet
        BY <1>1, <2>1, <2>2, <2>3, <4>2, AdvanceKeys
      <4> QED  BY <4>1, <4>2
    <3>2. \A key \in Keys : acquisitions'[key] # Absent /\ acquisitions[key] # Absent =>
             acquisitions'[key].generation = acquisitions[key].generation
      BY <1>2, <2>3
    <3>3. SharedAreLast
      BY DEF TimeseriesInv
    <3> QED  BY <1>1, <2>3, <3>1, <3>2, <3>3, SharedGoesOn
  <2> QED  BY <2>3, <2>4, <2>5
<1>6. CASE ~Late(c)
  <2> DEFINE a == [Released(k) EXCEPT ![k].generation = generation]
             cl == [d \in Callers |->
                      IF k \in call[d].keys
                      THEN [call[d] EXCEPT !.done = @ \union {k}, !.since = @ \union {k}]
                      ELSE call[d]]
  <2>1. Advance(c, a, cl)
    BY <1>6 DEF Complete
  <2>2. ReleasedBy(c, a) /\ a[k].generation = generation
        /\ \A key \in Keys \ {k} : acquisitions[key] # Absent =>
             a[key].generation = acquisitions[key].generation
    <3> DEFINE b == Released(k)
               r == b[k]
               q == [r EXCEPT !.generation = generation]
    <3>1. /\ b \in [Keys -> {Absent} \union Acquisitions]
          /\ \A key \in Keys :
               /\ b[key] = Absent <=> acquisitions[key] = Absent
               /\ b[key] # Absent =>
                    /\ b[key].callers = acquisitions[key].callers
                    /\ b[key].lock = IF acquisitions[key].lock = c THEN Nobody
                                     ELSE acquisitions[key].lock
      BY <1>2 DEF ReleasedBy
    <3> HIDE DEF b, k
    <3>2. r \in Acquisitions
      BY <1>3, <3>1
    <3>3. a = [b EXCEPT ![k] = q]
      BY <1>3, <3>1 DEF b
    <3> HIDE DEF a
    <3>4. /\ q \in Acquisitions /\ q # Absent /\ q.callers = r.callers
          /\ q.lock = r.lock /\ q.generation = generation
      <4> HIDE DEF r
      <4> QED  BY <1>1, <3>2, Regenerate
    <3> HIDE DEF q
    <3>5. a \in [Keys -> {Absent} \union Acquisitions]
      BY <1>3, <3>1, <3>3, <3>4
    <3>6. a[k] = q /\ \A key \in Keys \ {k} : a[key] = b[key]
      BY <1>3, <3>1, <3>3
    <3>7. ReleasedBy(c, a)
      <4>1. ASSUME NEW key \in Keys
            PROVE  /\ a[key] = Absent <=> acquisitions[key] = Absent
                   /\ a[key] # Absent =>
                        /\ a[key].callers = acquisitions[key].callers
                        /\ a[key].lock = IF acquisitions[key].lock = c THEN Nobody
                                         ELSE acquisitions[key].lock
        <5>1. CASE key = k
          BY <1>3, <3>1, <3>4, <3>6, <5>1
        <5>2. CASE key # k
          BY <3>1, <3>6, <5>2
        <5> QED  BY <5>1, <5>2
      <4> QED  BY <3>5, <4>1 DEF ReleasedBy
    <3> QED  BY <1>2, <3>4, <3>6, <3>7 DEF b
  <2>3. /\ CallsAlike(cl)
        /\ \A d \in Callers :
             /\ k \in call[d].keys => /\ cl[d].done = call[d].done \union {k}
                                      /\ cl[d].since = call[d].since \union {k}
             /\ k \notin call[d].keys => cl[d] = call[d]
    <3> HIDE DEF k
    <3>1. ASSUME NEW d \in Callers, k \in call[d].keys
          PROVE  /\ cl[d] \in CallStates
                 /\ cl[d].pc = call[d].pc /\ cl[d].todo = call[d].todo
                 /\ cl[d].keys = call[d].keys /\ cl[d].gen = call[d].gen
                 /\ cl[d].done = call[d].done \union {k}
                 /\ cl[d].since = call[d].since \union {k}
                 /\ call[d].pc # "idle"
      <4>1. call[d] \in CallStates
        BY <1>4
      <4>2. cl[d] = [call[d] EXCEPT !.done = call[d].done \union {k},
                                    !.since = call[d].since \union {k}]
        BY <3>1
      <4> HIDE DEF cl
      <4>3. call[d].pc # "idle"
        BY <1>4, <3>1 DEF CallShape, Quiet
      <4> DEFINE r == call[d]
                 D == call[d].done \union {k}
                 S == call[d].since \union {k}
      <4>4. D \in SUBSET Keys /\ S \in SUBSET Keys
        BY <1>3, <4>1 DEF CallStates
      <4>5. cl[d] = [r EXCEPT !.done = D, !.since = S]
        BY <4>2
      <4>6. /\ cl[d] \in CallStates
            /\ cl[d].pc = r.pc /\ cl[d].todo = r.todo /\ cl[d].keys = r.keys
            /\ cl[d].gen = r.gen /\ cl[d].done = D /\ cl[d].since = S
        <5> HIDE DEF r, D, S
        <5>1. r \in CallStates
          BY <4>1 DEF r
        <5> DEFINE q == [r EXCEPT !.done = D, !.since = S]
        <5>2. /\ q \in CallStates
              /\ q.pc = r.pc /\ q.todo = r.todo /\ q.keys = r.keys
              /\ q.gen = r.gen /\ q.done = D /\ q.since = S
          BY <4>4, <5>1 DEF CallStates
        <5>3. cl[d] = q
          BY <4>5
        <5> HIDE DEF q
        <5> QED  BY <5>2, <5>3
      <4> QED  BY <4>3, <4>6
    <3>2. ASSUME NEW d \in Callers, k \notin call[d].keys
          PROVE  cl[d] = call[d] /\ cl[d] \in CallStates
      BY <1>4, <3>2
    <3>3. cl = [d \in Callers |-> cl[d]]
      OBVIOUS
    <3> HIDE DEF cl
    <3>4. cl \in [Callers -> CallStates]
      BY <3>1, <3>2, <3>3
    <3> QED  BY <3>1, <3>2, <3>4 DEF CallsAlike
  <2> HIDE DEF a, cl, k
  <2>4. /\ acquisitions' \in [Keys -> {Absent} \union Acquisitions]
        /\ call' \in [Callers -> CallStates]
        /\ CallsShaped' /\ RecordsCounted' /\ RecordsLocked'
        /\ \A key \in Keys : acquisitions'[key] # Absent =>
             acquisitions'[key].generation = a[key].generation
        /\ call'[c].pc # "fetching"
        /\ call'[c] = Quiet \/ (call'[c].done = cl[c].done /\ call'[c].since = cl[c].since)
        /\ \A d \in Callers \ {c} : call'[d] = cl[d]
    BY <1>1, <2>1, <2>2, <2>3, AdvanceStep
  <2>5. RequestsOfGeneration'
    BY <1>4, <2>3, <2>4 DEF RequestsOfGeneration, RequestOfGeneration, CallsAlike
  <2>6. SharedAreLast'
    <3> SUFFICES ASSUME NEW d \in Callers, NEW key \in call'[d].since
                 PROVE  /\ key \in call'[d].done /\ key \in call'[d].keys
                        /\ acquisitions'[key].generation = generation
      BY DEF SharedAreLast, SharedIsLast
    <3>1. call'[d] # Quiet
      BY DEF Quiet
    <3>2. call'[d].done = cl[d].done /\ call'[d].since = cl[d].since
      BY <2>4, <3>1
    <3>3. call'[d] \in CallStates /\ call'[d].keys = call[d].keys
      <4>1. CASE d = c
        BY <2>1, <2>4, <3>1, <4>1, AdvanceKeys, <2>3, <1>1
      <4>2. CASE d # c
        BY <2>3, <2>4, <4>2 DEF CallsAlike
      <4> QED  BY <4>1, <4>2
    <3>4. key \in call[d].since \/ (key = k /\ k \in call[d].keys)
      BY <2>3, <3>2
    <3>5. key \in call[d].keys /\ key \in cl[d].done
      BY <1>4, <2>3, <3>4 DEF SharedIsLast
    <3>6. key \in Keys
      BY <3>3, <3>5 DEF CallStates
    <3>7. acquisitions'[key] # Absent
      BY <2>4, <3>3, <3>5, <3>6 DEF RecordsCounted, Counted, Users
    <3>8. acquisitions[key] # Absent
      BY <1>1, <3>5, <3>6, UserHasRecord
    <3>9. a[key].generation = generation
      BY <1>4, <2>2, <3>4, <3>6, <3>8 DEF SharedIsLast
    <3> QED  BY <2>4, <3>2, <3>3, <3>5, <3>6, <3>7, <3>9
  <2> QED  BY <2>4, <2>5, <2>6
<1> QED  BY <1>5, <1>6

\* An invalidation: every request under way is of an older generation now, and
\* nothing is shared any more.
LEMMA RenewStep ==
    ASSUME TimeseriesInv, NextGeneration, acquisitions' = acquisitions
    PROVE  /\ generation' \in Nat
           /\ call' \in [Callers -> CallStates]
           /\ CallsShaped' /\ RecordsCounted' /\ RecordsLocked'
           /\ RequestsOfGeneration' /\ SharedAreLast'
<1>1. TypeOK /\ generation \in Nat /\ generation' = generation + 1
  BY DEF TimeseriesInv, TypeOK, NextGeneration
<1>2. ASSUME NEW d \in Callers
      PROVE  /\ call'[d] \in CallStates
             /\ call'[d].pc = call[d].pc /\ call'[d].todo = call[d].todo
             /\ call'[d].keys = call[d].keys /\ call'[d].gen = call[d].gen
             /\ call'[d].since = {}
             /\ call[d] = Quiet => call'[d] = Quiet
  <2> DEFINE r == call[d]
             q == [r EXCEPT !.since = {}]
  <2>1. r \in CallStates /\ call'[d] = q
    BY <1>1 DEF TypeOK, NextGeneration
  <2>2. r = Quiet => q = Quiet
    BY DEF Quiet
  <2> HIDE DEF r
  <2>3. /\ q \in CallStates
        /\ q.pc = r.pc /\ q.todo = r.todo /\ q.keys = r.keys /\ q.gen = r.gen
        /\ q.since = {}
    BY <2>1 DEF CallStates
  <2> HIDE DEF q
  <2> QED  BY <2>1, <2>2, <2>3 DEF r
<1>3. call' \in [Callers -> CallStates]
  BY <1>2 DEF NextGeneration
<1>4. RecordsCounted' /\ RecordsLocked'
  <2>1. \A d \in Callers : /\ call'[d].pc = call[d].pc
                           /\ call'[d].todo = call[d].todo
                           /\ call'[d].keys = call[d].keys
    BY <1>2
  <2>2. RecordsCounted /\ RecordsLocked
    BY DEF TimeseriesInv
  <2> QED  BY <1>1, <2>1, <2>2, SameCounts
<1>5. CallsShaped'
  <2> SUFFICES ASSUME NEW d \in Callers PROVE CallShape(d)'
    BY DEF CallsShaped
  <2>1. CallShape(d)
    BY DEF TimeseriesInv, CallsShaped
  <2> QED  BY <1>2, <2>1 DEF CallShape
<1>6. RequestsOfGeneration'
  <2> SUFFICES ASSUME NEW d \in Callers PROVE RequestOfGeneration(d)'
    BY DEF RequestsOfGeneration
  <2>1. RequestOfGeneration(d) /\ call[d].gen \in Nat
    BY <1>1 DEF TimeseriesInv, RequestsOfGeneration, TypeOK, CallStates
  <2> QED  BY <1>1, <1>2, <2>1 DEF RequestOfGeneration
<1>7. SharedAreLast'
  BY <1>2 DEF SharedAreLast, SharedIsLast
<1> QED  BY <1>1, <1>3, <1>4, <1>5, <1>6, <1>7


\* A cache of typed records without retired ones stays so when old days leave.
LEMMA PruneKeepsOrDrops ==
    ASSUME NEW c, NEW key \in Keys
    PROVE  PruneDays(c)[key] = c[key] \/ PruneDays(c)[key] = Absent
BY DEF PruneDays

LEMMA PruneTyped ==
    ASSUME NEW c \in [Keys -> {Absent} \union CacheRecords]
    PROVE  PruneDays(c) \in [Keys -> {Absent} \union CacheRecords]
BY DEF PruneDays

-----------------------------------------------------------------------------
(* The invariant *)

LEMMA InitInv == Init => TimeseriesInv
<1> SUFFICES ASSUME Init PROVE TimeseriesInv
  OBVIOUS
<1> USE ConstantsAssumption
<1>1. TypeOK
  BY QuietCall DEF Init, TypeOK
<1>2. CallsShaped /\ RequestsOfGeneration /\ SharedAreLast
  BY DEF Init, CallsShaped, CallShape, RequestsOfGeneration, RequestOfGeneration,
         SharedAreLast, SharedIsLast, Quiet
<1>3. RecordsCounted /\ RecordsLocked
  BY DEF Init, RecordsCounted, Counted, Users, RecordsLocked, Locked, Quiet
<1>4. NoRetiredRecords
  BY DEF Init, NoRetiredRecords, Cached
<1>5. BackoffCoversDeadline
  BY DEF Init, BackoffCoversDeadline
<1> QED  BY <1>1, <1>2, <1>3, <1>4, <1>5 DEF TimeseriesInv

\* What a step that does not touch the cache and the backoffs leaves.
LEMMA RestStays ==
    ASSUME TimeseriesInv,
           UNCHANGED <<stopped, active, cache, backoff, deadline>>, now' \in Nat,
           generation' \in Nat,
           acquisitions' \in [Keys -> {Absent} \union Acquisitions],
           call' \in [Callers -> CallStates]
    PROVE  TypeOK' /\ NoRetiredRecords' /\ BackoffCoversDeadline'
BY DEF TimeseriesInv, TypeOK, NoRetiredRecords, BackoffCoversDeadline, Cached

LEMMA SkipKeeps ==
    ASSUME TimeseriesInv, NEW c \in Callers, Skip(c)
    PROVE  TimeseriesInv'
<1>1. /\ call[c].pc = "queued" /\ acquisitions[Turn(c)].lock = Nobody
      /\ Advance(c, acquisitions, call)
      /\ UNCHANGED <<now, stopped, generation, active, cache, backoff, deadline>>
  BY DEF Skip
<1>2. /\ TypeOK /\ CallsShaped /\ RecordsCounted /\ RecordsLocked /\ SharedAreLast
      /\ RequestsOfGeneration
      /\ generation \in Nat /\ now \in Nat
  BY DEF TimeseriesInv, TypeOK
<1>3. ReleasedBy(c, acquisitions)
  <2> SUFFICES ASSUME NEW key \in Keys, acquisitions[key] # Absent
               PROVE  acquisitions[key].lock # c
    BY <1>2 DEF ReleasedBy, TypeOK
  <2> QED  BY <1>1, <1>2 DEF RecordsLocked, Locked
<1>4. CallsAlike(call)
  BY <1>2 DEF CallsAlike, TypeOK
<1>5. /\ acquisitions' \in [Keys -> {Absent} \union Acquisitions]
      /\ call' \in [Callers -> CallStates]
      /\ CallsShaped' /\ RecordsCounted' /\ RecordsLocked'
      /\ \A key \in Keys : acquisitions'[key] # Absent =>
           acquisitions'[key].generation = acquisitions[key].generation
      /\ call'[c].pc # "fetching"
      /\ call'[c] = Quiet \/ (call'[c].done = call[c].done /\ call'[c].since = call[c].since)
      /\ \A d \in Callers \ {c} : call'[d] = call[d]
  BY <1>1, <1>2, <1>3, <1>4, AdvanceStep
<1>6. RequestsOfGeneration'
  BY <1>1, <1>2, <1>5 DEF RequestsOfGeneration, RequestOfGeneration
<1>7. SharedAreLast'
  <2>1. ASSUME NEW d \in Callers
        PROVE  \/ call'[d].since = {}
               \/ /\ call'[d].since = call[d].since
                  /\ call'[d].done = call[d].done
                  /\ call'[d].keys = call[d].keys
    <3>1. CASE call'[d] = Quiet
      BY <3>1 DEF Quiet
    <3>2. CASE call'[d] # Quiet
      BY <1>1, <1>2, <1>4, <1>5, <3>2, AdvanceKeys
    <3> QED  BY <3>1, <3>2
  <2> QED  BY <1>1, <1>2, <1>5, <2>1, SharedGoesOn
<1>8. TypeOK' /\ NoRetiredRecords' /\ BackoffCoversDeadline'
  BY <1>1, <1>2, <1>5, RestStays
<1> QED  BY <1>5, <1>6, <1>7, <1>8 DEF TimeseriesInv

LEMMA RequestKeeps ==
    ASSUME TimeseriesInv, NEW c \in Callers, Request(c)
    PROVE  TimeseriesInv'
<1> DEFINE k == Turn(c)
           r == acquisitions[k]
           p == [r EXCEPT !.lock = c]
           q == [call[c] EXCEPT !.pc = "fetching", !.gen = generation]
<1>1. /\ call[c].pc = "queued" /\ r.lock = Nobody /\ Due(k, call[c].force)
      /\ acquisitions' = [acquisitions EXCEPT ![k].lock = c]
      /\ call' = [call EXCEPT ![c].pc = "fetching", ![c].gen = generation]
      /\ UNCHANGED <<now, stopped, generation, active, cache, backoff, deadline>>
  BY DEF Request
<1>2. /\ TypeOK /\ CallsShaped /\ RecordsCounted /\ RecordsLocked /\ SharedAreLast
      /\ RequestsOfGeneration
      /\ generation \in Nat /\ now \in Nat /\ call[c] \in CallStates
  BY DEF TimeseriesInv, TypeOK
<1>3. k \in call[c].todo /\ k \in call[c].keys /\ k \in Keys /\ ~stopped
  <2>1. call[c].todo # {} /\ call[c].todo \subseteq call[c].keys
    BY <1>1, <1>2 DEF CallsShaped, CallShape
  <2> QED  BY <1>1, <1>2, <2>1, TurnLeft DEF Due, CallStates
<1>4. r # Absent /\ r \in Acquisitions
  BY <1>2, <1>3, UserHasRecord DEF TypeOK
<1>5. /\ p \in Acquisitions /\ p # Absent /\ p.callers = r.callers
      /\ p.lock = c /\ p.generation = r.generation
  <2> HIDE DEF r
  <2> QED  BY <1>4, Relock
<1>6. /\ q \in CallStates /\ q.pc = "fetching" /\ q.gen = generation
      /\ q.todo = call[c].todo /\ q.keys = call[c].keys /\ q.done = call[c].done
      /\ q.since = call[c].since
  BY <1>2 DEF CallStates, PcValues
<1>7. acquisitions' = [acquisitions EXCEPT ![k] = p] /\ call' = [call EXCEPT ![c] = q]
  BY <1>1, <1>2, <1>3 DEF TypeOK
<1> HIDE DEF k, p, q
<1>8. /\ acquisitions' \in [Keys -> {Absent} \union Acquisitions]
      /\ acquisitions'[k] = p
      /\ \A key \in Keys \ {k} : acquisitions'[key] = acquisitions[key]
  BY <1>2, <1>3, <1>5, <1>7 DEF TypeOK
<1>9. /\ call' \in [Callers -> CallStates] /\ call'[c] = q
      /\ \A d \in Callers \ {c} : call'[d] = call[d]
  BY <1>2, <1>6, <1>7 DEF TypeOK
<1>10. \A d \in Callers : /\ call'[d].todo = call[d].todo
                          /\ call'[d].keys = call[d].keys
                          /\ call'[d].done = call[d].done
                          /\ call'[d].since = call[d].since
  BY <1>6, <1>9
<1>11. RecordsCounted'
  <2> SUFFICES ASSUME NEW key \in Keys PROVE Counted(key)'
    BY DEF RecordsCounted
  <2>1. Counted(key) /\ Users(key)' = Users(key)
    BY <1>2, <1>10 DEF RecordsCounted, Users
  <2> QED  BY <1>4, <1>5, <1>8, <2>1 DEF Counted
<1>12. RecordsLocked'
  <2> SUFFICES ASSUME NEW key \in Keys, acquisitions'[key] # Absent, NEW d \in Callers
               PROVE  acquisitions'[key].lock = d
                        <=> call'[d].pc = "fetching" /\ Turn(d)' = key
    BY DEF RecordsLocked, Locked
  <2>1. Turn(d)' = Turn(d) /\ Turn(c)' = k
    BY <1>10, TurnStays DEF k
  <2>2. acquisitions[key] # Absent
          => (acquisitions[key].lock = d <=> call[d].pc = "fetching" /\ Turn(d) = key)
    BY <1>2 DEF RecordsLocked, Locked
  <2>3. CASE key = k
    BY <1>1, <1>4, <1>5, <1>6, <1>8, <1>9, <2>1, <2>2, <2>3, ConstantsAssumption
  <2>4. CASE key # k
    BY <1>1, <1>6, <1>8, <1>9, <2>1, <2>2, <2>4
  <2> QED  BY <2>3, <2>4
<1>13. CallsShaped'
  <2> SUFFICES ASSUME NEW d \in Callers PROVE CallShape(d)'
    BY DEF CallsShaped
  <2>1. CallShape(d)
    BY <1>2 DEF CallsShaped
  <2>2. CASE d = c
    BY <1>1, <1>6, <1>9, <2>1, <2>2 DEF CallShape
  <2>3. CASE d # c
    BY <1>9, <2>1, <2>3 DEF CallShape
  <2> QED  BY <2>2, <2>3
<1>14. RequestsOfGeneration'
  BY <1>1, <1>2, <1>3, <1>6, <1>9 DEF RequestsOfGeneration, RequestOfGeneration
<1>15. SharedAreLast'
  <2>1. \A key \in Keys : acquisitions'[key] # Absent /\ acquisitions[key] # Absent =>
          acquisitions'[key].generation = acquisitions[key].generation
    BY <1>5, <1>8
  <2> QED  BY <1>1, <1>2, <1>9, <1>10, <1>11, <2>1, SharedGoesOn
<1>16. TypeOK' /\ NoRetiredRecords' /\ BackoffCoversDeadline'
  BY <1>1, <1>2, <1>8, <1>9, RestStays
<1> QED  BY <1>11, <1>12, <1>13, <1>14, <1>15, <1>16 DEF TimeseriesInv

LEMMA RefreshKeeps ==
    ASSUME TimeseriesInv, NEW c \in Callers, NEW asked \in Calls,
           Refresh(c, asked[1], asked[2])
    PROVE  TimeseriesInv'
<1> DEFINE due == {key \in {Lifetime, <<"daily", asked[1]>>} : Due(key, asked[2])}
           found(key) == IF acquisitions[key] = Absent THEN NewAcquisition
                         ELSE acquisitions[key]
           q == [Quiet EXCEPT !.pc = "queued", !.force = asked[2], !.keys = due,
                              !.todo = due]
<1>1. /\ call[c].pc = "idle" /\ due # {}
      /\ acquisitions' = [key \in Keys |->
                            IF key \in due THEN [found(key) EXCEPT !.callers = @ + 1]
                            ELSE acquisitions[key]]
      /\ call' = [call EXCEPT ![c] = q]
      /\ UNCHANGED <<now, stopped, generation, active, cache, backoff, deadline>>
  BY DEF Refresh
<1>2. /\ TypeOK /\ CallsShaped /\ RecordsCounted /\ RecordsLocked /\ SharedAreLast
      /\ RequestsOfGeneration
      /\ generation \in Nat /\ now \in Nat /\ call[c] = Quiet
  BY <1>1 DEF TimeseriesInv, TypeOK, CallsShaped, CallShape
<1>3. asked[1] \in Days /\ asked[2] \in BOOLEAN
  BY ConstantsAssumption
<1>4. due \subseteq Keys
  BY <1>3 DEF Keys
<1>5. /\ q \in CallStates /\ q.pc = "queued" /\ q.keys = due /\ q.todo = due
      /\ q.since = {}
  <2> HIDE DEF due
  <2> QED  BY <1>3, <1>4 DEF Quiet, CallStates, PcValues
<1> HIDE DEF q
<1>6. /\ call' \in [Callers -> CallStates] /\ call'[c] = q
      /\ \A d \in Callers \ {c} : call'[d] = call[d]
  BY <1>1, <1>2, <1>5 DEF TypeOK
<1>7. ASSUME NEW key \in Keys, key \in due
      PROVE  /\ acquisitions'[key] \in Acquisitions /\ acquisitions'[key] # Absent
             /\ acquisitions'[key].callers = found(key).callers + 1
             /\ acquisitions'[key].lock = found(key).lock
             /\ acquisitions'[key].generation = found(key).generation
             /\ found(key) \in Acquisitions
  <2> HIDE DEF due
  <2>1. found(key) \in Acquisitions
    BY <1>2 DEF TypeOK, Acquisitions, NewAcquisition
  <2>2. found(key).callers + 1 \in Nat
    BY <2>1 DEF Acquisitions
  <2> DEFINE r == found(key)
             n == r.callers + 1
  <2>3. acquisitions'[key] = [r EXCEPT !.callers = n]
    BY <1>1, <1>7
  <2>4. r \in Acquisitions /\ n \in Nat
    BY <2>1, <2>2
  <2> HIDE DEF r, n
  <2>5. LET s == [r EXCEPT !.callers = n]
        IN  /\ s \in Acquisitions /\ s # Absent
            /\ s.callers = n /\ s.lock = r.lock /\ s.generation = r.generation
    BY <2>4, Recount
  <2> QED  BY <2>3, <2>4, <2>5 DEF r, n
<1>8. ASSUME NEW key \in Keys, key \notin due
      PROVE  acquisitions'[key] = acquisitions[key]
  BY <1>1, <1>8
<1> HIDE DEF due, found
<1>9. acquisitions' \in [Keys -> {Absent} \union Acquisitions]
  <2>1. DOMAIN acquisitions' = Keys /\ acquisitions' = [key \in Keys |-> acquisitions'[key]]
    BY <1>1
  <2>2. \A key \in Keys : acquisitions'[key] \in {Absent} \union Acquisitions
    BY <1>2, <1>7, <1>8 DEF TypeOK
  <2> QED  BY <2>1, <2>2
<1>10. ASSUME NEW key \in Keys
       PROVE  /\ c \notin Users(key)
              /\ Users(key)' = IF key \in due THEN Users(key) \union {c} ELSE Users(key)
  <2>1. c \notin Users(key)
    BY <1>2 DEF Users, Quiet
  <2> QED  BY <1>5, <1>6, <2>1 DEF Users
<1>11. RecordsCounted'
  <2> SUFFICES ASSUME NEW key \in Keys PROVE Counted(key)'
    BY DEF RecordsCounted
  <2>1. Counted(key)
    BY <1>2 DEF RecordsCounted
  <2>2. CASE key \in due
    <3>1. found(key).callers = Cardinality(Users(key))
      <4>1. CASE acquisitions[key] = Absent
        BY <2>1, <4>1, FS_EmptySet DEF Counted, found, NewAcquisition
      <4>2. CASE acquisitions[key] # Absent
        BY <2>1, <4>2 DEF Counted, found
      <4> QED  BY <4>1, <4>2
    <3>2. Cardinality(Users(key) \union {c}) = Cardinality(Users(key)) + 1
      BY <1>10, UsersFinite, FS_AddElement
    <3> QED  BY <1>7, <1>10, <2>2, <3>1, <3>2 DEF Counted
  <2>3. CASE key \notin due
    BY <1>8, <1>10, <2>1, <2>3 DEF Counted
  <2> QED  BY <2>2, <2>3
<1>12. RecordsLocked'
  <2> SUFFICES ASSUME NEW key \in Keys, acquisitions'[key] # Absent, NEW d \in Callers
               PROVE  acquisitions'[key].lock = d
                        <=> call'[d].pc = "fetching" /\ Turn(d)' = key
    BY DEF RecordsLocked, Locked
  <2>1. acquisitions'[key].lock = IF acquisitions[key] = Absent THEN Nobody
                                  ELSE acquisitions[key].lock
    BY <1>7, <1>8 DEF found, NewAcquisition
  <2>2. CASE acquisitions[key] = Absent
    <3>1. ~(call'[d].pc = "fetching" /\ Turn(d)' = key)
      <4>1. CASE d = c
        BY <1>5, <1>6, <4>1
      <4>2. CASE d # c
        <5>1. call'[d] = call[d] /\ Turn(d)' = Turn(d)
          BY <1>6, <4>2, TurnStays
        <5> QED  BY <1>2, <2>2, <5>1, FetcherLocks
      <4> QED  BY <4>1, <4>2
    <3> QED  BY <2>1, <2>2, <3>1, ConstantsAssumption
  <2>3. CASE acquisitions[key] # Absent
    <3>1. acquisitions[key].lock = d <=> call[d].pc = "fetching" /\ Turn(d) = key
      BY <1>2, <2>3 DEF RecordsLocked, Locked
    <3>2. CASE d = c
      BY <1>1, <1>5, <1>6, <2>1, <2>3, <3>1, <3>2
    <3>3. CASE d # c
      <4>1. call'[d] = call[d] /\ Turn(d)' = Turn(d)
        BY <1>6, <3>3, TurnStays
      <4> QED  BY <2>1, <2>3, <3>1, <4>1
    <3> QED  BY <3>2, <3>3
  <2> QED  BY <2>2, <2>3
<1>13. CallsShaped'
  <2> SUFFICES ASSUME NEW d \in Callers PROVE CallShape(d)'
    BY DEF CallsShaped
  <2>1. CallShape(d)
    BY <1>2 DEF CallsShaped
  <2>2. CASE d = c
    BY <1>1, <1>5, <1>6, <2>2 DEF CallShape
  <2>3. CASE d # c
    BY <1>6, <2>1, <2>3 DEF CallShape
  <2> QED  BY <2>2, <2>3
<1>14. RequestsOfGeneration'
  BY <1>1, <1>2, <1>5, <1>6 DEF RequestsOfGeneration, RequestOfGeneration
<1>15. SharedAreLast'
  <2>1. \A key \in Keys : acquisitions'[key] # Absent /\ acquisitions[key] # Absent =>
          acquisitions'[key].generation = acquisitions[key].generation
    BY <1>7, <1>8 DEF found
  <2>2. \A d \in Callers : \/ call'[d].since = {}
                           \/ /\ call'[d].since = call[d].since
                              /\ call'[d].done = call[d].done
                              /\ call'[d].keys = call[d].keys
    BY <1>5, <1>6
  <2> QED  BY <1>1, <1>2, <1>6, <1>11, <2>1, <2>2, SharedGoesOn
<1>16. TypeOK' /\ NoRetiredRecords' /\ BackoffCoversDeadline'
  BY <1>1, <1>2, <1>6, <1>9, RestStays
<1> QED  BY <1>6, <1>11, <1>12, <1>13, <1>14, <1>15, <1>16 DEF TimeseriesInv

LEMMA CancelKeeps ==
    ASSUME TimeseriesInv, NEW c \in Callers, Cancel(c)
    PROVE  TimeseriesInv'
<1> DEFINE a == IF call[c].pc = "fetching" THEN Released(Turn(c)) ELSE acquisitions
<1>1. /\ call[c].pc # "idle"
      /\ acquisitions' = Unregister(a, call[c].keys)
      /\ call' = [call EXCEPT ![c] = Quiet]
      /\ UNCHANGED <<now, stopped, generation, active, cache, backoff, deadline>>
  BY DEF Cancel
<1>2. /\ TypeOK /\ CallsShaped /\ RecordsCounted /\ RecordsLocked /\ SharedAreLast
      /\ RequestsOfGeneration
      /\ generation \in Nat /\ now \in Nat
  BY DEF TimeseriesInv, TypeOK
<1>3. /\ ReleasedBy(c, a)
      /\ \A key \in Keys : acquisitions[key] # Absent =>
           a[key].generation = acquisitions[key].generation
  <2>1. CASE call[c].pc = "fetching"
    BY <1>2, <2>1, ReleasedStep
  <2>2. CASE call[c].pc # "fetching"
    <3>1. \A key \in Keys : acquisitions[key] # Absent => acquisitions[key].lock # c
      BY <1>2, <2>2 DEF RecordsLocked, Locked
    <3> QED  BY <1>2, <2>2, <3>1 DEF ReleasedBy, TypeOK
  <2> QED  BY <2>1, <2>2
<1> HIDE DEF a
<1>4. /\ call' \in [Callers -> CallStates] /\ call'[c] = Quiet
      /\ \A d \in Callers \ {c} : call'[d] = call[d]
  BY <1>1, <1>2, QuietCall DEF TypeOK
<1>5. /\ acquisitions' \in [Keys -> {Absent} \union Acquisitions]
      /\ RecordsCounted' /\ RecordsLocked'
      /\ \A key \in Keys : acquisitions'[key] # Absent =>
           /\ a[key] # Absent
           /\ acquisitions'[key].generation = a[key].generation
  <2>1. OthersGoOn(c)
    BY <1>4 DEF OthersGoOn
  <2> QED  BY <1>1, <1>2, <1>3, <1>4, <2>1, LeaveCounts
<1>6. CallsShaped'
  <2> SUFFICES ASSUME NEW d \in Callers PROVE CallShape(d)'
    BY DEF CallsShaped
  <2>1. CallShape(d)
    BY <1>2 DEF CallsShaped
  <2> QED  BY <1>4, <2>1 DEF CallShape, Quiet
<1>7. RequestsOfGeneration'
  BY <1>1, <1>2, <1>4 DEF RequestsOfGeneration, RequestOfGeneration, Quiet
<1>8. SharedAreLast'
  <2>1. \A key \in Keys : acquisitions'[key] # Absent /\ acquisitions[key] # Absent =>
          acquisitions'[key].generation = acquisitions[key].generation
    BY <1>3, <1>5
  <2>2. \A d \in Callers : \/ call'[d].since = {}
                           \/ /\ call'[d].since = call[d].since
                              /\ call'[d].done = call[d].done
                              /\ call'[d].keys = call[d].keys
    BY <1>4 DEF Quiet
  <2> QED  BY <1>1, <1>2, <1>4, <1>5, <2>1, <2>2, SharedGoesOn
<1>9. TypeOK' /\ NoRetiredRecords' /\ BackoffCoversDeadline'
  BY <1>1, <1>2, <1>4, <1>5, RestStays
<1> QED  BY <1>5, <1>6, <1>7, <1>8, <1>9 DEF TimeseriesInv

\* A request under way that is not late: the runtime has not been stopped.
LEMMA AnswerInTime ==
    ASSUME TimeseriesInv, NEW c \in Callers, call[c].pc = "fetching", ~Late(c)
    PROVE  ~stopped
<1>1. call[c].gen \in Nat /\ generation \in Nat /\ RequestOfGeneration(c)
  BY DEF TimeseriesInv, TypeOK, CallStates, RequestsOfGeneration
<1> QED  BY <1>1 DEF RequestOfGeneration, Late

LEMMA AnswerKeeps ==
    ASSUME TimeseriesInv, NEW c \in Callers, Answer(c)
    PROVE  TimeseriesInv'
<1> DEFINE k == Turn(c)
           e == Endpoint(k)
           record == [stamp |-> now, serials |-> Filter(Serials)]
           filled == [cache EXCEPT ![k] = record]
           Kept == ~Late(c) /\ cache' = PruneDays(filled)
                   /\ backoff' = [backoff EXCEPT ![e] = 0]
                   /\ deadline' = [deadline EXCEPT ![e] = 0]
<1>1. /\ call[c].pc = "fetching" /\ Complete(c, k)
      /\ Kept \/ UNCHANGED <<cache, backoff, deadline>>
      /\ UNCHANGED <<now, stopped, generation, active>>
  BY DEF Answer
<1>2. /\ TypeOK /\ CallsShaped /\ RecordsCounted /\ RecordsLocked
      /\ generation \in Nat /\ now \in Nat /\ NoRetiredRecords /\ BackoffCoversDeadline
  BY DEF TimeseriesInv, TypeOK
<1>3. /\ acquisitions' \in [Keys -> {Absent} \union Acquisitions]
      /\ call' \in [Callers -> CallStates]
      /\ CallsShaped' /\ RecordsCounted' /\ RecordsLocked'
      /\ RequestsOfGeneration' /\ SharedAreLast'
  BY <1>1, CompleteStep
<1>4. TypeOK' /\ NoRetiredRecords' /\ BackoffCoversDeadline'
  <2>1. CASE UNCHANGED <<cache, backoff, deadline>>
    BY <1>1, <1>2, <1>3, <2>1, RestStays
  <2>2. CASE Kept
    <3>1. k \in Keys /\ e \in Endpoints
      BY <1>1, <1>2, FetcherLocks, KeyEndpoint
    <3>2. ~stopped
      BY <1>1, <2>2, AnswerInTime
    <3>3. Filter(Serials) \subseteq Serials
          /\ (active # Absent => Filter(Serials) \subseteq active)
      BY DEF Filter
    <3>4. record \in CacheRecords /\ (active # Absent => record.serials \subseteq active)
      BY <1>2, <3>3 DEF CacheRecords
    <3> HIDE DEF record
    <3>5. cache \in [Keys -> {Absent} \union CacheRecords]
      BY <1>2 DEF TypeOK, CacheRecords
    <3>6. filled \in [Keys -> {Absent} \union CacheRecords]
          /\ filled[k] = record /\ \A key \in Keys \ {k} : filled[key] = cache[key]
      BY <3>1, <3>4, <3>5
    <3> HIDE DEF filled
    <3>7. cache' \in [Keys -> {Absent} \union CacheRecords]
      BY <2>2, <3>6, PruneTyped
    <3>8. /\ backoff' \in [Endpoints -> Nat] /\ deadline' \in [Endpoints -> Nat]
          /\ \A f \in Endpoints : deadline'[f] <= backoff'[f]
      BY <1>2, <2>2, <3>1 DEF TypeOK, BackoffCoversDeadline
    <3>9. NoRetiredRecords'
      <4> SUFFICES ASSUME NEW key \in Keys, cache'[key] # Absent
                   PROVE  ~stopped /\ (active # Absent => cache'[key].serials \subseteq active)
        BY <1>1 DEF NoRetiredRecords, Cached
      <4>1. cache'[key] = filled[key]
        BY <2>2, PruneKeepsOrDrops
      <4>2. CASE key = k
        BY <3>2, <3>4, <3>6, <4>1, <4>2
      <4>3. CASE key # k
        BY <1>2, <3>2, <3>6, <4>1, <4>3 DEF NoRetiredRecords, Cached
      <4> QED  BY <4>2, <4>3
    <3> QED  BY <1>1, <1>2, <1>3, <3>7, <3>8, <3>9
             DEF TypeOK, CacheRecords, BackoffCoversDeadline
  <2> QED  BY <1>1, <2>1, <2>2
<1> QED  BY <1>3, <1>4 DEF TimeseriesInv

LEMMA FailKeeps ==
    ASSUME TimeseriesInv, NEW c \in Callers, NEW delay \in Delays, Fail(c, delay)
    PROVE  TimeseriesInv'
<1> DEFINE k == Turn(c)
           e == Endpoint(k)
<1>1. /\ call[c].pc = "fetching" /\ Complete(c, k)
      /\ IF Late(c) THEN UNCHANGED <<backoff, deadline>>
         ELSE /\ backoff' = [backoff EXCEPT ![e] = Max({now + delay, backoff[e]})]
              /\ deadline' = [deadline EXCEPT ![e] = Max({now + delay, deadline[e]})]
      /\ UNCHANGED <<now, stopped, generation, active, cache>>
  <2>1. k \in Keys /\ e \in Endpoints
    BY FetcherLocks, KeyEndpoint DEF TimeseriesInv, Fail
  <2> QED  BY <2>1 DEF Fail, BackoffAfter, TimeseriesInv, TypeOK
<1>2. /\ TypeOK /\ CallsShaped /\ RecordsCounted /\ RecordsLocked
      /\ generation \in Nat /\ now \in Nat /\ NoRetiredRecords /\ BackoffCoversDeadline
      /\ delay \in Nat
  BY ConstantsAssumption DEF TimeseriesInv, TypeOK
<1>3. /\ acquisitions' \in [Keys -> {Absent} \union Acquisitions]
      /\ call' \in [Callers -> CallStates]
      /\ CallsShaped' /\ RecordsCounted' /\ RecordsLocked'
      /\ RequestsOfGeneration' /\ SharedAreLast'
  BY <1>1, CompleteStep
<1>4. TypeOK' /\ NoRetiredRecords' /\ BackoffCoversDeadline'
  <2>1. CASE UNCHANGED <<backoff, deadline>>
    BY <1>1, <1>2, <1>3, <2>1, RestStays
  <2>2. CASE ~Late(c)
    <3>1. k \in Keys /\ e \in Endpoints
      BY <1>1, <1>2, FetcherLocks, KeyEndpoint
    <3>2. backoff[e] \in Nat /\ deadline[e] \in Nat /\ deadline[e] <= backoff[e]
          /\ now + delay \in Nat
      BY <1>2, <3>1 DEF TypeOK, BackoffCoversDeadline
    <3> DEFINE later == Max({now + delay, backoff[e]})
               latest == Max({now + delay, deadline[e]})
    <3>3. /\ later \in Nat /\ later >= now + delay /\ later >= backoff[e]
          /\ latest \in Nat
      BY <3>2, MaxOfTwo
    <3>4. latest <= later
      <4>1. latest = now + delay \/ latest = deadline[e]
        BY <3>2, MaxOfTwo
      <4> QED  BY <3>2, <3>3, <4>1
    <3>5. backoff' = [backoff EXCEPT ![e] = later]
          /\ deadline' = [deadline EXCEPT ![e] = latest]
      BY <1>1, <2>2
    <3> HIDE DEF later, latest, e, k
    <3>6. /\ backoff' \in [Endpoints -> Nat] /\ deadline' \in [Endpoints -> Nat]
          /\ \A f \in Endpoints : deadline'[f] <= backoff'[f]
      BY <1>2, <3>1, <3>3, <3>4, <3>5 DEF TypeOK, BackoffCoversDeadline
    <3>7. NoRetiredRecords'
      BY <1>1, <1>2 DEF NoRetiredRecords, Cached
    <3> QED  BY <1>1, <1>2, <1>3, <3>6, <3>7 DEF TypeOK, BackoffCoversDeadline
  <2> QED  BY <1>1, <2>1, <2>2
<1> QED  BY <1>3, <1>4 DEF TimeseriesInv

LEMMA PruneKeeps ==
    ASSUME TimeseriesInv, NEW serials \in ActiveSets, Prune(serials)
    PROVE  TimeseriesInv'
<1> DEFINE left == [key \in Keys |->
                      IF cache[key] = Absent THEN Absent
                      ELSE [cache[key] EXCEPT !.serials = @ \intersect serials]]
<1>1. /\ IF active # Absent THEN NextGeneration ELSE UNCHANGED <<generation, call>>
      /\ active' = serials /\ cache' = PruneDays(left)
      /\ UNCHANGED <<now, stopped, backoff, acquisitions, deadline>>
  BY DEF Prune
<1>2. /\ TypeOK /\ generation \in Nat /\ NoRetiredRecords /\ BackoffCoversDeadline
  BY DEF TimeseriesInv, TypeOK
<1>3. /\ generation' \in Nat
      /\ call' \in [Callers -> CallStates]
      /\ CallsShaped' /\ RecordsCounted' /\ RecordsLocked'
      /\ RequestsOfGeneration' /\ SharedAreLast'
  <2>1. CASE active # Absent
    BY <1>1, <2>1, RenewStep
  <2>2. CASE active = Absent
    <3>1. UNCHANGED <<generation, call, stopped, acquisitions>>
      BY <1>1, <2>2
    <3>2. RecordsCounted' /\ RecordsLocked'
      BY <1>2, <3>1, SameCounts DEF TimeseriesInv
    <3>3. CallsShaped'
      BY <3>1 DEF TimeseriesInv, CallsShaped, CallShape
    <3>4. RequestsOfGeneration'
      BY <3>1 DEF TimeseriesInv, RequestsOfGeneration, RequestOfGeneration
    <3>5. SharedAreLast'
      BY <3>1 DEF TimeseriesInv, SharedAreLast, SharedIsLast
    <3> QED  BY <1>2, <3>1, <3>2, <3>3, <3>4, <3>5 DEF TypeOK
  <2> QED  BY <2>1, <2>2
<1>4. ASSUME NEW key \in Keys
      PROVE  /\ left[key] \in {Absent} \union CacheRecords
             /\ left[key] # Absent =>
                  /\ cache[key] # Absent
                  /\ left[key].serials \subseteq serials
  <2>1. CASE cache[key] = Absent
    BY <2>1
  <2>2. CASE cache[key] # Absent
    <3> DEFINE r == cache[key]
               q == [r EXCEPT !.serials = r.serials \intersect serials]
    <3>1. r \in CacheRecords /\ left[key] = q
      BY <1>2, <2>2 DEF TypeOK, CacheRecords
    <3>2. r # Absent
      BY <2>2
    <3> HIDE DEF r
    <3>3. q \in CacheRecords /\ q.serials \subseteq serials
      BY <3>1 DEF CacheRecords
    <3> HIDE DEF q, left
    <3> QED  BY <2>2, <3>1, <3>3
  <2> QED  BY <2>1, <2>2
<1>5. left \in [Keys -> {Absent} \union CacheRecords]
  <2>1. left = [key \in Keys |-> left[key]]
    OBVIOUS
  <2> HIDE DEF left
  <2> QED  BY <1>4, <2>1
<1> HIDE DEF left
<1>6. cache' \in [Keys -> {Absent} \union CacheRecords]
  BY <1>1, <1>5, PruneTyped
<1>7. NoRetiredRecords'
  <2> SUFFICES ASSUME NEW key \in Keys, cache'[key] # Absent
               PROVE  ~stopped /\ cache'[key].serials \subseteq serials
    BY <1>1 DEF NoRetiredRecords, Cached
  <2>1. cache'[key] = left[key]
    BY <1>1, PruneKeepsOrDrops
  <2> QED  BY <1>2, <1>4, <2>1 DEF NoRetiredRecords, Cached
<1>8. TypeOK' /\ BackoffCoversDeadline'
  BY <1>1, <1>2, <1>3, <1>6 DEF TypeOK, CacheRecords, BackoffCoversDeadline
<1> QED  BY <1>3, <1>7, <1>8 DEF TimeseriesInv

LEMMA StopKeeps ==
    ASSUME TimeseriesInv, Stop
    PROVE  TimeseriesInv'
<1>1. /\ NextGeneration /\ stopped' = TRUE /\ cache' = [key \in Keys |-> Absent]
      /\ UNCHANGED <<now, active, backoff, acquisitions, deadline>>
  BY DEF Stop
<1>2. TypeOK /\ BackoffCoversDeadline
  BY DEF TimeseriesInv
<1>3. /\ generation' \in Nat
      /\ call' \in [Callers -> CallStates]
      /\ CallsShaped' /\ RecordsCounted' /\ RecordsLocked'
      /\ RequestsOfGeneration' /\ SharedAreLast'
  BY <1>1, RenewStep
<1>4. TypeOK' /\ NoRetiredRecords' /\ BackoffCoversDeadline'
  BY <1>1, <1>2, <1>3 DEF TypeOK, NoRetiredRecords, Cached, BackoffCoversDeadline
<1> QED  BY <1>3, <1>4 DEF TimeseriesInv

\* Only the clock may move.
LEMMA QuietKeeps ==
    ASSUME TimeseriesInv, now' \in Nat,
           UNCHANGED <<stopped, generation, active, cache, backoff, acquisitions, call, deadline>>
    PROVE  TimeseriesInv'
<1>1. TypeOK /\ RecordsCounted /\ RecordsLocked
  BY DEF TimeseriesInv
<1>2. RecordsCounted' /\ RecordsLocked'
  BY <1>1, SameCounts
<1>3. CallsShaped'
  BY DEF TimeseriesInv, CallsShaped, CallShape
<1>4. RequestsOfGeneration'
  BY DEF TimeseriesInv, RequestsOfGeneration, RequestOfGeneration
<1>5. SharedAreLast'
  BY DEF TimeseriesInv, SharedAreLast, SharedIsLast
<1>6. TypeOK' /\ NoRetiredRecords' /\ BackoffCoversDeadline'
  BY <1>1, RestStays DEF TypeOK
<1> QED  BY <1>2, <1>3, <1>4, <1>5, <1>6 DEF TimeseriesInv

LEMMA NextInv == TimeseriesInv /\ [Next]_vars => TimeseriesInv'
<1> SUFFICES ASSUME TimeseriesInv, [Next]_vars PROVE TimeseriesInv'
  OBVIOUS
<1>1. ASSUME NEW c \in Callers, NEW asked \in Calls, Refresh(c, asked[1], asked[2])
      PROVE  TimeseriesInv'
  BY <1>1, RefreshKeeps
<1>2. ASSUME NEW c \in Callers, Skip(c) PROVE TimeseriesInv'
  BY <1>2, SkipKeeps
<1>3. ASSUME NEW c \in Callers, Request(c) PROVE TimeseriesInv'
  BY <1>3, RequestKeeps
<1>4. ASSUME NEW c \in Callers, Answer(c) PROVE TimeseriesInv'
  BY <1>4, AnswerKeeps
<1>5. ASSUME NEW c \in Callers, Cancel(c) PROVE TimeseriesInv'
  BY <1>5, CancelKeeps
<1>6. ASSUME NEW c \in Callers, NEW delay \in Delays, Fail(c, delay) PROVE TimeseriesInv'
  BY <1>6, FailKeeps
<1>7. ASSUME NEW serials \in ActiveSets, Prune(serials) PROVE TimeseriesInv'
  BY <1>7, PruneKeeps
<1>8. CASE Stop
  BY <1>8, StopKeeps
<1>9. CASE Tick
  BY <1>9, QuietKeeps DEF Tick, TimeseriesInv, TypeOK
<1>10. CASE UNCHANGED vars
  BY <1>10, QuietKeeps DEF vars, TimeseriesInv, TypeOK
<1> QED  BY <1>1, <1>2, <1>3, <1>4, <1>5, <1>6, <1>7, <1>8, <1>9, <1>10 DEF Next

\* The inductive invariant of the shared acquisition.
THEOREM TimeseriesInvariant == Spec => []TimeseriesInv
<1>1. Init => TimeseriesInv
  BY InitInv
<1>2. TimeseriesInv /\ [Next]_vars => TimeseriesInv'
  BY NextInv
<1> QED  BY <1>1, <1>2, PTL DEF Spec

\* Every variable of the acquisition runtime keeps its type.
THEOREM Typing == Spec => []TypeOK
<1>1. TimeseriesInv => TypeOK
  BY DEF TimeseriesInv
<1> QED  BY <1>1, TimeseriesInvariant, PTL

\* However calls overlap, fail, return or are cancelled, an acquisition record
\* counts the calls that use it, and its lock is held by the one whose request is
\* under way.
THEOREM RecordsAreCounted == Spec => []RecordsCountCallers
<1>1. TimeseriesInv => RecordsCountCallers
  BY CountsAndLocks DEF TimeseriesInv
<1> QED  BY <1>1, TimeseriesInvariant, PTL

\* No answer brings back a charger the site has retired, or refills the cache of a
\* stopped runtime.
THEOREM RetiredStayAway == Spec => []NoRetiredRecords
<1>1. TimeseriesInv => NoRetiredRecords
  BY DEF TimeseriesInv
<1> QED  BY <1>1, TimeseriesInvariant, PTL

-----------------------------------------------------------------------------
(* The requests *)

LEMMA AdvanceQueues ==
    ASSUME NEW c \in Callers, NEW a, NEW cl, Advance(c, a, cl), DOMAIN cl = Callers,
           \A d \in Callers : cl[d].pc = call[d].pc
    PROVE  \A d \in Callers : call'[d].pc = "fetching" => call[d].pc = "fetching"
<1>1. CASE call' = [cl EXCEPT ![c] = Quiet]
  BY <1>1 DEF Quiet
<1> DEFINE q == [cl[c] EXCEPT !.pc = "queued", !.todo = @ \ {Turn(c)}]
<1>2. CASE call' = [cl EXCEPT ![c] = q]
  <2>1. "pc" \in DOMAIN cl[c] => q.pc # "fetching"
    OBVIOUS
  <2>2. "pc" \notin DOMAIN cl[c] => q = [cl[c] EXCEPT !.todo = @ \ {Turn(c)}]
    OBVIOUS
  <2> QED  BY <1>2, <2>1, <2>2
<1> QED  BY <1>1, <1>2 DEF Advance

LEMMA CompleteQueues ==
    ASSUME TypeOK, NEW c \in Callers, NEW key, Complete(c, key)
    PROVE  \A d \in Callers : call'[d].pc = "fetching" => call[d].pc = "fetching"
<1>1. CASE Late(c)
  <2>1. Advance(c, Released(key), call)
    BY <1>1 DEF Complete
  <2> QED  BY <2>1, AdvanceQueues DEF TypeOK
<1>2. CASE ~Late(c)
  <2> DEFINE a == [Released(key) EXCEPT ![key].generation = generation]
             marked(d) == [call[d] EXCEPT !.done = @ \union {key}, !.since = @ \union {key}]
             cl == [d \in Callers |-> IF key \in call[d].keys THEN marked(d) ELSE call[d]]
  <2>1. Advance(c, a, cl)
    BY <1>2 DEF Complete
  <2>2. \A d \in Callers : marked(d).pc = call[d].pc
    BY DEF TypeOK, CallStates
  <2> HIDE DEF marked, a
  <2>3. DOMAIN cl = Callers /\ \A d \in Callers : cl[d].pc = call[d].pc
    BY <2>2
  <2> HIDE DEF cl
  <2> QED  BY <2>1, <2>3, AdvanceQueues
<1> QED  BY <1>1, <1>2

\* A step that brings a call from the queue to its request is that call's Request.
LEMMA OnlyRequestFetches ==
    ASSUME TimeseriesInv, [Next]_vars, NEW c \in Callers,
           call[c].pc = "queued", call'[c].pc = "fetching"
    PROVE  Request(c)
<1>1. TypeOK /\ call \in [Callers -> CallStates]
  BY DEF TimeseriesInv, TypeOK
<1>2. ASSUME NEW d \in Callers, NEW asked \in Calls, Refresh(d, asked[1], asked[2])
      PROVE  FALSE
  <2> DEFINE due == {key \in {Lifetime, <<"daily", asked[1]>>} : Due(key, asked[2])}
             q == [Quiet EXCEPT !.pc = "queued", !.force = asked[2], !.keys = due,
                                !.todo = due]
  <2>1. call' = [call EXCEPT ![d] = q] /\ call[d].pc = "idle"
    BY <1>2 DEF Refresh
  <2> HIDE DEF q
  <2>2. c # d
    BY <2>1
  <2> QED  BY <1>1, <2>1, <2>2
<1>3. ASSUME NEW d \in Callers, Skip(d) PROVE FALSE
  BY <1>1, <1>3, AdvanceQueues DEF Skip
<1>4. ASSUME NEW d \in Callers, Answer(d) PROVE FALSE
  BY <1>1, <1>4, CompleteQueues DEF Answer
<1>5. ASSUME NEW d \in Callers, NEW delay \in Delays, Fail(d, delay) PROVE FALSE
  BY <1>1, <1>5, CompleteQueues DEF Fail
<1>6. ASSUME NEW d \in Callers, Cancel(d) PROVE FALSE
  <2>1. call' = [call EXCEPT ![d] = Quiet]
    BY <1>6 DEF Cancel
  <2> QED  BY <1>1, <2>1 DEF Quiet
<1>7. ASSUME NEW serials \in ActiveSets, Prune(serials) PROVE FALSE
  <2>1. call'[c] = call[c] \/ call'[c] = [call[c] EXCEPT !.since = {}]
    BY <1>7 DEF Prune, NextGeneration
  <2>2. [call[c] EXCEPT !.since = {}].pc = call[c].pc
    OBVIOUS
  <2> QED  BY <2>1, <2>2
<1>8. CASE Stop
  <2>1. call'[c] = [call[c] EXCEPT !.since = {}]
    BY <1>8 DEF Stop, NextGeneration
  <2>2. [call[c] EXCEPT !.since = {}].pc = call[c].pc
    OBVIOUS
  <2> QED  BY <2>1, <2>2
<1>9. CASE UNCHANGED call
  BY <1>9
<1>10. ASSUME NEW d \in Callers, Request(d) PROVE Request(c)
  <2> DEFINE q == [call[d] EXCEPT !.pc = "fetching", !.gen = generation]
  <2>1. call' = [call EXCEPT ![d] = q]
    BY <1>1, <1>10 DEF Request
  <2> HIDE DEF q
  <2>2. d = c
    BY <1>1, <2>1
  <2> QED  BY <1>10, <2>2
<1> QED  BY <1>2, <1>3, <1>4, <1>5, <1>6, <1>7, <1>8, <1>9, <1>10 DEF Next, Tick, vars

\* A caller that has been waiting does not repeat an attempt of this generation
\* that ended while it waited.
THEOREM AttemptsAreShared == Spec => AttemptShared
<1> DEFINE Fetches(c) == call[c].pc = "queued" /\ call'[c].pc = "fetching"
<1>1. ASSUME TimeseriesInv, [Next]_vars, NEW c \in Callers, Fetches(c)
      PROVE  Turn(c) \notin call[c].since
  <2>1. Request(c)
    BY <1>1, OnlyRequestFetches
  <2>2. ~Shared(c, Turn(c)) /\ SharedIsLast(c)
    BY <1>1, <2>1 DEF Request, TimeseriesInv, SharedAreLast
  <2> QED  BY <2>2 DEF Shared, SharedIsLast
<1>2. TimeseriesInv /\ [Next]_vars
        => [\A c \in Callers : Fetches(c) => Turn(c) \notin call[c].since]_vars
  BY <1>1
<1> QED  BY <1>2, TimeseriesInvariant, PTL DEF Spec, AttemptShared

\* No request is made before a deadline that a failure set: a later failure does
\* not shorten it.
THEOREM DeadlinesAreHonoured == Spec => DeadlineHonoured
<1> DEFINE Fetches(c) == call[c].pc = "queued" /\ call'[c].pc = "fetching"
<1>1. ASSUME TimeseriesInv, [Next]_vars, NEW c \in Callers, Fetches(c)
      PROVE  now >= deadline[Endpoint(Turn(c))]
  <2>1. Request(c)
    BY <1>1, OnlyRequestFetches
  <2>2. ~(now < backoff[Endpoint(Turn(c))])
    BY <2>1 DEF Request, Due, BackoffActive
  <2>3. call[c].todo # {} /\ call[c].todo \subseteq call[c].keys /\ call[c] \in CallStates
    BY <1>1 DEF TimeseriesInv, CallsShaped, CallShape, TypeOK
  <2>4. Endpoint(Turn(c)) \in Endpoints
    BY <2>3, TurnLeft, KeyEndpoint DEF CallStates
  <2>5. /\ deadline[Endpoint(Turn(c))] <= backoff[Endpoint(Turn(c))]
        /\ now \in Nat /\ deadline[Endpoint(Turn(c))] \in Nat
        /\ backoff[Endpoint(Turn(c))] \in Nat
    BY <1>1, <2>4 DEF TimeseriesInv, BackoffCoversDeadline, TypeOK
  <2> QED  BY <2>2, <2>5
<1>2. TimeseriesInv /\ [Next]_vars
        => [\A c \in Callers : Fetches(c) => now >= deadline[Endpoint(Turn(c))]]_vars
  BY <1>1
<1> QED  BY <1>2, TimeseriesInvariant, PTL DEF Spec, DeadlineHonoured

-----------------------------------------------------------------------------
(* The days of the cache *)

Later(S, day) == {d \in S : d > day}

\* Keeping the days that have fewer than n later ones keeps n later ones than each day
\* that it drops.
LEMMA NewestKept ==
    ASSUME NEW S \in SUBSET Nat, IsFiniteSet(S), NEW n \in Nat,
           NEW day \in S, Cardinality(Later(S, day)) >= n
    PROVE  Cardinality(Later({d \in S : ~(Cardinality(Later(S, d)) >= n)}, day)) >= n
<1> DEFINE dropped == {d \in S : d >= day /\ Cardinality(Later(S, d)) >= n}
           kept == {d \in S : ~(Cardinality(Later(S, d)) >= n)}
           laters == {Later(S, d) : d \in dropped}
<1>1. PICK last \in dropped : \A d \in dropped :
          ~(<<Later(S, d), Later(S, last)>> \in StrictSubsetOrdering(S))
  <2>1. day \in dropped
    OBVIOUS
  <2>2. laters \subseteq FiniteSubsetsOf(S)
    BY FS_Subset DEF FiniteSubsetsOf, Later
  <2>3. laters # {}
    BY <2>1
  <2>4. \E x \in laters : \A y \in laters : ~(<<y, x>> \in StrictSubsetOrdering(S))
    <3> HIDE DEF laters
    <3> QED  BY <2>2, <2>3, FS_StrictSubsetOrderingWellFounded, WFMin
  <2> QED  BY <2>4
<1>2. ASSUME NEW d \in Later(S, last) PROVE d \in Later(kept, day)
  <2>1. d \in S /\ last \in S /\ d > last /\ last >= day /\ d \in Nat /\ last \in Nat /\ day \in Nat
    BY DEF Later
  <2>2. Later(S, d) \subseteq Later(S, last) /\ d \notin Later(S, d)
    <3>1. ASSUME NEW e \in Later(S, d) PROVE e \in Later(S, last)
      <4>1. e \in Nat /\ e \in S /\ e > d
        BY DEF Later
      <4> QED  BY <2>1, <4>1 DEF Later
    <3>2. d \notin Later(S, d)
      BY <2>1 DEF Later
    <3> QED  BY <3>1, <3>2
  <2>3. <<Later(S, d), Later(S, last)>> \in StrictSubsetOrdering(S)
    BY <1>2, <2>2 DEF StrictSubsetOrdering, Later
  <2>4. d \notin dropped
    BY <1>1, <2>3
  <2> QED  BY <2>1, <2>4 DEF Later
<1>3. IsFiniteSet(Later(kept, day))
  BY FS_Subset DEF Later
<1>4. Cardinality(Later(S, last)) <= Cardinality(Later(kept, day))
  BY <1>2, <1>3, FS_Subset
<1>5. Cardinality(Later(S, last)) >= n /\ Cardinality(Later(S, last)) \in Nat
      /\ Cardinality(Later(kept, day)) \in Nat
  <2>1. IsFiniteSet(Later(S, last))
    BY FS_Subset DEF Later
  <2> QED  BY <1>3, <2>1, FS_CardinalityType
<1> QED  BY <1>4, <1>5

\* A day that is cached.
LEMMA CachedDay ==
    ASSUME NEW c, NEW day
    PROVE  day \in CachedDays(c) <=> day \in Days /\ c[<<"daily", day>>] # Absent
BY DEF CachedDays, Cached, Keys, Lifetime

\* What pruning leaves of the days.
LEMMA PrunedDays ==
    ASSUME NEW c
    PROVE  CachedDays(PruneDays(c))
             = {d \in CachedDays(c) : ~(Cardinality(Later(CachedDays(c), d)) >= KeepDays)}
<1>1. ASSUME NEW d \in Days
      PROVE  PruneDays(c)[<<"daily", d>>]
               = IF Cardinality(Later(CachedDays(c), d)) >= KeepDays THEN Absent
                 ELSE c[<<"daily", d>>]
  <2>1. <<"daily", d>> \in Keys /\ Endpoint(<<"daily", d>>) = "daily"
    BY DEF Keys, Endpoint
  <2> QED  BY <2>1 DEF PruneDays, Later
<1>2. ASSUME NEW d
      PROVE  d \in CachedDays(PruneDays(c)) <=>
               d \in CachedDays(c) /\ ~(Cardinality(Later(CachedDays(c), d)) >= KeepDays)
  BY <1>1, CachedDay
<1> QED  BY <1>2

\* The days leave the cache for newer ones only.
LEMMA PruneKeepsNewer ==
    ASSUME NEW c, IsFiniteSet(CachedDays(c)), NEW day \in CachedDays(c),
           day \notin CachedDays(PruneDays(c))
    PROVE  Cardinality(Later(CachedDays(PruneDays(c)), day)) >= KeepDays
<1>1. CachedDays(c) \in SUBSET Nat
  BY CachedDay, ConstantsAssumption
<1>2. Cardinality(Later(CachedDays(c), day)) >= KeepDays
  BY PrunedDays
<1>3. KeepDays \in Nat
  BY ConstantsAssumption
<1> QED  BY <1>1, <1>2, <1>3, PrunedDays, NewestKept

\* What a step makes of the cache: nothing, or it prunes a cache with the days there
\* were and perhaps another one, or it stops the runtime.
LEMMA CacheStep ==
    ASSUME TypeOK, [Next]_vars
    PROVE  \/ cache' = cache
           \/ stopped' /\ CachedDays(cache') = {}
           \/ \E c, new : /\ cache' = PruneDays(c)
                         /\ CachedDays(c) = CachedDays(cache) \union new
                         /\ IsFiniteSet(new)
<1>1. ASSUME NEW a \in Callers, Answer(a), cache' # cache
      PROVE  \E c, new : /\ cache' = PruneDays(c)
                         /\ CachedDays(c) = CachedDays(cache) \union new
                         /\ IsFiniteSet(new)
  <2> DEFINE key == Turn(a)
             record == [stamp |-> now, serials |-> Filter(Serials)]
             c == [cache EXCEPT ![key] = record]
             new == CachedDays(c) \ CachedDays(cache)
  <2>1. cache' = PruneDays(c)
    BY <1>1 DEF Answer
  <2>2. record # Absent
    <3>1. record \in CacheRecords
      BY DEF TypeOK, CacheRecords, Filter
    <3> QED  BY <3>1, ConstantsAssumption
  <2> HIDE DEF record
  <2>3. \A k \in Keys : c[k] = IF k = key THEN record ELSE cache[k]
    BY DEF TypeOK
  <2>4. CachedDays(cache) \subseteq CachedDays(c)
    <3> HIDE DEF c
    <3>1. ASSUME NEW d \in CachedDays(cache) PROVE d \in CachedDays(c)
      <4>1. d \in Days /\ cache[<<"daily", d>>] # Absent /\ <<"daily", d>> \in Keys
        BY CachedDay DEF Keys
      <4>2. c[<<"daily", d>>] # Absent
        BY <2>2, <2>3, <4>1
      <4> QED  BY <4>1, <4>2, CachedDay
    <3> QED  BY <3>1
  <2>5. new \subseteq {key[2]}
    <3>1. ASSUME NEW d \in new PROVE <<"daily", d>> = key
      <4> HIDE DEF c, key
      <4>1. d \in Days /\ c[<<"daily", d>>] # Absent /\ <<"daily", d>> \in Keys
            /\ cache[<<"daily", d>>] = Absent
        BY CachedDay DEF Keys
      <4> QED  BY <2>3, <4>1
    <3> HIDE DEF new, key
    <3> QED  BY <3>1
  <2>6. IsFiniteSet(new)
    <3> HIDE DEF new, key
    <3>1. IsFiniteSet({key[2]})
      BY FS_Singleton
    <3> QED  BY <2>5, <3>1, FS_Subset
  <2>7. CachedDays(c) = CachedDays(cache) \union new
    BY <2>4
  <2> QED  BY <2>1, <2>6, <2>7
<1>2. ASSUME NEW serials \in ActiveSets, Prune(serials)
      PROVE  \E c, new : /\ cache' = PruneDays(c)
                         /\ CachedDays(c) = CachedDays(cache) \union new
                         /\ IsFiniteSet(new)
  <2> DEFINE kept(key) == [cache[key] EXCEPT !.serials = @ \intersect serials]
             c == [key \in Keys |-> IF cache[key] = Absent THEN Absent ELSE kept(key)]
  <2>1. cache' = PruneDays(c)
    BY <1>2 DEF Prune
  <2>2. ASSUME NEW key \in Keys PROVE c[key] # Absent <=> cache[key] # Absent
    <3>1. CASE cache[key] # Absent
      <4>1. cache[key] \in CacheRecords
        BY <3>1 DEF TypeOK
      <4>2. kept(key) \in CacheRecords
        BY <4>1 DEF CacheRecords
      <4> QED  BY <3>1, <4>2, ConstantsAssumption
    <3>2. CASE cache[key] = Absent
      BY <3>2
    <3> QED  BY <3>1, <3>2
  <2>3. CachedDays(c) = CachedDays(cache) \union {}
    <3> HIDE DEF c
    <3>1. ASSUME NEW d PROVE d \in CachedDays(c) <=> d \in CachedDays(cache)
      <4>1. d \in Days => <<"daily", d>> \in Keys
        BY DEF Keys
      <4> QED  BY <2>2, <4>1, CachedDay
    <3> QED  BY <3>1
  <2> HIDE DEF c
  <2> QED  BY <2>1, <2>3, FS_EmptySet
<1>3. CASE Stop
  <2>1. stopped' /\ cache' = [key \in Keys |-> Absent]
    BY <1>3 DEF Stop
  <2>2. \A day : day \notin CachedDays(cache')
    <3>1. \A day \in Days : cache'[<<"daily", day>>] = Absent
      BY <2>1 DEF Keys
    <3> QED  BY <3>1, CachedDay
  <2> QED  BY <2>1, <2>2
<1>4. CASE cache' = cache
  BY <1>4
<1> QED
  BY <1>1, <1>2, <1>3, <1>4
  DEF Next, Refresh, Skip, Request, Fail, Cancel, Tick, vars

\* The days of the cache are finitely many, whatever the dates are.
DaysFinite == IsFiniteSet(CachedDays(cache))

\* No step caches more than one day more.
LEMMA DaysStayFinite == TypeOK /\ DaysFinite /\ [Next]_vars => DaysFinite'
<1> SUFFICES ASSUME TypeOK, DaysFinite, [Next]_vars PROVE DaysFinite'
  OBVIOUS
<1>1. CASE cache' = cache
  BY <1>1 DEF DaysFinite, CachedDays, Cached
<1>2. CASE CachedDays(cache') = {}
  BY <1>2, FS_EmptySet DEF DaysFinite, CachedDays, Cached
<1>3. ASSUME NEW c, NEW new, cache' = PruneDays(c),
             CachedDays(c) = CachedDays(cache) \union new, IsFiniteSet(new)
      PROVE  DaysFinite'
  <2>1. IsFiniteSet(CachedDays(c))
    BY <1>3, FS_Union DEF DaysFinite
  <2>2. CachedDays(cache') \subseteq CachedDays(c)
    BY <1>3, PrunedDays
  <2>3. IsFiniteSet(CachedDays(cache'))
    BY <2>1, <2>2, FS_Subset
  <2> QED  BY <2>3 DEF DaysFinite, CachedDays, Cached
<1> QED  BY <1>1, <1>2, <1>3, CacheStep

\* What NewerDaysKept says of a step.
DaysLeaveForNewer ==
    ~stopped' =>
        \A day \in CachedDays(cache) \ CachedDays(cache') :
            Cardinality({d \in CachedDays(cache') : d > day}) >= KeepDays

\* Every step of a runtime that is not stopped keeps the days for which there are not
\* enough newer ones.
LEMMA StepKeepsNewer == TypeOK /\ DaysFinite /\ [Next]_vars => DaysLeaveForNewer
<1> SUFFICES ASSUME TypeOK, DaysFinite, [Next]_vars, ~stopped',
                    NEW day \in CachedDays(cache) \ CachedDays(cache')
             PROVE  Cardinality(Later(CachedDays(cache'), day)) >= KeepDays
  BY DEF DaysLeaveForNewer, Later
<1>1. PICK c, new : /\ cache' = PruneDays(c)
                    /\ CachedDays(c) = CachedDays(cache) \union new
                    /\ IsFiniteSet(new)
  BY CacheStep
<1>2. IsFiniteSet(CachedDays(c))
  BY <1>1, FS_Union DEF DaysFinite
<1> QED  BY <1>1, <1>2, PruneKeepsNewer

\* A day leaves the cache of a runtime that goes on only for KeepDays newer ones, for
\* any dates and in whichever order their answers come.
THEOREM NewerDaysAreKept == Spec => NewerDaysKept
<1>1. Init => DaysFinite
  <2>1. Init => \A day \in Days : cache[<<"daily", day>>] = Absent
    BY DEF Init, Keys
  <2>2. Init => CachedDays(cache) = {}
    BY <2>1, CachedDay
  <2> QED  BY <2>2, FS_EmptySet DEF DaysFinite
<1>2. TypeOK /\ DaysFinite /\ [Next]_vars => DaysFinite'
  BY DaysStayFinite
<1>3. TypeOK /\ DaysFinite /\ [Next]_vars => [DaysLeaveForNewer]_vars
  BY StepKeepsNewer
<1>4. Spec => []DaysFinite
  BY <1>1, <1>2, Typing, PTL DEF Spec
<1>5. [][DaysLeaveForNewer]_vars <=> NewerDaysKept
  BY PTL DEF DaysLeaveForNewer, NewerDaysKept
<1> QED  BY <1>3, <1>4, <1>5, Typing, PTL DEF Spec
=============================================================================
