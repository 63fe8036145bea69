------------------------ MODULE ControlUpdatesProofs ------------------------
(***************************************************************************)
(* Proofs about the command tracker, for every set of controls, reads and  *)
(* values: typing, the exclusion of commands of a group, the timers, and   *)
(* the freshness of the evidence that confirms a command and of the values *)
(* shown meanwhile.                                                        *)
(***************************************************************************)
EXTENDS ControlUpdates, TLAPS

LEMMA ReadingsOfMerge ==
    ASSUME NEW old \in Readings, NEW new \in Readings
    PROVE  Merge(old, new) \in Readings
BY DEF Merge, Readings

LEMMA VersionNat ==
    /\ MaxVersion \in Nat
    /\ \A v \in 0..MaxVersion : v \in Nat /\ v + 1 \in Nat
<1>1. MaxVersion \in Nat
  BY KeysAssumption, Zenon
<1> QED
  BY <1>1

LEMMA NoReadingType == NoReading \in Readings
BY DEF NoReading, Readings

LEMMA TokenType ==
    ASSUME TypeOK, NEW i \in 0..created
    PROVE  Token(i) \in (0..created) \X (0..MaxVersion)
<1>1. created \in Nat /\ 0 \in 0..created /\ 0 \in 0..MaxVersion
  BY KeysAssumption DEF TypeOK
<1>2. CASE i = None
  BY <1>1, <1>2 DEF Token, NoToken, None
<1>3. CASE i # None
  <2>1. i \in Begun
    BY <1>1, <1>3 DEF Begun, None
  <2>2. update[i].version \in 0..MaxVersion
    BY <2>1 DEF TypeOK, Updates
  <2> QED
    BY <2>2, <1>3 DEF Token
<1> QED
  BY <1>2, <1>3

LEMMA OwnerType ==
    ASSUME TypeOK, NEW k \in Keys
    PROVE  Owner(k) \in 0..created
BY DEF TypeOK, Owner

\* Observing assigns at most one report to an update: the one for its key.
LEMMA ChosenReport ==
    ASSUME TypeOK, NEW r \in Reads, NEW report \in [Keys -> Readings],
           NEW k \in Observing(r, report)
    PROVE  /\ k \in Keys
           /\ updates[k] \in Begun
           /\ (CHOOSE j \in Observing(r, report) : updates[j] = updates[k]) = k
<1>1. \A j \in Observing(r, report) : j \in Keys /\ updates[j] # None
  BY DEF Observing, Accepted
<1>2. \A j \in Keys : updates[j] # None => updates[j] \in Begun
  BY DEF TypeOK, Begun, None
<1>3. \A j \in Keys : updates[j] \in Begun => update[updates[j]].key = j
  BY DEF TypeOK
<1>4. \A j \in Observing(r, report) : updates[j] = updates[k] => j = k
  BY <1>1, <1>2, <1>3, Zenon
<1> QED
  BY <1>1, <1>2, <1>4, Zenon

-----------------------------------------------------------------------------
LEMMA InitTypeOK == Init => TypeOK
<1> SUFFICES ASSUME Init PROVE TypeOK
  OBVIOUS
<1>1. created = 0 /\ Begun = {} /\ 0 \in 0..MaxUpdates /\ 0 \in 0..MaxVersion
  BY KeysAssumption DEF Init, Begun
<1>2. update \in [Begun -> Updates]
  BY <1>1 DEF Init
<1>3. reads \in [Reads -> [Keys -> (0..created) \X (0..MaxVersion)]]
  BY <1>1 DEF Init, NoToken, None
<1>4. values \in [Keys -> Readings]
  BY NoReadingType DEF Init
<1>5. /\ updates \in [Keys -> 0..created] /\ held \in [Keys -> 0..created]
      /\ fresh \in [Reads -> SUBSET Begun]
  BY <1>1 DEF Init, None
<1> QED
  BY <1>1, <1>2, <1>3, <1>4, <1>5 DEF Init, TypeOK

LEMMA InvalidateType ==
    ASSUME TypeOK, NEW ids \in SUBSET Begun, NEW modified \in [Begun -> Updates],
           \A i \in Begun : modified[i].key = update[i].key,
           Invalidate(ids, modified)
    PROVE  TypeOK'
<1>1. ASSUME NEW i \in Begun
      PROVE  update'[i] \in Updates /\ update'[i].key = update[i].key
  <2>1. update[i] \in Updates /\ modified[i] \in Updates
    BY DEF TypeOK
  <2>2. CASE i \in ids
    <3> DEFINE v == update[i].version + 1
    <3>1. update[i].version \in 0..MaxVersion /\ update[i].version < MaxVersion
      BY <2>1, <2>2 DEF Invalidate, Updates
    <3>2. v \in 0..MaxVersion
      BY <3>1, KeysAssumption
    <3>3. update'[i] = [modified[i] EXCEPT !.observed = NoReading, !.version = v]
      BY <2>2 DEF Invalidate
    <3> HIDE DEF v
    <3>4. update'[i] \in Updates /\ update'[i].key = modified[i].key
      BY <2>1, <3>2, <3>3, NoReadingType DEF Updates
    <3> QED
      BY <3>4
  <2>3. CASE i \notin ids
    BY <2>1, <2>3 DEF Invalidate
  <2> QED
    BY <2>2, <2>3
<1>2. update' \in [Begun -> Updates]
  BY <1>1 DEF Invalidate
<1>3. /\ fresh' \in [Reads -> SUBSET Begun]
      /\ tainted' \subseteq Begun
  BY DEF Invalidate, TypeOK
<1>4. UNCHANGED <<active, created, updates, held, values, reads, reading>>
  BY DEF Invalidate
<1>5. Begun' = Begun
  BY <1>4 DEF Begun
<1> QED
  BY <1>1, <1>2, <1>3, <1>4, <1>5 DEF TypeOK

LEMMA DropType ==
    ASSUME TypeOK, NEW gone \in SUBSET Keys, Drop(gone), active' \in BOOLEAN
    PROVE  TypeOK'
<1>1. ASSUME NEW i \in Begun
      PROVE  update'[i] \in Updates /\ update'[i].key = update[i].key
  <2>1. update[i] \in Updates
    BY DEF TypeOK
  <2>2. update'[i] \in {update[i], [update[i] EXCEPT !.timer = FALSE]}
    BY DEF Drop
  <2> QED
    BY <2>1, <2>2 DEF Updates
<1>2. update' \in [Begun -> Updates]
  BY <1>1 DEF Drop
<1>3. /\ updates' \in [Keys -> 0..created]
      /\ held' \in [Keys -> 0..created]
      /\ values' \in [Keys -> Readings]
  BY NoReadingType DEF Drop, TypeOK, None
<1>4. UNCHANGED <<created, reads, reading, fresh, tainted>>
  BY DEF Drop
<1>5. Begun' = Begun
  BY <1>4 DEF Begun
<1>6. \A k \in Keys : updates'[k] \in Begun => update'[updates'[k]].key = k
  <2>1. \A k \in Keys : updates'[k] \in Begun => updates'[k] = updates[k]
    BY DEF Drop, Begun, None
  <2> QED
    BY <1>1, <2>1 DEF TypeOK
<1> QED
  BY <1>2, <1>3, <1>4, <1>5, <1>6 DEF TypeOK

LEMMA BeginType ==
    ASSUME TypeOK, NEW k \in Keys, NEW request \in Readings,
           NEW snapshot \in [Keys -> [Fields -> Vals]],
           Begin(k, request, snapshot)
    PROVE  TypeOK'
<1>1. Begun' = 1..created + 1 /\ created \in Nat /\ created' \in 0..MaxUpdates
  BY KeysAssumption DEF Begin, Begun, TypeOK
<1>2. NewUpdate(k, request) \in Updates /\ NewUpdate(k, request).key = k
  BY NoReadingType, KeysAssumption DEF NewUpdate, Updates, Statuses
<1>3. \A u \in Updates : /\ Cancelled(u) \in Updates /\ Cancelled(u).key = u.key
                         /\ [u EXCEPT !.timer = FALSE] \in Updates
                         /\ [u EXCEPT !.timer = FALSE].key = u.key
  BY DEF Cancelled, Updates, Statuses
<1>4. ASSUME NEW i \in 1..created + 1
      PROVE  /\ update'[i] \in Updates
             /\ i = created + 1 => update'[i].key = k
             /\ i # created + 1 => update'[i].key = update[i].key
  <2>1. i # created + 1 => i \in Begun /\ update[i] \in Updates
    BY <1>1 DEF TypeOK, Begun
  <2> QED
    BY <2>1, <1>2, <1>3 DEF Begin
<1>5. update' \in [1..created + 1 -> Updates]
  BY <1>4 DEF Begin
<1>6. values' \in [Keys -> Readings]
  <2>1. [Fields -> Vals] \subseteq Readings
    BY DEF Readings
  <2>2. ASSUME NEW j \in Keys PROVE values'[j] \in Readings
    <3>1. values'[j] = snapshot[j] \/ values'[j] = values[j]
      BY DEF Begin
    <3> QED
      BY <2>1, <3>1 DEF TypeOK
  <2> QED
    BY <2>2 DEF Begin
<1>7. updates' \in [Keys -> 0..created + 1] /\ held' \in [Keys -> 0..created + 1]
  <2>1. /\ 0..created \subseteq 0..created + 1
        /\ created + 1 \in 0..created + 1
        /\ None \in 0..created + 1
    BY <1>1 DEF None
  <2> QED
    BY <2>1 DEF Begin, TypeOK
<1>8. \A j \in Keys : updates'[j] \in Begun' => update'[updates'[j]].key = j
  <2> SUFFICES ASSUME NEW j \in Keys, updates'[j] \in Begun'
               PROVE  update'[updates'[j]].key = j
    OBVIOUS
  <2>1. CASE j = k
    <3>1. updates'[j] = created + 1
      BY <2>1 DEF Begin, TypeOK
    <3> QED
      BY <3>1, <2>1, <1>1, <1>4
  <2>2. CASE j # k
    <3>1. updates'[j] = updates[j] /\ updates[j] \in Begun
      BY <2>2, <1>1 DEF Begin, TypeOK, Begun
    <3>2. updates[j] \in 1..created + 1 /\ updates[j] # created + 1
      BY <3>1, <1>1 DEF Begun
    <3> QED
      BY <3>1, <3>2, <1>4 DEF TypeOK
  <2> QED
    BY <2>1, <2>2
<1>9. /\ reads' \in [Reads -> [Keys -> (0..created + 1) \X (0..MaxVersion)]]
      /\ fresh' \in [Reads -> SUBSET (1..created + 1)]
      /\ tainted' \subseteq 1..created + 1
  <2>1. 0..created \subseteq 0..created + 1 /\ Begun \subseteq 1..created + 1
    BY <1>1 DEF Begun
  <2>2. reads' = reads /\ fresh' = fresh /\ tainted' = tainted
    BY DEF Begin
  <2>3. (0..created) \X (0..MaxVersion) \subseteq (0..created + 1) \X (0..MaxVersion)
    BY <2>1
  <2>4. SUBSET Begun \subseteq SUBSET (1..created + 1)
    BY <2>1
  <2>5. ASSUME NEW r \in Reads
        PROVE  reads[r] \in [Keys -> (0..created + 1) \X (0..MaxVersion)]
    BY <2>3 DEF TypeOK
  <2> QED
    BY <2>1, <2>2, <2>4, <2>5 DEF TypeOK
<1>10. created' = created + 1 /\ active' \in BOOLEAN /\ reading' \subseteq Reads
  BY DEF Begin, TypeOK
<1> QED
  BY <1>1, <1>5, <1>6, <1>7, <1>8, <1>9, <1>10 DEF TypeOK
\* A step that rewrites updates in place, keeping each one's key.
LEMMA RewriteType ==
    ASSUME TypeOK, update' \in [Begun -> Updates],
           \A i \in Begun : update'[i].key = update[i].key,
           UNCHANGED <<active, created, updates, held>>,
           values' \in [Keys -> Readings],
           reads' \in [Reads -> [Keys -> (0..created) \X (0..MaxVersion)]],
           reading' \subseteq Reads,
           fresh' \in [Reads -> SUBSET Begun],
           tainted' \subseteq Begun
    PROVE  TypeOK'
<1>1. Begun' = Begun
  BY DEF Begun
<1> QED
  BY <1>1 DEF TypeOK

LEMMA UpdateTypes ==
    ASSUME NEW u \in Updates
    PROVE  /\ Confirmed(u) \in Updates /\ Confirmed(u).key = u.key
           /\ Cancelled(u) \in Updates /\ Cancelled(u).key = u.key
           /\ \A failed \in BOOLEAN :
                 Finished(u, failed) \in Updates /\ Finished(u, failed).key = u.key
           /\ \A report \in Readings :
                 Observed(u, report) \in Updates /\ Observed(u, report).key = u.key
<1>1. /\ Confirmed(u) \in Updates /\ Confirmed(u).key = u.key
      /\ Cancelled(u) \in Updates /\ Cancelled(u).key = u.key
  BY DEF Confirmed, Cancelled, Updates, Statuses
<1>2. ASSUME NEW failed \in BOOLEAN
      PROVE  Finished(u, failed) \in Updates /\ Finished(u, failed).key = u.key
  BY DEF Finished, Confirmed, Updates, Statuses
<1>3. ASSUME NEW report \in Readings
      PROVE  Observed(u, report) \in Updates /\ Observed(u, report).key = u.key
  <2>1. Merge(u.observed, report) \in Readings
    BY ReadingsOfMerge DEF Updates
  <2> HIDE DEF Merge
  <2> QED
    BY <2>1 DEF Observed, Confirmed, Updates, Statuses
<1> QED
  BY <1>1, <1>2, <1>3

LEMMA FinishType ==
    ASSUME TypeOK, NEW i \in Begun, NEW failed \in BOOLEAN, Finish(i, failed)
    PROVE  TypeOK'
<1>1. update[i] \in Updates
  BY DEF TypeOK
<1>2. /\ [update[i] EXCEPT !.running = FALSE] \in Updates
      /\ [update[i] EXCEPT !.running = FALSE].key = update[i].key
  BY <1>1 DEF Updates
<1>3. update'[i] \in Updates /\ update'[i].key = update[i].key
  BY <1>1, <1>2, UpdateTypes DEF Finish, TypeOK
<1>4. /\ update' \in [Begun -> Updates]
      /\ \A x \in Begun : update'[x].key = update[x].key
  BY <1>3 DEF Finish, TypeOK
<1> QED
  BY <1>4, RewriteType DEF Finish, TypeOK

LEMMA ExpireType ==
    ASSUME TypeOK, NEW i \in Begun, Expire(i)
    PROVE  TypeOK'
<1>1. update[i] \in Updates
  BY DEF TypeOK
<1>2. \A u \in Updates :
         /\ [u EXCEPT !.status = "unconfirmed", !.timer = FALSE] \in Updates
         /\ [u EXCEPT !.status = "unconfirmed", !.timer = FALSE].key = u.key
         /\ [u EXCEPT !.timer = FALSE] \in Updates
         /\ [u EXCEPT !.timer = FALSE].key = u.key
  BY DEF Updates, Statuses
<1>3. update'[i] \in Updates /\ update'[i].key = update[i].key
  BY <1>1, <1>2 DEF Expire, TypeOK
<1>4. /\ update' \in [Begun -> Updates]
      /\ \A x \in Begun : update'[x].key = update[x].key
  BY <1>3 DEF Expire, TypeOK
<1> QED
  BY <1>4, RewriteType DEF Expire, TypeOK

LEMMA CancelGroupType ==
    ASSUME TypeOK, NEW k \in Keys, CancelGroup(k)
    PROVE  TypeOK'
<1>1. ASSUME NEW i \in Begun
      PROVE  update'[i] \in Updates /\ update'[i].key = update[i].key
  <2>1. update[i] \in Updates
    BY DEF TypeOK
  <2>2. \A u \in Updates : /\ [u EXCEPT !.submitting = FALSE] \in Updates
                           /\ [u EXCEPT !.submitting = FALSE].key = u.key
    BY DEF Updates
  <2>3. \/ update'[i] = update[i]
        \/ update'[i] = [Cancelled(update[i]) EXCEPT !.submitting = FALSE]
    BY DEF CancelGroup
  <2>4. Cancelled(update[i]) \in Updates /\ Cancelled(update[i]).key = update[i].key
    BY <2>1, UpdateTypes
  <2> HIDE DEF Cancelled
  <2>5. /\ [Cancelled(update[i]) EXCEPT !.submitting = FALSE] \in Updates
        /\ [Cancelled(update[i]) EXCEPT !.submitting = FALSE].key = update[i].key
    BY <2>2, <2>4
  <2> QED
    BY <2>1, <2>3, <2>5
<1>2. update' \in [Begun -> Updates]
  BY <1>1 DEF CancelGroup
<1> QED
  BY <1>1, <1>2, RewriteType DEF CancelGroup, TypeOK

LEMMA StartReadType ==
    ASSUME TypeOK, NEW r \in Reads, StartRead(r)
    PROVE  TypeOK'
<1>1. \A k \in Keys : Token(Owner(k)) \in (0..created) \X (0..MaxVersion)
  BY OwnerType, TokenType
<1>2. reads' \in [Reads -> [Keys -> (0..created) \X (0..MaxVersion)]]
  <2>1. [k \in Keys |-> Token(Owner(k))] \in [Keys -> (0..created) \X (0..MaxVersion)]
    BY <1>1
  <2> QED
    BY <2>1 DEF StartRead, TypeOK
<1>3. /\ reading' \subseteq Reads
      /\ fresh' \in [Reads -> SUBSET Begun]
  BY DEF StartRead, TypeOK
<1> QED
  BY <1>2, <1>3, RewriteType DEF StartRead, TypeOK

\* What a finished read does to one update.
LEMMA EndReadUpdate ==
    ASSUME TypeOK, NEW r \in Reads, NEW report \in [Keys -> Readings],
           EndRead(r, report), NEW i \in Begun
    PROVE  \/ update'[i] = update[i]
           \/ \E k \in Observing(r, report) :
                 updates[k] = i /\ update'[i] = Observed(update[i], report[k])
<1>1. CASE \E k \in Observing(r, report) : updates[k] = i
  <2>1. PICK k \in Observing(r, report) : updates[k] = i
    BY <1>1
  <2>2. (CHOOSE j \in Observing(r, report) : updates[j] = i) = k
    BY <2>1, ChosenReport
  <2>3. update'[i] = Observed(update[i],
                        report[CHOOSE j \in Observing(r, report) : updates[j] = i])
    BY <1>1 DEF EndRead
  <2> QED
    BY <2>1, <2>2, <2>3
<1>2. CASE ~ \E k \in Observing(r, report) : updates[k] = i
  BY <1>2 DEF EndRead
<1> QED
  BY <1>1, <1>2

LEMMA EndReadType ==
    ASSUME TypeOK, NEW r \in Reads, NEW report \in [Keys -> Readings],
           EndRead(r, report)
    PROVE  TypeOK'
<1>1. ASSUME NEW i \in Begun
      PROVE  update'[i] \in Updates /\ update'[i].key = update[i].key
  <2>1. update[i] \in Updates
    BY DEF TypeOK
  <2>2. \A k \in Observing(r, report) : report[k] \in Readings
    BY DEF Observing, Accepted
  <2>3. \A k \in Observing(r, report) :
           /\ Observed(update[i], report[k]) \in Updates
           /\ Observed(update[i], report[k]).key = update[i].key
    BY <2>1, <2>2, UpdateTypes
  <2>4. \/ update'[i] = update[i]
        \/ \E k \in Observing(r, report) :
              updates[k] = i /\ update'[i] = Observed(update[i], report[k])
    BY EndReadUpdate
  <2> QED
    BY <2>1, <2>3, <2>4
<1>2. update' \in [Begun -> Updates]
  BY <1>1 DEF EndRead
<1>3. values' \in [Keys -> Readings]
  <2>1. ASSUME NEW k \in Keys
        PROVE  Merge(values[k], report[k]) \in Readings /\ values[k] \in Readings
    BY ReadingsOfMerge DEF TypeOK
  <2> QED
    BY <2>1 DEF EndRead
<1>4. tainted' \subseteq Begun
  <2>1. \A k \in Observing(r, report) : updates[k] \in Begun
    BY ChosenReport
  <2> QED
    BY <2>1 DEF EndRead, TypeOK
<1>5. /\ reading' \subseteq Reads
      /\ fresh' \in [Reads -> SUBSET Begun]
  BY DEF EndRead, TypeOK
<1>6. reads' \in [Reads -> [Keys -> (0..created) \X (0..MaxVersion)]]
  <2>1. NoToken \in (0..created) \X (0..MaxVersion)
    BY KeysAssumption DEF NoToken, None, TypeOK
  <2>2. [k \in Keys |-> NoToken] \in [Keys -> (0..created) \X (0..MaxVersion)]
    BY <2>1
  <2> QED
    BY <2>2 DEF EndRead, TypeOK
<1>7. UNCHANGED <<active, created, updates, held>>
  BY DEF EndRead
<1> QED
  BY <1>1, <1>2, <1>3, <1>4, <1>5, <1>6, <1>7, RewriteType

LEMMA SetRequestedType ==
    ASSUME TypeOK, NEW i \in Begun, NEW request \in Readings, SetRequested(i, request)
    PROVE  TypeOK'
<1> DEFINE own == updates[update[i].key]
           modified == [update EXCEPT ![own].requested = request]
<1>1. own \in Begun
  BY DEF SetRequested, TypeOK, Updates, Begun, None
<1>2. modified \in [Begun -> Updates]
  <2> HIDE DEF own
  <2>1. update[own] \in Updates
    BY <1>1 DEF TypeOK
  <2>2. [update[own] EXCEPT !.requested = request] \in Updates
    BY <2>1 DEF Updates
  <2> QED
    BY <2>2 DEF TypeOK
<1>3. \A x \in Begun : modified[x].key = update[x].key
  BY <1>1 DEF TypeOK, Updates
<1>4. Invalidate({own}, modified)
  BY DEF SetRequested
<1> HIDE DEF own, modified
<1> QED
  BY <1>1, <1>2, <1>3, <1>4, InvalidateType

LEMMA AcknowledgedBegun ==
    ASSUME TypeOK, NEW i \in Begun
    PROVE  Acknowledged(i) \subseteq Begun
BY DEF Acknowledged, TypeOK, Updates, Begun, None

LEMMA AcknowledgeType ==
    ASSUME TypeOK, NEW i \in Begun, Acknowledge(i)
    PROVE  TypeOK'
<1>1. update \in [Begun -> Updates]
  BY DEF TypeOK
<1>2. Invalidate(Acknowledged(i), update)
  BY DEF Acknowledge
<1> QED
  BY <1>1, <1>2, AcknowledgedBegun, InvalidateType

LEMMA TypeStep == TypeOK /\ [Next]_vars => TypeOK'
<1> SUFFICES ASSUME TypeOK, [Next]_vars PROVE TypeOK'
  OBVIOUS
<1>1. ASSUME NEW k \in Keys, NEW request \in Readings \ {NoReading},
             NEW snapshot \in [Keys -> [Fields -> Vals]], Begin(k, request, snapshot)
      PROVE  TypeOK'
  BY <1>1, BeginType
<1>2. ASSUME NEW i \in Begun, NEW failed \in BOOLEAN, Finish(i, failed)
      PROVE  TypeOK'
  BY <1>2, FinishType
<1>3. ASSUME NEW i \in Begun, NEW request \in Readings, SetRequested(i, request)
      PROVE  TypeOK'
  BY <1>3, SetRequestedType
<1>4. ASSUME NEW i \in Begun, Acknowledge(i) PROVE TypeOK'
  BY <1>4, AcknowledgeType
<1>5. ASSUME NEW i \in Begun, Expire(i) PROVE TypeOK'
  BY <1>5, ExpireType
<1>6. ASSUME NEW r \in Reads, StartRead(r) PROVE TypeOK'
  BY <1>6, StartReadType
<1>7. ASSUME NEW r \in Reads, NEW report \in [Keys -> Readings], EndRead(r, report)
      PROVE  TypeOK'
  BY <1>7, EndReadType
<1>8. ASSUME NEW k \in Keys, CancelGroup(k) PROVE TypeOK'
  BY <1>8, CancelGroupType
<1>9. ASSUME NEW s \in Serials, Prune(s) PROVE TypeOK'
  <2>1. active' \in BOOLEAN
    BY <1>9 DEF Prune, TypeOK
  <2> QED
    BY <1>9, <2>1, DropType DEF Prune
<1>10. CASE Cleanup
  <2>1. active' \in BOOLEAN
    BY <1>10 DEF Cleanup
  <2> QED
    BY <1>10, <2>1, DropType DEF Cleanup
<1>11. CASE UNCHANGED vars
  BY <1>11 DEF vars, TypeOK, Begun
<1> QED
  BY <1>1, <1>2, <1>3, <1>4, <1>5, <1>6, <1>7, <1>8, <1>9, <1>10, <1>11 DEF Next

\* Typing: every variable of the tracker has its type in every reachable state,
\* and the update a control refers to is an update of that control.
THEOREM Typing == Spec => []TypeOK
<1> QED
  BY InitTypeOK, TypeStep, PTL DEF Spec

-----------------------------------------------------------------------------
\* How an update may change in place: it keeps its key, is not opened again,
\* its timer stays on for exactly as long as it is pending, and its coroutine
\* is neither restarted nor left running once it is settled.
UnsettledIfRunning(u) ==
    u.running => u.status # "confirmed" /\ (u.submitting \/ u.status = "cancelled")

OpenUpdate(u) == u.submitting \/ u.status = "pending"

Settles(u, v) ==
    /\ v.key = u.key
    /\ OpenUpdate(v) => OpenUpdate(u)
    /\ (u.timer <=> u.status = "pending") => (v.timer <=> v.status = "pending")
    /\ ~u.timer => ~v.timer
    /\ UnsettledIfRunning(u) => UnsettledIfRunning(v)

LEMMA SettlesInv ==
    ASSUME TrackerInv, TypeOK', UNCHANGED <<created, updates, held>>,
           \A i \in Begun : Settles(update[i], update'[i])
    PROVE  OneOpenPerGroup' /\ TimersMatchPending' /\ HoldersInGroup' /\ RunningIsUnsettled'
<1>1. Begun' = Begun
  BY DEF Begun
<1>2. ASSUME NEW k \in Keys PROVE updates[k] # None => updates[k] \in Begun
  BY DEF TrackerInv, TypeOK, Begun, None
<1>3. OneOpenPerGroup'
  <2> SUFFICES ASSUME NEW j \in Keys, NEW k \in Keys, j # k, SameGroup(j, k),
                      updates[j] # None, updates[k] # None,
                      Open(updates[j])', Open(updates[k])'
               PROVE  FALSE
    BY DEF OneOpenPerGroup, SameGroup
  <2>1. Open(updates[j]) /\ Open(updates[k])
    BY <1>2 DEF Settles, Open, OpenUpdate
  <2> QED
    BY <2>1 DEF TrackerInv, OneOpenPerGroup
<1>4. TimersMatchPending'
  <2> SUFFICES ASSUME NEW i \in Begun
               PROVE  update'[i].timer <=> /\ updates[update'[i].key] = i
                                           /\ update'[i].status = "pending"
    BY <1>1 DEF TimersMatchPending
  <2>1. update[i].timer <=> /\ updates[update[i].key] = i
                            /\ update[i].status = "pending"
    BY DEF TrackerInv, TimersMatchPending
  <2>2. Settles(update[i], update'[i])
    OBVIOUS
  <2>3. update[i].timer \in BOOLEAN /\ update'[i].timer \in BOOLEAN
    BY <1>1 DEF TrackerInv, TypeOK, Updates
  <2> QED
    BY <2>1, <2>2, <2>3 DEF Settles
<1>5. HoldersInGroup'
  <2>1. \A k \in Keys : held[k] # None => held[k] \in Begun
    BY DEF TrackerInv, TypeOK, Begun, None
  <2> QED
    BY <2>1 DEF HoldersInGroup, TrackerInv, SameGroup, Settles
<1>6. RunningIsUnsettled'
  BY <1>1 DEF RunningIsUnsettled, TrackerInv, Settles, UnsettledIfRunning
<1> QED
  BY <1>3, <1>4, <1>5, <1>6

LEMMA SettlesSelf ==
    ASSUME NEW u
    PROVE  Settles(u, u)
BY DEF Settles

LEMMA FinishSettles ==
    ASSUME TrackerInv, NEW i \in Begun, NEW failed \in BOOLEAN, Finish(i, failed),
           NEW x \in Begun
    PROVE  Settles(update[x], update'[x]) /\ update'[x].version = update[x].version
<1>1. update[x] \in Updates
  BY DEF TrackerInv, TypeOK
<1>2. CASE x # i
  BY <1>2, SettlesSelf DEF Finish
<1>3. CASE x = i
  <2>1. \/ update'[x] = Finished(update[x], failed)
        \/ update'[x] = [update[x] EXCEPT !.running = FALSE]
    BY <1>3 DEF Finish, TrackerInv, TypeOK
  <2>2. ASSUME NEW u \in Updates
        PROVE  /\ Settles(u, Finished(u, failed))
               /\ Finished(u, failed).version = u.version
    BY DEF Settles, UnsettledIfRunning, OpenUpdate, Finished, Confirmed, Updates, Statuses
  <2>3. ASSUME NEW u \in Updates
        PROVE  /\ Settles(u, [u EXCEPT !.running = FALSE])
               /\ [u EXCEPT !.running = FALSE].version = u.version
    BY DEF Settles, UnsettledIfRunning, OpenUpdate, Updates
  <2> QED
    BY <1>1, <2>1, <2>2, <2>3
<1> QED
  BY <1>2, <1>3

LEMMA ExpireSettles ==
    ASSUME TrackerInv, NEW i \in Begun, Expire(i), NEW x \in Begun
    PROVE  Settles(update[x], update'[x]) /\ update'[x].version = update[x].version
<1>1. update[x] \in Updates
  BY DEF TrackerInv, TypeOK
<1>2. CASE x # i
  BY <1>2, SettlesSelf DEF Expire
<1>3. CASE x = i
  <2>1. updates[update[i].key] = i /\ update[i].status = "pending"
    BY DEF Expire, TrackerInv, TimersMatchPending
  <2>2. update'[x] = [update[x] EXCEPT !.status = "unconfirmed", !.timer = FALSE]
    BY <1>3, <2>1 DEF Expire, TrackerInv, TypeOK
  <2> QED
    BY <1>1, <1>3, <2>1, <2>2
       DEF Settles, UnsettledIfRunning, OpenUpdate, Updates, Expire
<1> QED
  BY <1>2, <1>3

LEMMA CancelGroupSettles ==
    ASSUME TrackerInv, NEW k \in Keys, CancelGroup(k), NEW x \in Begun
    PROVE  Settles(update[x], update'[x]) /\ update'[x].version = update[x].version
<1>1. update[x] \in Updates
  BY DEF TrackerInv, TypeOK
<1>2. \/ update'[x] = update[x]
      \/ update'[x] = [Cancelled(update[x]) EXCEPT !.submitting = FALSE]
  BY DEF CancelGroup
<1>3. ASSUME NEW u \in Updates
      PROVE  /\ Settles(u, [Cancelled(u) EXCEPT !.submitting = FALSE])
             /\ [Cancelled(u) EXCEPT !.submitting = FALSE].version = u.version
  BY DEF Settles, UnsettledIfRunning, OpenUpdate, Cancelled, Updates
<1> QED
  BY <1>1, <1>2, <1>3, SettlesSelf

LEMMA EndReadSettles ==
    ASSUME TrackerInv, NEW r \in Reads, NEW report \in [Keys -> Readings],
           EndRead(r, report), NEW x \in Begun
    PROVE  Settles(update[x], update'[x]) /\ update'[x].version = update[x].version
<1> USE DEF TrackerInv
<1>1. update[x] \in Updates
  BY DEF TypeOK
<1>2. CASE update'[x] = update[x]
  BY <1>2, SettlesSelf
<1>3. CASE update'[x] # update[x]
  <2>1. PICK k \in Observing(r, report) :
           updates[k] = x /\ update'[x] = Observed(update[x], report[k])
    BY <1>3, EndReadUpdate
  <2>2. report[k] \in Readings /\ update[x].status \notin {"failed", "cancelled"}
    BY <2>1 DEF Observing, Accepted
  <2>3. ASSUME NEW u \in Updates, NEW reported \in Readings,
               u.status \notin {"failed", "cancelled"}
        PROVE  /\ Settles(u, Observed(u, reported))
               /\ Observed(u, reported).version = u.version
    <3> DEFINE merged == Merge(u.observed, reported)
    <3>1. merged \in Readings
      BY ReadingsOfMerge DEF Updates
    <3> HIDE DEF merged
    <3>2. \/ Observed(u, reported) = [u EXCEPT !.observed = merged]
          \/ /\ ~u.submitting
             /\ Observed(u, reported) = Confirmed([u EXCEPT !.observed = merged])
      BY DEF Observed, merged, Updates
    <3> QED
      BY <2>3, <3>1, <3>2
         DEF Settles, UnsettledIfRunning, OpenUpdate, Confirmed, Updates, Statuses
  <2> QED
    BY <1>1, <2>1, <2>2, <2>3
<1> QED
  BY <1>2, <1>3

\* A step that settles updates and leaves reads alone keeps the invariant.
LEMMA InPlaceStep ==
    ASSUME TrackerInv, TypeOK',
           UNCHANGED <<created, updates, held, reads, fresh, tainted>>,
           \A i \in Begun : /\ Settles(update[i], update'[i])
                            /\ update'[i].version = update[i].version
    PROVE  TrackerInv'
<1>1. OneOpenPerGroup' /\ TimersMatchPending' /\ HoldersInGroup' /\ RunningIsUnsettled'
  BY SettlesInv
<1>2. TokensTrackFreshness'
  BY DEF TokensTrackFreshness, TrackerInv, Begun
<1> QED
  BY <1>1, <1>2 DEF TrackerInv, NoStaleEvidence

LEMMA InitInv == Init => TrackerInv
<1> SUFFICES ASSUME Init PROVE TrackerInv
  OBVIOUS
<1>1. TypeOK /\ Begun = {}
  BY InitTypeOK DEF Init, Begun
<1> QED
  BY <1>1 DEF Init, TrackerInv, OneOpenPerGroup, TimersMatchPending, NoStaleEvidence,
              HoldersInGroup, TokensTrackFreshness, RunningIsUnsettled

\* A read that starts holds the current token of each owner, and every update
\* begun so far is one it is fresh for.
LEMMA StartReadInv ==
    ASSUME TrackerInv, TypeOK', NEW r \in Reads, StartRead(r)
    PROVE  TrackerInv'
<1>1. UNCHANGED <<created, update, updates, held, tainted>> /\ Begun' = Begun
  BY DEF StartRead, Begun
<1>2. OneOpenPerGroup' /\ TimersMatchPending' /\ HoldersInGroup' /\ RunningIsUnsettled'
  BY <1>1, SettlesInv, SettlesSelf
<1>3. TokensTrackFreshness'
  <2> SUFFICES ASSUME NEW x \in Reads, NEW k \in Keys, reads'[x][k][1] \in Begun
               PROVE  /\ reads'[x][k][2] <= update[reads'[x][k][1]].version
                      /\ reads'[x][k][2] = update[reads'[x][k][1]].version
                            => reads'[x][k][1] \in fresh'[x]
    BY <1>1 DEF TokensTrackFreshness
  <2>1. CASE x = r
    <3>1. reads'[x][k] = Token(Owner(k)) /\ fresh'[x] = Begun
      BY <2>1 DEF StartRead, TrackerInv, TypeOK
    <3>2. Owner(k) # None
      BY <3>1 DEF Token, NoToken, None, Begun
    <3>3. reads'[x][k] = <<Owner(k), update[Owner(k)].version>> /\ Owner(k) \in Begun
      BY <3>1, <3>2 DEF Token
    <3>4. update[Owner(k)].version \in Int
      BY <3>3 DEF TrackerInv, TypeOK, Updates
    <3> QED
      BY <3>1, <3>3, <3>4
  <2>2. CASE x # r
    <3>1. reads'[x] = reads[x] /\ fresh'[x] = fresh[x]
      BY <2>2 DEF StartRead, TrackerInv, TypeOK
    <3> QED
      BY <3>1 DEF TrackerInv, TokensTrackFreshness
  <2> QED
    BY <2>1, <2>2
<1> QED
  BY <1>1, <1>2, <1>3 DEF TrackerInv, NoStaleEvidence

\* An owner whose token a read holds is one the read is fresh for.
LEMMA TokenMeansFresh ==
    ASSUME TrackerInv, NEW r \in Reads, NEW k \in Keys,
           Owner(k) # None, Token(Owner(k)) = reads[r][k]
    PROVE  Owner(k) \in fresh[r]
<1>1. Owner(k) \in Begun
  BY OwnerType DEF TrackerInv, TypeOK, Begun, None
<1>2. reads[r][k] = <<Owner(k), update[Owner(k)].version>>
  BY DEF Token
<1> QED
  BY <1>1, <1>2 DEF TrackerInv, TokensTrackFreshness

LEMMA EndReadInv ==
    ASSUME TrackerInv, TypeOK', NEW r \in Reads, NEW report \in [Keys -> Readings],
           EndRead(r, report)
    PROVE  TrackerInv'
<1>1. UNCHANGED <<created, updates, held>> /\ Begun' = Begun
  BY DEF EndRead, Begun
<1>2. \A x \in Begun : /\ Settles(update[x], update'[x])
                       /\ update'[x].version = update[x].version
  BY EndReadSettles
<1>3. OneOpenPerGroup' /\ TimersMatchPending' /\ HoldersInGroup' /\ RunningIsUnsettled'
  BY <1>1, <1>2, SettlesInv
<1>4. NoStaleEvidence'
  <2>1. \A k \in Observing(r, report) : updates[k] \in fresh[r]
    <3> SUFFICES ASSUME NEW k \in Observing(r, report) PROVE updates[k] \in fresh[r]
      OBVIOUS
    <3>1. /\ k \in Keys /\ Owner(k) # None /\ Owner(k) = updates[k]
          /\ Token(Owner(k)) = reads[r][k]
      BY DEF Observing, Accepted
    <3> QED
      BY <3>1, TokenMeansFresh
  <2> QED
    BY <2>1 DEF EndRead, TrackerInv, NoStaleEvidence
<1>5. TokensTrackFreshness'
  <2> SUFFICES ASSUME NEW x \in Reads, NEW k \in Keys, reads'[x][k][1] \in Begun
               PROVE  /\ reads'[x][k][2] <= update'[reads'[x][k][1]].version
                      /\ reads'[x][k][2] = update'[reads'[x][k][1]].version
                            => reads'[x][k][1] \in fresh'[x]
    BY <1>1 DEF TokensTrackFreshness
  <2>1. CASE x = r
    <3>1. reads'[x][k] = NoToken
      BY <2>1 DEF EndRead, TrackerInv, TypeOK
    <3> QED
      BY <3>1 DEF NoToken, None, Begun
  <2>2. CASE x # r
    <3>1. reads'[x] = reads[x] /\ fresh'[x] = fresh[x]
      BY <2>2 DEF EndRead, TrackerInv, TypeOK
    <3> QED
      BY <1>2, <3>1 DEF TrackerInv, TokensTrackFreshness
  <2> QED
    BY <2>1, <2>2
<1> QED
  BY <1>3, <1>4, <1>5 DEF TrackerInv

LEMMA TokenFacts ==
    ASSUME TrackerInv, NEW r \in Reads, NEW k \in Keys, reads[r][k][1] \in Begun
    PROVE  \E i \in Begun, v \in 0..MaxVersion :
              /\ reads[r][k][1] = i /\ reads[r][k][2] = v
              /\ v <= update[i].version
              /\ v = update[i].version => i \in fresh[r]
<1>1. reads[r][k] \in (0..created) \X (0..MaxVersion)
  BY DEF TrackerInv, TypeOK
<1>2. PICK i \in 0..created, v \in 0..MaxVersion : reads[r][k] = <<i, v>>
  BY <1>1
<1>3. reads[r][k][1] = i /\ reads[r][k][2] = v
  BY <1>2
<1> QED
  BY <1>2, <1>3 DEF TrackerInv, TokensTrackFreshness

LEMMA OneMore ==
    ASSUME NEW m \in Nat, NEW n \in 0..m, NEW v \in 0..m, v <= n
    PROVE  v <= n + 1 /\ v # n + 1
OBVIOUS

\* An invalidation makes every read in flight stale for what it invalidates,
\* and the version makes every token they hold for it a past one.
LEMMA InvalidateInv ==
    ASSUME TrackerInv, TypeOK', NEW ids \in SUBSET Begun,
           NEW modified \in [Begun -> Updates],
           \A i \in Begun : /\ Settles(update[i], modified[i])
                            /\ \A v \in Nat :
                                  Settles(update[i], [modified[i] EXCEPT
                                     !.observed = NoReading, !.version = v]),
           Invalidate(ids, modified)
    PROVE  TrackerInv'
<1>1. UNCHANGED <<created, updates, held>> /\ Begun' = Begun
  BY DEF Invalidate, Begun
<1>2. ASSUME NEW i \in Begun
      PROVE  /\ Settles(update[i], update'[i])
             /\ i \in ids => update'[i].version = update[i].version + 1
             /\ i \notin ids => update'[i].version = update[i].version
  <2>1. update[i] \in Updates /\ modified[i] \in Updates
    BY DEF TrackerInv, TypeOK
  <2>2. update[i].version + 1 \in Nat
    <3>1. update[i].version \in 0..MaxVersion
      BY <2>1 DEF Updates
    <3> QED
      BY <3>1, VersionNat
  <2>3. CASE i \in ids
    <3> DEFINE v == update[i].version + 1
    <3>1. update'[i] = [modified[i] EXCEPT !.observed = NoReading, !.version = v]
      BY <2>3 DEF Invalidate
    <3>2. v \in Nat
      BY <2>2
    <3> HIDE DEF v
    <3>3. Settles(update[i], update'[i])
      BY <3>1, <3>2
    <3>4. update'[i].version = v
      BY <2>1, <3>1 DEF Updates
    <3> QED
      BY <2>3, <3>3, <3>4 DEF v
  <2>4. CASE i \notin ids
    BY <2>4, SettlesSelf DEF Invalidate
  <2> QED
    BY <2>3, <2>4
<1>3. OneOpenPerGroup' /\ TimersMatchPending' /\ HoldersInGroup' /\ RunningIsUnsettled'
  BY <1>1, <1>2, SettlesInv
<1>4. TokensTrackFreshness'
  <2> SUFFICES ASSUME NEW x \in Reads, NEW k \in Keys, reads[x][k][1] \in Begun
               PROVE  /\ reads[x][k][2] <= update'[reads[x][k][1]].version
                      /\ reads[x][k][2] = update'[reads[x][k][1]].version
                            => reads[x][k][1] \in fresh'[x]
    BY <1>1 DEF TokensTrackFreshness, Invalidate
  <2>2. PICK i \in Begun, v \in 0..MaxVersion : /\ reads[x][k][1] = i /\ reads[x][k][2] = v
                                                /\ v <= update[i].version
                                                /\ v = update[i].version => i \in fresh[x]
    BY TokenFacts
  <2>3. v <= update[i].version /\ (v = update[i].version => i \in fresh[x])
    BY <2>2
  <2>4. update[i].version \in 0..MaxVersion
    BY DEF TrackerInv, TypeOK, Updates
  <2>5. fresh'[x] = fresh[x] \ ids
    BY DEF Invalidate
  <2>6. v <= update'[i].version /\ (v = update'[i].version => i \in fresh'[x])
    <3>1. CASE i \in ids
      <4>1. update'[i].version = update[i].version + 1
        BY <1>2, <3>1
      <4> QED
        BY <2>3, <2>4, <4>1, VersionNat, OneMore
    <3>2. CASE i \notin ids
      BY <1>2, <2>3, <2>5, <3>2
    <3> QED
      BY <3>1, <3>2
  <2>7. reads[x][k][1] = i /\ reads[x][k][2] = v
    BY <2>2
  <2> QED
    BY <2>6, <2>7, Zenon
<1> QED
  BY <1>3, <1>4 DEF TrackerInv, NoStaleEvidence, Invalidate

LEMMA SetRequestedInv ==
    ASSUME TrackerInv, TypeOK', NEW i \in Begun, NEW request \in Readings,
           SetRequested(i, request)
    PROVE  TrackerInv'
<1> DEFINE own == updates[update[i].key]
           modified == [update EXCEPT ![own].requested = request]
<1>1. own \in Begun /\ update \in [Begun -> Updates]
  BY DEF SetRequested, TrackerInv, TypeOK, Updates, Begun, None
<1>2. Invalidate({own}, modified)
  BY DEF SetRequested
<1> HIDE DEF own
<1>3. modified \in [Begun -> Updates]
  <2>1. [update[own] EXCEPT !.requested = request] \in Updates
    <3>1. update[own] \in Updates
      BY <1>1
    <3> QED
      BY <3>1 DEF Updates
  <2> QED
    BY <1>1, <2>1
<1>4. ASSUME NEW x \in Begun
      PROVE  /\ Settles(update[x], modified[x])
             /\ \A v \in Nat : Settles(update[x], [modified[x] EXCEPT
                                  !.observed = NoReading, !.version = v])
  <2>1. update[x] \in Updates
    BY <1>1
  <2>2. modified[x] = update[x] \/ modified[x] = [update[x] EXCEPT !.requested = request]
    BY <1>1
  <2> HIDE DEF modified
  <2> QED
    BY <2>1, <2>2 DEF Settles, UnsettledIfRunning, OpenUpdate, Updates
<1> HIDE DEF modified
<1> QED
  BY <1>1, <1>2, <1>3, <1>4, InvalidateInv

LEMMA AcknowledgeInv ==
    ASSUME TrackerInv, TypeOK', NEW i \in Begun, Acknowledge(i)
    PROVE  TrackerInv'
<1>1. update \in [Begun -> Updates] /\ Acknowledged(i) \subseteq Begun
  BY AcknowledgedBegun DEF TrackerInv, TypeOK
<1>2. ASSUME NEW x \in Begun
      PROVE  /\ Settles(update[x], update[x])
             /\ \A v \in Nat : Settles(update[x], [update[x] EXCEPT
                                  !.observed = NoReading, !.version = v])
  <2>1. update[x] \in Updates
    BY <1>1
  <2> QED
    BY <2>1 DEF Settles, UnsettledIfRunning, OpenUpdate, Updates
<1>3. Invalidate(Acknowledged(i), update)
  BY DEF Acknowledge
<1> QED
  BY <1>1, <1>2, <1>3, InvalidateInv

LEMMA DropInv ==
    ASSUME TrackerInv, TypeOK', NEW gone \in SUBSET Keys, Drop(gone)
    PROVE  TrackerInv'
<1> USE DEF TrackerInv
<1>1. UNCHANGED <<created, reads, fresh, tainted>> /\ Begun' = Begun
  BY DEF Drop, Begun
<1>2. ASSUME NEW i \in Begun
      PROVE  /\ update'[i].key = update[i].key
             /\ update'[i].status = update[i].status
             /\ update'[i].submitting = update[i].submitting
             /\ update'[i].running = update[i].running
             /\ update'[i].version = update[i].version
             /\ (\E k \in gone : updates[k] = i) => update'[i].timer = FALSE
             /\ ~(\E k \in gone : updates[k] = i) => update'[i].timer = update[i].timer
  <2>1. update[i] \in Updates
    BY DEF TypeOK
  <2> QED
    BY <2>1 DEF Drop, Updates
<1>3. ASSUME NEW k \in Keys
      PROVE  /\ k \in gone => updates'[k] = None /\ held'[k] = None
             /\ k \notin gone => updates'[k] = updates[k] /\ held'[k] = held[k]
             /\ updates[k] # None => updates[k] \in Begun /\ update[updates[k]].key = k
             /\ held[k] # None => held[k] \in Begun
  BY DEF Drop, TypeOK, Begun, None
<1>4. OneOpenPerGroup'
  <2> SUFFICES ASSUME NEW j \in Keys, NEW k \in Keys, j # k, SameGroup(j, k),
                      updates'[j] # None, updates'[k] # None,
                      Open(updates[j])', Open(updates[k])'
               PROVE  FALSE
    BY DEF OneOpenPerGroup, SameGroup
  <2>1. /\ updates'[j] = updates[j] /\ updates'[k] = updates[k]
        /\ updates[j] # None /\ updates[k] # None
    BY <1>3
  <2>2. \A i \in Begun : /\ update'[i].submitting = update[i].submitting
                         /\ update'[i].status = update[i].status
    BY <1>2
  <2>3. updates[j] \in Begun /\ updates[k] \in Begun
    BY <1>3, <2>1
  <2>4. Open(updates[j]) /\ Open(updates[k])
    BY <2>1, <2>2, <2>3, Zenon DEF Open
  <2> QED
    BY <2>1, <2>4 DEF OneOpenPerGroup
<1>5. TimersMatchPending'
  <2> SUFFICES ASSUME NEW i \in Begun
               PROVE  update'[i].timer <=> /\ updates'[update'[i].key] = i
                                           /\ update'[i].status = "pending"
    BY <1>1 DEF TimersMatchPending
  <2>1. update[i].timer <=> /\ updates[update[i].key] = i
                            /\ update[i].status = "pending"
    BY DEF TimersMatchPending
  <2>2. update[i].key \in Keys /\ i # None
    BY DEF TypeOK, Updates, Begun, None
  <2>3. CASE \E k \in gone : updates[k] = i
    <3>1. PICK k \in gone : updates[k] = i
      BY <2>3
    <3>2. update[i].key = k
      BY <1>3, <2>2, <3>1
    <3>3. update'[i].timer = FALSE /\ update'[i].key = k
      BY <1>2, <2>3, <3>2
    <3>4. updates'[k] = None
      BY <1>3, <3>1
    <3> QED
      BY <2>2, <3>3, <3>4
  <2>4. CASE ~ \E k \in gone : updates[k] = i
    <3>1. updates'[update[i].key] = i <=> updates[update[i].key] = i
      BY <1>3, <2>2, <2>4
    <3>2. update'[i].timer = update[i].timer
      BY <1>2, <2>4
    <3> QED
      BY <1>2, <2>1, <3>1, <3>2
  <2> QED
    BY <2>3, <2>4
<1>6. HoldersInGroup'
  <2> SUFFICES ASSUME NEW k \in Keys, held'[k] # None
               PROVE  /\ GroupOf[k] \in RelatedGroups
                      /\ SameGroup(update'[held'[k]].key, k)
    BY DEF HoldersInGroup, SameGroup
  <2>1. held'[k] = held[k] /\ held[k] # None /\ update'[held[k]].key = update[held[k]].key
    BY <1>2, <1>3
  <2> QED
    BY <2>1 DEF HoldersInGroup
<1>7. TokensTrackFreshness'
  BY <1>1, <1>2 DEF TokensTrackFreshness
<1>8. RunningIsUnsettled'
  BY <1>1, <1>2 DEF RunningIsUnsettled
<1> QED
  BY <1>1, <1>4, <1>5, <1>6, <1>7, <1>8 DEF NoStaleEvidence

\* A command that may begin finds no open update of its group but, for a
\* superseding control, its own.
LEMMA GroupQuiet ==
    ASSUME TrackerInv, NEW k \in Keys,
           GroupOf[k] \in SupersedeGroups \/ ~GroupBusy(k),
           NEW j \in Keys, SameGroup(j, k), updates[j] # None,
           j # k \/ GroupOf[k] \in RelatedGroups
    PROVE  ~Open(updates[j])
<1>1. GroupOf[k] \notin SupersedeGroups
  BY SupersedeAlone
<1> QED
  BY <1>1 DEF GroupBusy

\* What begin does to the updates begun before it.
LEMMA BeginUpdate ==
    ASSUME TrackerInv, NEW k \in Keys, NEW request \in Readings,
           NEW snapshot \in [Keys -> [Fields -> Vals]],
           Begin(k, request, snapshot), NEW i \in Begun
    PROVE  /\ update'[i].key = update[i].key
           /\ update'[i].submitting = update[i].submitting
           /\ update'[i].running = update[i].running
           /\ update'[i].version = update[i].version
           /\ update'[i].status = IF i \in Unresolved(k) THEN "cancelled"
                                  ELSE update[i].status
           /\ update'[i].timer = IF i \in Unresolved(k) \/ i = Owner(k) THEN FALSE
                                 ELSE update[i].timer
<1>1. update[i] \in Updates /\ i \in 1..created + 1 /\ i # created + 1
  BY DEF TrackerInv, TypeOK, Begun
<1>2. update'[i] = IF i \in Unresolved(k) THEN Cancelled(update[i])
                   ELSE IF i = Owner(k) THEN [update[i] EXCEPT !.timer = FALSE]
                   ELSE update[i]
  BY <1>1 DEF Begin
<1> QED
  BY <1>1, <1>2 DEF Cancelled, Updates

LEMMA BeginNew ==
    ASSUME TrackerInv, NEW k \in Keys, NEW request \in Readings,
           NEW snapshot \in [Keys -> [Fields -> Vals]],
           Begin(k, request, snapshot)
    PROVE  /\ created + 1 \notin Begun
           /\ Begun' = Begun \union {created + 1}
           /\ update'[created + 1] = NewUpdate(k, request)
           /\ updates'[k] = created + 1
           /\ \A j \in Keys \ {k} : updates'[j] = updates[j]
           /\ \A j \in Keys : updates[j] # None =>
                 updates[j] \in Begun /\ update[updates[j]].key = j
<1>1. created \in Nat
  BY DEF TrackerInv, TypeOK
<1>2. created + 1 \notin Begun /\ Begun' = Begun \union {created + 1}
  BY <1>1 DEF Begin, Begun
<1>3. update'[created + 1] = NewUpdate(k, request)
  BY <1>1 DEF Begin
<1>4. updates'[k] = created + 1 /\ \A j \in Keys \ {k} : updates'[j] = updates[j]
  BY DEF Begin, TrackerInv, TypeOK
<1>5. \A j \in Keys : updates[j] # None =>
         updates[j] \in Begun /\ update[updates[j]].key = j
  BY DEF TrackerInv, TypeOK, Begun, None
<1> QED
  BY <1>2, <1>3, <1>4, <1>5

LEMMA BeginInv ==
    ASSUME TrackerInv, TypeOK', NEW k \in Keys, NEW request \in Readings,
           NEW snapshot \in [Keys -> [Fields -> Vals]],
           Begin(k, request, snapshot)
    PROVE  TrackerInv'
<1> DEFINE n == created + 1
<1>1. /\ n \notin Begun
      /\ Begun' = Begun \union {n}
      /\ update'[n] = NewUpdate(k, request)
      /\ updates'[k] = n
      /\ \A j \in Keys \ {k} : updates'[j] = updates[j]
      /\ \A j \in Keys : updates[j] # None => updates[j] \in Begun /\ update[updates[j]].key = j
  BY BeginNew
<1>2. ASSUME NEW i \in Begun
      PROVE  /\ update'[i].key = update[i].key
             /\ update'[i].submitting = update[i].submitting
             /\ update'[i].running = update[i].running
             /\ update'[i].version = update[i].version
             /\ update'[i].status = IF i \in Unresolved(k) THEN "cancelled"
                                    ELSE update[i].status
             /\ update'[i].timer = IF i \in Unresolved(k) \/ i = Owner(k) THEN FALSE
                                   ELSE update[i].timer
  BY BeginUpdate
<1>3. ASSUME NEW j \in Keys, SameGroup(j, k), updates[j] # None,
             j # k \/ GroupOf[k] \in RelatedGroups
      PROVE  ~Open(updates[j])
  BY <1>3, GroupQuiet DEF Begin
<1>4. /\ update'[n].key = k /\ update'[n].status = "pending" /\ update'[n].submitting = TRUE
      /\ update'[n].timer = TRUE
  BY <1>1 DEF NewUpdate
<1>5. n # None /\ None \notin Begun
  BY DEF TrackerInv, TypeOK, Begun, None
<1> HIDE DEF n
<1>6. OneOpenPerGroup'
  <2>1. ASSUME NEW j \in Keys, j # k, updates[j] # None, ~Open(updates[j])
        PROVE  ~Open(updates[j])'
    <3>1. updates'[j] = updates[j] /\ updates[j] \in Begun
      BY <1>1, <2>1
    <3> QED
      BY <1>2, <2>1, <3>1 DEF Open
  <2>2. ASSUME NEW j \in Keys, j # k, SameGroup(j, k), updates'[j] # None
        PROVE  ~Open(updates[j])'
    BY <1>1, <1>3, <2>1, <2>2
  <2> SUFFICES ASSUME NEW j \in Keys, NEW l \in Keys, j # l, SameGroup(j, l),
                      updates'[j] # None, updates'[l] # None,
                      Open(updates[j])', Open(updates[l])'
               PROVE  FALSE
    BY DEF OneOpenPerGroup, SameGroup
  <2>3. SameGroup(l, j)
    BY DEF SameGroup
  <2>4. j # k /\ l # k
    BY <2>2, <2>3
  <2>5. updates[j] # None /\ updates[l] # None
    BY <1>1, <2>4
  <2> QED
    BY <2>1, <2>4, <2>5 DEF TrackerInv, OneOpenPerGroup
<1>7. TimersMatchPending'
  <2> SUFFICES ASSUME NEW i \in Begun \union {n}
               PROVE  update'[i].timer <=> /\ updates'[update'[i].key] = i
                                           /\ update'[i].status = "pending"
    BY <1>1 DEF TimersMatchPending
  <2>1. CASE i = n
    BY <1>1, <1>4, <2>1
  <2>2. CASE i \in Begun
    <3> DEFINE key == update[i].key
    <3>1. /\ key \in Keys /\ update'[i].key = key
          /\ update[i].timer <=> updates[key] = i /\ update[i].status = "pending"
      BY <1>2, <2>2 DEF TrackerInv, TypeOK, Updates, TimersMatchPending
    <3> HIDE DEF key
    <3>2. ASSUME SameGroup(key, k), updates[key] = i, GroupOf[k] \in RelatedGroups
          PROVE  update[i].status # "pending"
      BY <1>3, <1>5, <2>2, <3>1, <3>2 DEF Open
    <3>3. held[k] # None => /\ GroupOf[k] \in RelatedGroups
                            /\ held[k] = i => SameGroup(key, k)
      BY DEF TrackerInv, HoldersInGroup, key
    <3>4. CASE key = k
      <4>1. updates'[key] # i
        BY <1>1, <2>2, <3>4
      <4>2. update'[i].timer = FALSE
        <5>1. CASE updates[k] = i /\ held[k] = None
          <6>1. i = Owner(k)
            BY <5>1 DEF Owner
          <6> QED
            BY <1>2, <2>2, <6>1
        <5>2. CASE updates[k] = i /\ held[k] # None
          <6>1. update[i].timer = FALSE
            BY <2>2, <3>1, <3>2, <3>3, <3>4, <5>2
               DEF SameGroup, TrackerInv, TypeOK, Updates
          <6> QED
            BY <1>2, <2>2, <6>1
        <5>3. CASE updates[k] # i
          <6>1. update[i].timer = FALSE
            BY <2>2, <3>1, <3>4, <5>3 DEF TrackerInv, TypeOK, Updates
          <6> QED
            BY <1>2, <2>2, <6>1
        <5> QED
          BY <5>1, <5>2, <5>3
      <4> QED
        BY <3>1, <4>1, <4>2
    <3>5. CASE key # k
      <4>1. updates'[key] = updates[key]
        BY <1>1, <3>1, <3>5
      <4>2. CASE i \in Unresolved(k)
        BY <1>2, <2>2, <4>2
      <4>3. CASE i \notin Unresolved(k) /\ i = Owner(k)
        <5>1. held[k] = i
          <6>1. updates[k] # i
            BY <1>1, <1>5, <2>2, <3>5 DEF key
          <6> QED
            BY <4>3, <6>1 DEF Owner
        <5>2. ~(updates[key] = i /\ update[i].status = "pending")
          BY <1>5, <2>2, <3>2, <3>3, <5>1
        <5> QED
          BY <1>2, <2>2, <3>1, <4>1, <4>3, <5>2
      <4>4. CASE i \notin Unresolved(k) /\ i # Owner(k)
        BY <1>2, <2>2, <3>1, <4>1, <4>4
      <4> QED
        BY <4>2, <4>3, <4>4
    <3> QED
      BY <3>4, <3>5
  <2> QED
    BY <2>1, <2>2
<1>8. HoldersInGroup'
  <2> SUFFICES ASSUME NEW j \in Keys, held'[j] # None
               PROVE  /\ GroupOf[j] \in RelatedGroups
                      /\ SameGroup(update'[held'[j]].key, j)
    BY DEF HoldersInGroup, SameGroup
  <2>1. CASE j \in RelatedKeys(k)
    <3>1. held'[j] = n
      BY <2>1 DEF Begin, n
    <3> QED
      BY <1>4, <2>1, <3>1 DEF RelatedKeys, SameGroup
  <2>2. CASE j \notin RelatedKeys(k)
    <3>1. held'[j] = held[j] /\ held[j] # None
      BY <2>2 DEF Begin
    <3>2. held[j] \in Begun
      BY <3>1 DEF TrackerInv, TypeOK, Begun, None
    <3> QED
      BY <1>2, <3>1, <3>2 DEF TrackerInv, HoldersInGroup
  <2> QED
    BY <2>1, <2>2
<1>9. TokensTrackFreshness'
  <2> SUFFICES ASSUME NEW r \in Reads, NEW j \in Keys, reads[r][j][1] \in Begun \union {n}
               PROVE  /\ reads[r][j][2] <= update'[reads[r][j][1]].version
                      /\ reads[r][j][2] = update'[reads[r][j][1]].version
                            => reads[r][j][1] \in fresh[r]
    BY <1>1 DEF TokensTrackFreshness, Begin
  <2>1. reads[r][j][1] # n
    <3>1. reads[r][j] \in (0..created) \X (0..MaxVersion) /\ created \in Nat
      BY DEF TrackerInv, TypeOK
    <3> QED
      BY <3>1 DEF n
  <2> QED
    BY <1>2, <2>1 DEF TrackerInv, TokensTrackFreshness
<1>10. RunningIsUnsettled'
  <2> SUFFICES ASSUME NEW i \in Begun \union {n}, update'[i].running
               PROVE  /\ update'[i].status # "confirmed"
                      /\ update'[i].submitting \/ update'[i].status = "cancelled"
    BY <1>1 DEF RunningIsUnsettled
  <2>1. CASE i = n
    BY <1>4, <2>1
  <2>2. CASE i \in Begun
    <3>1. /\ update[i].status # "confirmed"
          /\ update[i].submitting \/ update[i].status = "cancelled"
      BY <1>2, <2>2 DEF TrackerInv, RunningIsUnsettled
    <3> QED
      BY <1>2, <2>2, <3>1
  <2> QED
    BY <2>1, <2>2
<1>11. NoStaleEvidence'
  BY DEF Begin, TrackerInv, NoStaleEvidence
<1> QED
  BY <1>6, <1>7, <1>8, <1>9, <1>10, <1>11 DEF TrackerInv

LEMMA TrackerStep == TrackerInv /\ [Next]_vars => TrackerInv'
<1> SUFFICES ASSUME TrackerInv, [Next]_vars PROVE TrackerInv'
  OBVIOUS
<1>0. TypeOK'
  BY TypeStep DEF TrackerInv
<1>1. ASSUME NEW k \in Keys, NEW request \in Readings \ {NoReading},
             NEW snapshot \in [Keys -> [Fields -> Vals]], Begin(k, request, snapshot)
      PROVE  TrackerInv'
  BY <1>0, <1>1, BeginInv
<1>2. ASSUME NEW i \in Begun, NEW failed \in BOOLEAN, Finish(i, failed)
      PROVE  TrackerInv'
  <2>1. UNCHANGED <<created, updates, held, reads, fresh, tainted>>
    BY <1>2 DEF Finish
  <2> QED
    BY <1>0, <1>2, <2>1, FinishSettles, InPlaceStep
<1>3. ASSUME NEW i \in Begun, NEW request \in Readings, SetRequested(i, request)
      PROVE  TrackerInv'
  BY <1>0, <1>3, SetRequestedInv
<1>4. ASSUME NEW i \in Begun, Acknowledge(i) PROVE TrackerInv'
  BY <1>0, <1>4, AcknowledgeInv
<1>5. ASSUME NEW i \in Begun, Expire(i) PROVE TrackerInv'
  <2>1. UNCHANGED <<created, updates, held, reads, fresh, tainted>>
    BY <1>5 DEF Expire
  <2> QED
    BY <1>0, <1>5, <2>1, ExpireSettles, InPlaceStep
<1>6. ASSUME NEW r \in Reads, StartRead(r) PROVE TrackerInv'
  BY <1>0, <1>6, StartReadInv
<1>7. ASSUME NEW r \in Reads, NEW report \in [Keys -> Readings], EndRead(r, report)
      PROVE  TrackerInv'
  BY <1>0, <1>7, EndReadInv
<1>8. ASSUME NEW k \in Keys, CancelGroup(k) PROVE TrackerInv'
  <2>1. UNCHANGED <<created, updates, held, reads, fresh, tainted>>
    BY <1>8 DEF CancelGroup
  <2> QED
    BY <1>0, <1>8, <2>1, CancelGroupSettles, InPlaceStep
<1>9. ASSUME NEW s \in Serials, Prune(s) PROVE TrackerInv'
  BY <1>0, <1>9, DropInv DEF Prune
<1>10. CASE Cleanup
  BY <1>0, <1>10, DropInv DEF Cleanup
<1>11. CASE UNCHANGED vars
  <2>1. UNCHANGED <<created, update, updates, held, reads, fresh, tainted>>
    BY <1>11 DEF vars
  <2> QED
    BY <1>0, <2>1, SettlesSelf, InPlaceStep
<1> QED
  BY <1>1, <1>2, <1>3, <1>4, <1>5, <1>6, <1>7, <1>8, <1>9, <1>10, <1>11 DEF Next

\* The inductive invariant of the tracker.
THEOREM TrackerInvariant == Spec => []TrackerInv
<1> QED
  BY InitInv, TrackerStep, PTL DEF Spec

\* At most one command of a control group of a device is open (begin's guard).
THEOREM Exclusion == Spec => []OneOpenPerGroup
<1>1. TrackerInv => OneOpenPerGroup
  BY DEF TrackerInv
<1> QED
  BY <1>1, TrackerInvariant, PTL

\* The confirmation timers armed are those of the tracked pending updates.
THEOREM TimersExact == Spec => []TimersMatchPending
<1>1. TrackerInv => TimersMatchPending
  BY DEF TrackerInv
<1> QED
  BY <1>1, TrackerInvariant, PTL

\* No read that was in flight when a command began, or when it was last
\* acknowledged, contributes to what confirms the command (read_tokens, observe).
THEOREM EvidenceIsFresh == Spec => []NoStaleEvidence
<1>1. TrackerInv => NoStaleEvidence
  BY DEF TrackerInv
<1> QED
  BY <1>1, TrackerInvariant, PTL

-----------------------------------------------------------------------------
LEMMA ConfirmedStep ==
    ASSUME TrackerInv, TypeOK', [Next]_vars, NEW i \in Begun, update[i].status = "confirmed"
    PROVE  update'[i].status \in {"confirmed", "cancelled"}
<1> USE DEF TrackerInv
<1>1. update[i] \in Updates /\ ~update[i].running /\ ~update[i].timer
  BY DEF TypeOK, Updates, RunningIsUnsettled, TimersMatchPending
<1>2. ASSUME NEW k \in Keys, NEW request \in Readings \ {NoReading},
             NEW snapshot \in [Keys -> [Fields -> Vals]], Begin(k, request, snapshot)
      PROVE  update'[i].status \in {"confirmed", "cancelled"}
  BY <1>2, BeginUpdate
<1>3. ASSUME NEW x \in Begun, NEW failed \in BOOLEAN, Finish(x, failed)
      PROVE  update'[i].status \in {"confirmed", "cancelled"}
  <2>1. x # i
    BY <1>1, <1>3 DEF Finish
  <2> QED
    BY <1>3, <2>1 DEF Finish
<1>4. ASSUME NEW ids \in SUBSET Begun, NEW modified, Invalidate(ids, modified),
             modified[i] \in Updates, modified[i].status = update[i].status
      PROVE  update'[i].status \in {"confirmed", "cancelled"}
  BY <1>4 DEF Invalidate, Updates
<1>5. ASSUME NEW x \in Begun, NEW request \in Readings, SetRequested(x, request)
      PROVE  update'[i].status \in {"confirmed", "cancelled"}
  <2> DEFINE own == updates[update[x].key]
             modified == [update EXCEPT ![own].requested = request]
  <2>1. own \in Begun /\ Invalidate({own}, modified)
    BY <1>5 DEF SetRequested, TypeOK, Updates, Begun, None
  <2> HIDE DEF own
  <2>2. modified[i] = update[i] \/ modified[i] = [update[i] EXCEPT !.requested = request]
    BY DEF TypeOK
  <2> HIDE DEF modified
  <2>3. modified[i] \in Updates /\ modified[i].status = update[i].status
    BY <1>1, <2>2 DEF Updates
  <2> QED
    BY <1>4, <2>1, <2>3
<1>6. ASSUME NEW x \in Begun, Acknowledge(x)
      PROVE  update'[i].status \in {"confirmed", "cancelled"}
  BY <1>1, <1>4, <1>6, AcknowledgedBegun DEF Acknowledge
<1>7. ASSUME NEW x \in Begun, Expire(x)
      PROVE  update'[i].status \in {"confirmed", "cancelled"}
  <2>1. x # i
    BY <1>1, <1>7 DEF Expire
  <2> QED
    BY <1>7, <2>1 DEF Expire
<1>8. ASSUME NEW r \in Reads, StartRead(r)
      PROVE  update'[i].status \in {"confirmed", "cancelled"}
  BY <1>8 DEF StartRead
<1>9. ASSUME NEW r \in Reads, NEW report \in [Keys -> Readings], EndRead(r, report)
      PROVE  update'[i].status \in {"confirmed", "cancelled"}
  <2>1. \A reported : Observed(update[i], reported).status = "confirmed"
    BY <1>1 DEF Observed, Confirmed, Updates
  <2> QED
    BY <1>9, <2>1, EndReadUpdate
<1>10. ASSUME NEW k \in Keys, CancelGroup(k)
      PROVE  update'[i].status \in {"confirmed", "cancelled"}
  BY <1>1, <1>10 DEF CancelGroup, Cancelled, Updates
<1>11. ASSUME NEW gone, Drop(gone)
      PROVE  update'[i].status \in {"confirmed", "cancelled"}
  BY <1>1, <1>11 DEF Drop, Updates
<1>12. CASE UNCHANGED vars
  BY <1>12 DEF vars
<1> QED
  BY <1>2, <1>3, <1>5, <1>6, <1>7, <1>8, <1>9, <1>10, <1>11, <1>12
     DEF Next, Prune, Cleanup

\* A confirmed command is never reported failed, unconfirmed or pending later.
THEOREM ConfirmedFinal == Spec => ConfirmedIsFinal
<1>1. TrackerInv /\ TrackerInv' /\ [Next]_vars
         => [\A i \in Begun : update[i].status = "confirmed"
                => update'[i].status \in {"confirmed", "cancelled"}]_vars
  BY ConfirmedStep DEF TrackerInv
<1> QED
  BY <1>1, TrackerInvariant, PTL DEF Spec, ConfirmedIsFinal

LEMMA FrozenStep ==
    ASSUME TrackerInv, [Next]_vars, NEW k \in Keys, Frozen(k), values'[k] # values[k]
    PROVE  \/ \E r \in reading \ reading' : Owner(k) \in fresh[r]
           \/ updates'[k] = None /\ values'[k] = NoReading
<1>1. ASSUME NEW j \in Keys, NEW request \in Readings \ {NoReading},
             NEW snapshot \in [Keys -> [Fields -> Vals]], Begin(j, request, snapshot)
      PROVE  FALSE
  <2>1. ~SnapshotDue(k)
    BY DEF Frozen, SnapshotDue
  <2> QED
    BY <1>1, <2>1 DEF Begin
<1>2. ASSUME NEW r \in Reads, NEW report \in [Keys -> Readings], EndRead(r, report)
      PROVE  \E x \in reading \ reading' : Owner(k) \in fresh[x]
  <2>1. k \in Accepted(r, report)
    BY <1>2 DEF EndRead
  <2>2. Owner(k) \in fresh[r]
    BY <2>1, TokenMeansFresh DEF Accepted, Frozen
  <2>3. r \in reading \ reading'
    BY <1>2 DEF EndRead
  <2> QED
    BY <2>2, <2>3
<1>3. ASSUME NEW gone \in SUBSET Keys, Drop(gone)
      PROVE  updates'[k] = None /\ values'[k] = NoReading
  BY <1>3 DEF Drop
<1>4. ASSUME UNCHANGED values PROVE FALSE
  BY <1>4
<1> QED
  BY <1>1, <1>2, <1>3, <1>4
     DEF Next, vars, Finish, SetRequested, Acknowledge, Invalidate, Expire, StartRead,
         CancelGroup, Prune, Cleanup

\* While a command of its group is unresolved, the value shown for a control
\* only moves with a read that is fresh for that command.
THEOREM FrozenValues == Spec => FrozenValueNeedsFreshRead
<1>1. TrackerInv /\ [Next]_vars
         => [\A k \in Keys :
                Frozen(k) /\ values'[k] # values[k]
                    => \/ \E r \in reading \ reading' : Owner(k) \in fresh[r]
                       \/ updates'[k] = None /\ values'[k] = NoReading]_vars
  BY FrozenStep
<1> QED
  BY <1>1, TrackerInvariant, PTL DEF Spec, FrozenValueNeedsFreshRead
-----------------------------------------------------------------------------
\* The tracker implements its promise.

LEMMA PeersAre ==
    ASSUME NEW k \in Keys
    PROVE  Promise!Peers(k) = {j \in Keys : SameGroup(j, k)}
BY DEF Promise!Peers, SameGroup

LEMMA TrackedAre ==
    ASSUME TypeOK
    PROVE  /\ Promise!Tracked = {updates[k] : k \in Keys} \ {None}
           /\ Promise!Tracked \subseteq Begun
           /\ \A i \in Begun : updates[update[i].key] = i => i \in Promise!Tracked
           /\ \A k \in Keys : updates[k] # None => updates[k] \in Promise!Tracked
BY DEF Promise!Tracked, TypeOK, Updates, Begun, None

\* What was asked for and what was read decide whether a command is met.
LEMMA MetBySame ==
    ASSUME NEW u, NEW v, v.requested = u.requested, v.observed = u.observed
    PROVE  Matches(v) = Matches(u)
BY DEF Matches

\* Nothing read meets no request.
LEMMA UnreadIsUnmet ==
    ASSUME NEW u, u.requested \in Readings, u.observed = NoReading
    PROVE  Matches(u) = FALSE
<1>1. CASE u.requested = NoReading
  BY <1>1 DEF Matches
<1>2. CASE u.requested # NoReading
  <2>1. PICK f \in Fields : u.requested[f] # Unset
    BY <1>2 DEF Readings, NoReading
  <2>2. u.observed[f] = Unset
    BY DEF NoReading
  <2> QED
    BY <2>1, <2>2 DEF Matches
<1> QED
  BY <1>1, <1>2

LEMMA StandingKept ==
    ASSUME NEW i, update'[i].status = update[i].status,
           update'[i].submitting = update[i].submitting,
           update'[i].requested = update[i].requested,
           update'[i].observed = update[i].observed
    PROVE  Standing(i)' = Standing(i)
BY MetBySame DEF Standing

\* A step that moves only timers and coroutines is none of the promise's.
LEMMA PromiseKept ==
    ASSUME UNCHANGED <<created, updates, held, values, fresh>>,
           \A i \in Begun : Standing(i)' = Standing(i)
    PROVE  UNCHANGED Promise!vars
<1>1. Begun' = Begun
  BY DEF Begun
<1>2. [i \in Begun |-> Standing(i)]' = [i \in Begun |-> Standing(i)]
  BY <1>1
<1>3. [k \in Keys |-> Owner(k)]' = [k \in Keys |-> Owner(k)]
  BY DEF Owner
<1> QED
  BY <1>2, <1>3 DEF Promise!vars

\* The control shows what another command of its group has left, or its own.
LinkedAreHeld ==
    \A k \in Keys : GroupOf[k] \in RelatedGroups /\ held[k] = None => updates[k] = None

LEMMA LinkedAreHeldStep ==
    ASSUME TypeOK, LinkedAreHeld, [Next]_vars
    PROVE  LinkedAreHeld'
<1>1. ASSUME NEW k \in Keys, NEW request \in Readings \ {NoReading},
             NEW snapshot \in [Keys -> [Fields -> Vals]], Begin(k, request, snapshot)
      PROVE  LinkedAreHeld'
  <2> SUFFICES ASSUME NEW j \in Keys, GroupOf[j] \in RelatedGroups, held'[j] = None
               PROVE  updates'[j] = None
    BY DEF LinkedAreHeld
  <2>1. created + 1 # None
    BY DEF TypeOK, None
  <2>2. j \notin RelatedKeys(k)
    BY <1>1, <2>1 DEF Begin
  <2>3. j # k
    BY <2>2 DEF RelatedKeys, SameGroup
  <2>4. held'[j] = held[j] /\ updates'[j] = updates[j]
    BY <1>1, <2>2, <2>3 DEF Begin, TypeOK
  <2> QED
    BY <2>4 DEF LinkedAreHeld
<1>2. ASSUME NEW gone, Drop(gone)
      PROVE  LinkedAreHeld'
  BY <1>2 DEF Drop, LinkedAreHeld
<1>3. ASSUME UNCHANGED <<held, updates>>
      PROVE  LinkedAreHeld'
  BY <1>3 DEF LinkedAreHeld
<1> QED
  BY <1>1, <1>2, <1>3
     DEF Next, vars, Finish, SetRequested, Acknowledge, Invalidate, Expire, StartRead,
         EndRead, CancelGroup, Prune, Cleanup

LEMMA LinkedHeld == Spec => []LinkedAreHeld
<1>1. Init => LinkedAreHeld
  BY DEF Init, LinkedAreHeld
<1> QED
  BY <1>1, LinkedAreHeldStep, Typing, PTL DEF Spec

LEMMA PromiseInit == Init => Promise!Init
<1> SUFFICES ASSUME Init PROVE Promise!Init
  OBVIOUS
<1>1. Begun = {}
  BY DEF Init, Begun
<1>2. [i \in Begun |-> Standing(i)] = <<>>
  BY <1>1
<1>3. [k \in Keys |-> Owner(k)] = [k \in Keys |-> None]
  BY DEF Init, Owner
<1> QED
  BY <1>2, <1>3 DEF Init, Promise!Init

LEMMA StandingEdits ==
    ASSUME NEW i, NEW status, NEW met
    PROVE  /\ [Standing(i) EXCEPT !.met = met] =
                 [status |-> update[i].status, sending |-> update[i].submitting, met |-> met]
           /\ [Standing(i) EXCEPT !.status = status] =
                 [status |-> status, sending |-> update[i].submitting,
                  met |-> Matches(update[i])]
<1> DEFINE a == update[i].status
           b == update[i].submitting
           c == Matches(update[i])
           s == Standing(i)
<1>1. s = [status |-> a, sending |-> b, met |-> c]
  BY Zenon DEF Standing
<1> HIDE DEF a, b, c, s
<1>2. [s EXCEPT !.met = met] = [status |-> a, sending |-> b, met |-> met]
  BY <1>1
<1>3. [s EXCEPT !.status = status] = [status |-> status, sending |-> b, met |-> c]
  BY <1>1
<1> QED
  BY <1>2, <1>3, Zenon DEF a, b, c, s

LEMMA EndStep ==
    ASSUME TrackerInv, NEW i \in Begun, NEW failed \in BOOLEAN, Finish(i, failed)
    PROVE  Promise!Next \/ UNCHANGED Promise!vars
<1> USE DEF TrackerInv
<1>1. update[i] \in Updates /\ UNCHANGED <<created, updates, held, values, fresh>>
  BY DEF Finish, TypeOK
<1>2. \A x \in Begun \ {i} : Standing(x)' = Standing(x)
  BY StandingKept DEF Finish
<1>3. CASE updates[update[i].key] = i
  <2>1. update'[i] = Finished(update[i], failed)
    BY <1>3 DEF Finish, TypeOK
  <2>2. update'[i].requested = update[i].requested /\ update'[i].observed = update[i].observed
    BY <1>1, <2>1 DEF Finished, Confirmed, Updates
  <2>3. Matches(update'[i]) = Matches(update[i])
    BY <2>2, MetBySame
  <2>4. /\ update'[i].submitting = FALSE
        /\ update'[i].status \in {"failed", IF Matches(update[i]) THEN "confirmed"
                                            ELSE update[i].status}
    BY <1>1, <2>1 DEF Finished, Confirmed, Updates
  <2>5. /\ update[i].status # "confirmed"
        /\ update[i].submitting \/ update[i].status = "cancelled"
    BY DEF Finish, RunningIsUnsettled
  <2> DEFINE before == [x \in Begun |-> Standing(x)]
  <2>6. before' = [before EXCEPT ![i] = [status |-> update'[i].status, sending |-> FALSE,
                                         met |-> Matches(update[i])]]
    <3>1. Begun' = Begun
      BY <1>1 DEF Begun
    <3>2. Standing(i)' = [status |-> update'[i].status, sending |-> FALSE,
                          met |-> Matches(update[i])]
      BY <2>3, <2>4, Zenon DEF Standing
    <3> QED
      BY <1>2, <3>1, <3>2
  <2>7. /\ before[i].status = update[i].status /\ before[i].sending = update[i].submitting
        /\ before[i].met = Matches(update[i])
    BY DEF Standing
  <2>8. [k \in Keys |-> Owner(k)]' = [k \in Keys |-> Owner(k)]
    BY <1>1 DEF Owner
  <2>9. Promise!End(i)
    BY <1>1, <2>4, <2>5, <2>6, <2>7, <2>8 DEF Promise!End
  <2> QED
    BY <1>3, <2>9, TrackedAre DEF Promise!Next
<1>4. CASE updates[update[i].key] # i
  <2>1. Standing(i)' = Standing(i)
    <3>1. update'[i] = [update[i] EXCEPT !.running = FALSE]
      BY <1>4 DEF Finish, TypeOK
    <3> QED
      BY <1>1, <3>1, StandingKept DEF Updates
  <2> QED
    BY <1>1, <1>2, <2>1, PromiseKept
<1> QED
  BY <1>3, <1>4

LEMMA GiveUpStep ==
    ASSUME TrackerInv, NEW i \in Begun, Expire(i)
    PROVE  Promise!Next
<1> USE DEF TrackerInv
<1>1. update[i] \in Updates /\ UNCHANGED <<created, updates, held, values, fresh>>
  BY DEF Expire, TypeOK
<1>2. updates[update[i].key] = i /\ update[i].status = "pending"
  BY DEF Expire, TimersMatchPending
<1>3. update'[i] = [update[i] EXCEPT !.status = "unconfirmed", !.timer = FALSE]
  BY <1>2 DEF Expire, TypeOK
<1>4. \A x \in Begun \ {i} : Standing(x)' = Standing(x)
  BY StandingKept DEF Expire
<1> DEFINE before == [x \in Begun |-> Standing(x)]
<1>5. before' = [before EXCEPT ![i].status = "unconfirmed"]
  <2>1. Begun' = Begun
    BY <1>1 DEF Begun
  <2>2. Matches(update'[i]) = Matches(update[i])
    BY <1>1, <1>3, MetBySame DEF Updates
  <2>3. Standing(i)' = [Standing(i) EXCEPT !.status = "unconfirmed"]
    BY <1>1, <1>3, <2>2 DEF Standing, Updates
  <2> QED
    BY <1>4, <2>1, <2>3
<1>6. before[i].status = "pending"
  BY <1>2 DEF Standing
<1>7. [k \in Keys |-> Owner(k)]' = [k \in Keys |-> Owner(k)]
  BY <1>1 DEF Owner
<1>8. Promise!GiveUp(i)
  BY <1>1, <1>5, <1>6, <1>7 DEF Promise!GiveUp
<1> QED
  BY <1>2, <1>8, TrackedAre DEF Promise!Next

\* set_requested and acknowledgements: what has been read says nothing any more.
LEMMA ChangeStep ==
    ASSUME TypeOK, NEW ids \in SUBSET Promise!Tracked, NEW modified,
           Invalidate(ids, modified),
           \A i \in ids : /\ modified[i] \in Updates
                          /\ modified[i].status = update[i].status
                          /\ modified[i].submitting = update[i].submitting
    PROVE  Promise!Change
<1>1. Begun' = Begun /\ UNCHANGED <<created, updates, held, values>>
  BY DEF Invalidate, Begun
<1>2. ids \subseteq Begun
  BY TrackedAre
<1>3. ASSUME NEW i \in ids
      PROVE  Standing(i)' = [Standing(i) EXCEPT !.met = FALSE]
  <2>1. update'[i] = [modified[i] EXCEPT !.observed = NoReading,
                                         !.version = update[i].version + 1]
    BY <1>2 DEF Invalidate
  <2>2. /\ update'[i].status = update[i].status /\ update'[i].submitting = update[i].submitting
        /\ update'[i].requested \in Readings /\ update'[i].observed = NoReading
    BY <2>1 DEF Updates
  <2>3. Matches(update'[i]) = FALSE
    BY <2>2, UnreadIsUnmet
  <2>4. Standing(i)' = [status |-> update[i].status, sending |-> update[i].submitting,
                        met |-> FALSE]
    BY <2>2, <2>3, Zenon DEF Standing
  <2> QED
    BY <2>4, StandingEdits, Zenon
<1>4. ASSUME NEW i \in Begun \ ids
      PROVE  Standing(i)' = Standing(i)
  BY StandingKept DEF Invalidate
<1> DEFINE before == [x \in Begun |-> Standing(x)]
<1>5. before' = [x \in Begun |-> IF x \in ids THEN [before[x] EXCEPT !.met = FALSE]
                                 ELSE before[x]]
  BY <1>1, <1>2, <1>3, <1>4
<1>6. DOMAIN before = Begun
  OBVIOUS
<1>7. [k \in Keys |-> Owner(k)]' = [k \in Keys |-> Owner(k)]
  BY <1>1 DEF Owner
<1>8. fresh' = [r \in Reads |-> fresh[r] \ ids]
  BY DEF Invalidate
<1> QED
  BY <1>1, <1>5, <1>6, <1>7, <1>8 DEF Promise!Change

LEMMA SetRequestedStep ==
    ASSUME TypeOK, NEW i \in Begun, NEW request \in Readings, SetRequested(i, request)
    PROVE  Promise!Next
<1> DEFINE own == updates[update[i].key]
           modified == [update EXCEPT ![own].requested = request]
<1>1. own \in Promise!Tracked /\ own \in Begun
  BY TrackedAre DEF SetRequested, TypeOK, Updates, Begun
<1>2. Invalidate({own}, modified)
  BY DEF SetRequested
<1>3. /\ modified[own] \in Updates
      /\ modified[own].status = update[own].status
      /\ modified[own].submitting = update[own].submitting
  <2>1. update[own] \in Updates /\ modified[own] = [update[own] EXCEPT !.requested = request]
    BY <1>1 DEF TypeOK
  <2> QED
    BY <2>1 DEF Updates
<1> HIDE DEF own, modified
<1> QED
  BY <1>1, <1>2, <1>3, ChangeStep DEF Promise!Next

LEMMA AcknowledgeStep ==
    ASSUME TypeOK, NEW i \in Begun, Acknowledge(i)
    PROVE  Promise!Next
<1>1. Acknowledged(i) \subseteq Promise!Tracked
  BY TrackedAre DEF Acknowledged, TypeOK, Updates, Begun
<1>2. \A x \in Acknowledged(i) : update[x] \in Updates
  BY <1>1, TrackedAre DEF TypeOK
<1> QED
  BY <1>1, <1>2, ChangeStep DEF Acknowledge, Promise!Next

LEMMA AskStep ==
    ASSUME TypeOK, NEW r \in Reads, StartRead(r)
    PROVE  Promise!Next
<1>1. Begun' = Begun /\ UNCHANGED <<created, update, updates, held, values>>
  BY DEF StartRead, Begun
<1>2. [x \in Begun |-> Standing(x)]' = [x \in Begun |-> Standing(x)]
  BY <1>1 DEF Standing, Matches
<1>3. [k \in Keys |-> Owner(k)]' = [k \in Keys |-> Owner(k)]
  BY <1>1 DEF Owner
<1>4. fresh' = [fresh EXCEPT ![r] = DOMAIN [x \in Begun |-> Standing(x)]]
  BY DEF StartRead
<1>5. Promise!Ask(r)
  BY <1>1, <1>2, <1>3, <1>4 DEF Promise!Ask
<1> QED
  BY <1>5 DEF Promise!Next

\* A read that ends tells only of commands that have its token, which it is fresh for.
LEMMA AnswerStep ==
    ASSUME TrackerInv, TypeOK', NEW r \in Reads, NEW report \in [Keys -> Readings],
           EndRead(r, report)
    PROVE  Promise!Next
<1> USE DEF TrackerInv
<1> DEFINE told == {updates[k] : k \in Observing(r, report)}
           met == {i \in told : Matches(update'[i])}
           before == [i \in Begun |-> Standing(i)]
<1>1. Begun' = Begun /\ UNCHANGED <<created, updates, held>>
  BY DEF EndRead, Begun
<1>2. ASSUME NEW k \in Observing(r, report)
      PROVE  /\ k \in Keys /\ updates[k] \in Begun /\ updates[k] \in fresh[r]
             /\ updates[k] \in Promise!Tracked
             /\ update[updates[k]].status \notin {"failed", "cancelled"}
             /\ update'[updates[k]] = Observed(update[updates[k]], report[k])
  <2>1. /\ k \in Keys /\ updates[k] \in Begun
        /\ (CHOOSE j \in Observing(r, report) : updates[j] = updates[k]) = k
    BY ChosenReport
  <2>2. Owner(k) # None /\ Owner(k) = updates[k] /\ Token(Owner(k)) = reads[r][k]
    BY DEF Observing, Accepted
  <2>3. updates[k] \in fresh[r]
    BY <2>1, <2>2, TokenMeansFresh
  <2>4. updates[k] \in Promise!Tracked
    BY <2>1, <2>2, TrackedAre
  <2>5. update'[updates[k]] = Observed(update[updates[k]], report[k])
    BY <2>1 DEF EndRead
  <2> QED
    BY <2>1, <2>3, <2>4, <2>5 DEF Observing
<1>3. told \in SUBSET {i \in fresh[r] \intersect Promise!Tracked :
                          before[i].status \notin {"failed", "cancelled"}}
  BY <1>2 DEF Standing
<1>4. ASSUME NEW i \in told
      PROVE  Standing(i)' = [status |-> IF Matches(update'[i]) /\ ~update[i].submitting
                                        THEN "confirmed" ELSE update[i].status,
                             sending |-> update[i].submitting,
                             met |-> Matches(update'[i])]
  <2>1. PICK k \in Observing(r, report) :
           i = updates[k] /\ update'[i] = Observed(update[i], report[k])
    BY <1>2
  <2>2. update[i] \in Updates /\ i \in Begun
    BY <1>2, <2>1 DEF TypeOK
  <2> DEFINE merged == Merge(update[i].observed, report[k])
             seen == [update[i] EXCEPT !.observed = merged]
  <2>3. merged \in Readings
    BY <1>2, <2>1, <2>2, ReadingsOfMerge DEF Updates
  <2> HIDE DEF merged
  <2>4. seen \in Updates /\ seen.status = update[i].status
        /\ seen.submitting = update[i].submitting
    BY <2>2, <2>3 DEF Updates
  <2>5. update'[i] = IF ~update[i].submitting /\ Matches(seen) THEN Confirmed(seen) ELSE seen
    BY <2>1, <2>2 DEF Observed, merged, Updates
  <2> HIDE DEF seen
  <2>6. /\ Confirmed(seen).requested = seen.requested /\ Confirmed(seen).observed = seen.observed
        /\ Confirmed(seen).status = "confirmed"
        /\ Confirmed(seen).submitting = seen.submitting
    BY <2>4 DEF Confirmed, Updates
  <2>7. Matches(Confirmed(seen)) = Matches(seen)
    BY <2>6, MetBySame
  <2>8. Matches(update'[i]) = Matches(seen)
    BY <2>5, <2>7, Zenon
  <2>9. /\ update'[i].submitting = update[i].submitting
        /\ update'[i].status = IF Matches(update'[i]) /\ ~update[i].submitting
                               THEN "confirmed" ELSE update[i].status
    BY <2>4, <2>5, <2>6, <2>8
  <2> QED
    BY <2>9, Zenon DEF Standing
<1>5. ASSUME NEW i \in Begun \ told
      PROVE  Standing(i)' = Standing(i)
  <2>1. update'[i] = update[i]
    BY EndReadUpdate
  <2> QED
    BY <2>1, StandingKept
<1>6. told \subseteq Begun /\ met \in SUBSET told
  BY <1>2
<1>7. before' = [i \in DOMAIN before |->
                   IF i \in told
                   THEN [status |-> IF i \in met /\ ~before[i].sending
                                    THEN "confirmed" ELSE before[i].status,
                         sending |-> before[i].sending,
                         met |-> i \in met]
                   ELSE before[i]]
  <2>1. ASSUME NEW i \in told
        PROVE  /\ (i \in met) = Matches(update'[i])
               /\ before[i].sending = update[i].submitting
               /\ before[i].status = update[i].status
    <3>1. Matches(update'[i]) \in BOOLEAN
      BY Zenon DEF Matches
    <3>2. (i \in met) = Matches(update'[i])
      <4>1. i \in met <=> Matches(update'[i])
        OBVIOUS
      <4> QED
        BY <3>1, <4>1
    <3>3. before[i].sending = update[i].submitting /\ before[i].status = update[i].status
      BY <1>6 DEF Standing
    <3> QED
      BY <3>2, <3>3, Zenon
  <2> HIDE DEF told, met
  <2>2. \A i \in Begun : before'[i] =
           IF i \in told
           THEN [status |-> IF i \in met /\ ~before[i].sending
                            THEN "confirmed" ELSE before[i].status,
                 sending |-> before[i].sending,
                 met |-> i \in met]
           ELSE before[i]
    BY <1>1, <1>4, <1>5, <1>6, <2>1, Zenon
  <2> QED
    BY <1>1, <2>2
<1>8. /\ values' \in [Keys -> Readings]
      /\ \A k \in Keys : ~ (Owner(k) \in fresh[r] \union {None}) => values'[k] = values[k]
  <2>1. ASSUME NEW k \in Keys, Owner(k) \notin fresh[r] \union {None}
        PROVE  values'[k] = values[k]
    <3>1. k \notin Accepted(r, report)
      BY <2>1, TokenMeansFresh DEF Accepted
    <3> QED
      BY <3>1 DEF EndRead
  <2> QED
    BY <2>1 DEF TypeOK
<1>9. [k \in Keys |-> Owner(k)]' = [k \in Keys |-> Owner(k)]
  BY <1>1 DEF Owner
<1>10. fresh' = [fresh EXCEPT ![r] = {}]
  BY DEF EndRead
<1>11. Promise!ShowsNewOnly({k \in Keys : [j \in Keys |-> Owner(j)][k] \in fresh[r] \union {None}})
  BY <1>8 DEF Promise!ShowsNewOnly
<1> HIDE DEF told, met
<1>12. Promise!Answer(r)
  BY <1>1, <1>3, <1>6, <1>7, <1>9, <1>10, <1>11 DEF Promise!Answer, Promise!Told
<1> QED
  BY <1>12 DEF Promise!Next

LEMMA WithdrawStep ==
    ASSUME TypeOK, NEW k \in Keys, CancelGroup(k)
    PROVE  Promise!Next
<1> DEFINE withdrawn == {updates[j] : j \in {j \in Keys : SameGroup(j, k)}}
           before == [i \in Begun |-> Standing(i)]
<1>1. Begun' = Begun /\ UNCHANGED <<created, updates, held, values, fresh>>
  BY DEF CancelGroup, Begun
<1>2. ASSUME NEW i \in Begun, i \in withdrawn
      PROVE  Standing(i)' = [status |-> "cancelled", sending |-> FALSE,
                             met |-> Matches(update[i])]
  <2>1. update[i] \in Updates
    BY DEF TypeOK
  <2>2. update'[i] = [Cancelled(update[i]) EXCEPT !.submitting = FALSE]
    BY <1>2 DEF CancelGroup
  <2>3. /\ update'[i].status = "cancelled" /\ update'[i].submitting = FALSE
        /\ update'[i].requested = update[i].requested
        /\ update'[i].observed = update[i].observed
    BY <2>1, <2>2 DEF Cancelled, Updates
  <2>4. Matches(update'[i]) = Matches(update[i])
    BY <2>3, MetBySame
  <2> QED
    BY <2>3, <2>4, Zenon DEF Standing
<1>3. ASSUME NEW i \in Begun, i \notin withdrawn
      PROVE  Standing(i)' = Standing(i)
  <2>1. update'[i] = update[i]
    BY <1>3 DEF CancelGroup
  <2> QED
    BY <2>1, StandingKept
<1>4. before' = [i \in DOMAIN before |->
                   IF i \in withdrawn
                   THEN [status |-> "cancelled", sending |-> FALSE, met |-> before[i].met]
                   ELSE before[i]]
  <2>1. \A i \in Begun : before[i].met = Matches(update[i])
    BY DEF Standing
  <2> HIDE DEF withdrawn
  <2>2. \A i \in Begun : before'[i] =
           IF i \in withdrawn
           THEN [status |-> "cancelled", sending |-> FALSE, met |-> before[i].met]
           ELSE before[i]
    BY <1>1, <1>2, <1>3, <2>1, Zenon
  <2> QED
    BY <1>1, <2>2
<1>5. [j \in Keys |-> Owner(j)]' = [j \in Keys |-> Owner(j)]
  BY <1>1 DEF Owner
<1>6. Promise!Peers(k) = {j \in Keys : SameGroup(j, k)}
  BY PeersAre
<1>7. Promise!Withdraw(k)
  BY <1>1, <1>4, <1>5, <1>6 DEF Promise!Withdraw
<1> QED
  BY <1>7 DEF Promise!Next

\* A charger leaves with all of its controls, or the entry with all there are.
LEMMA ForgetStep ==
    ASSUME TypeOK, NEW gone \in SUBSET Keys, Drop(gone),
           \A j \in Keys, k \in gone : SameGroup(j, k) => j \in gone
    PROVE  Promise!Next
<1> DEFINE owner == [k \in Keys |-> Owner(k)]
<1>1. Begun' = Begun /\ UNCHANGED fresh
  BY DEF Drop, Begun
<1>2. ASSUME NEW i \in Begun
      PROVE  Standing(i)' = Standing(i)
  <2>1. update[i] \in Updates
    BY DEF TypeOK
  <2>2. update'[i] = update[i] \/ update'[i] = [update[i] EXCEPT !.timer = FALSE]
    BY DEF Drop
  <2> QED
    BY <2>1, <2>2, StandingKept DEF Updates
<1>3. [i \in Begun |-> Standing(i)]' = [i \in Begun |-> Standing(i)]
  BY <1>1, <1>2
<1>4. owner' = [k \in Keys |-> IF k \in gone THEN None ELSE owner[k]]
  BY DEF Drop, Owner
<1>5. /\ updates' = [k \in Keys |-> IF k \in gone THEN None ELSE updates[k]]
      /\ values' = [k \in Keys |-> IF k \in gone THEN NoReading ELSE values[k]]
  BY DEF Drop
<1>6. \A k \in gone : Promise!Peers(k) \subseteq gone
  BY PeersAre
<1>7. Promise!Forget
  BY <1>1, <1>3, <1>4, <1>5, <1>6 DEF Promise!Forget
<1> QED
  BY <1>7 DEF Promise!Next

\* What begin leaves of the commands before it, as their users see them.
LEMMA StartStanding ==
    ASSUME TrackerInv, NEW k \in Keys, NEW request \in Readings \ {NoReading},
           NEW snapshot \in [Keys -> [Fields -> Vals]], Begin(k, request, snapshot),
           NEW CONSTANT new \in Nat, new = created + 1
    PROVE  /\ Standing(new)' = [status |-> "pending", sending |-> TRUE, met |-> FALSE]
           /\ \A i \in Begun : Standing(i)' =
                 IF i \in Unresolved(k) THEN [Standing(i) EXCEPT !.status = "cancelled"]
                 ELSE Standing(i)
<1> USE DEF TrackerInv
<1>1. Standing(new)' = [status |-> "pending", sending |-> TRUE, met |-> FALSE]
  <2>1. update'[new] = NewUpdate(k, request)
    BY BeginNew
  <2>2. /\ update'[new].status = "pending" /\ update'[new].submitting = TRUE
        /\ update'[new].requested \in Readings
        /\ update'[new].observed = NoReading
    BY <2>1 DEF NewUpdate
  <2>3. Matches(update'[new]) = FALSE
    BY <2>2, UnreadIsUnmet
  <2> QED
    BY <2>2, <2>3, Zenon DEF Standing
<1>2. ASSUME NEW i \in Begun
      PROVE  Standing(i)' = IF i \in Unresolved(k)
                            THEN [Standing(i) EXCEPT !.status = "cancelled"]
                            ELSE Standing(i)
  <2>1. update[i] \in Updates /\ i \in 1..created + 1 /\ i # created + 1
    BY DEF TypeOK, Begun
  <2>2. update'[i] = IF i \in Unresolved(k) THEN Cancelled(update[i])
                     ELSE IF i = Owner(k) THEN [update[i] EXCEPT !.timer = FALSE]
                     ELSE update[i]
    BY <2>1 DEF Begin
  <2>3. /\ update'[i].requested = update[i].requested
        /\ update'[i].observed = update[i].observed
        /\ update'[i].submitting = update[i].submitting
        /\ update'[i].status = IF i \in Unresolved(k) THEN "cancelled" ELSE update[i].status
    BY <2>1, <2>2 DEF Cancelled, Updates
  <2>4. CASE i \in Unresolved(k)
    <3>1. Matches(update'[i]) = Matches(update[i])
      BY <2>3, MetBySame
    <3>2. Standing(i)' = [status |-> "cancelled", sending |-> update[i].submitting,
                          met |-> Matches(update[i])]
      BY <2>3, <2>4, <3>1, Zenon DEF Standing
    <3> QED
      BY <2>4, <3>2, StandingEdits, Zenon
  <2>5. CASE i \notin Unresolved(k)
    BY <2>3, <2>5, StandingKept
  <2> QED
    BY <2>4, <2>5
<1> QED
  BY <1>1, <1>2

\* A command that may begin finds its group as the promise wants it, and moves no value
\* that is frozen.
LEMMA StartStep ==
    ASSUME TrackerInv, TypeOK', LinkedAreHeld, NEW k \in Keys,
           NEW request \in Readings \ {NoReading},
           NEW snapshot \in [Keys -> [Fields -> Vals]], Begin(k, request, snapshot)
    PROVE  Promise!Next
<1> USE DEF TrackerInv
<1>1. PICK new \in Nat : new = created + 1
  BY KeysAssumption DEF TypeOK
<1> DEFINE before == [i \in Begun |-> Standing(i)]
           owner == [j \in Keys |-> Owner(j)]
           peers == Promise!Peers(k)
           linked == {j \in Keys : GroupOf[j] \in RelatedGroups}
           showing == IF k \in linked THEN peers ELSE {k}
           rivals == {updates[j] : j \in peers \ {k}}
<1>2. peers = {j \in Keys : SameGroup(j, k)}
  BY PeersAre
<1> HIDE DEF peers
<1>3. /\ new \notin Begun /\ Begun' = Begun \union {new}
      /\ \A j \in Keys : updates[j] # None => updates[j] \in Begun
  BY <1>1, BeginNew
<1>4. new \in UpdateIds \ DOMAIN before /\ new # None
  BY <1>1, <1>3, KeysAssumption DEF Begin, TypeOK, UpdateIds, None
<1>5. k \in {j \in Keys : GroupOf[j] \in SupersedeGroups} \/ ~Promise!Busy(k)
  <2>1. CASE GroupOf[k] \in SupersedeGroups
    BY <2>1
  <2>2. CASE ~GroupBusy(k)
    <3> SUFFICES ASSUME NEW j \in peers, updates[j] # None, Promise!Open(updates[j])
                 PROVE  FALSE
      BY DEF peers, Promise!Busy
    <3>1. Open(updates[j])
      BY <1>3, <1>2 DEF Promise!Open, Standing, Open
    <3> QED
      BY <1>2, <2>2, <3>1 DEF GroupBusy
  <2> QED
    BY <2>1, <2>2 DEF Begin
<1>6. updates' = [updates EXCEPT ![k] = new] /\ UNCHANGED fresh
  BY <1>1 DEF Begin
<1>7. owner' = [j \in Keys |-> IF j \in showing THEN new ELSE owner[j]]
  <2> SUFFICES ASSUME NEW j \in Keys
               PROVE  Owner(j)' = IF j \in showing THEN new ELSE Owner(j)
    OBVIOUS
  <2>1. RelatedKeys(k) = IF k \in linked THEN peers ELSE {}
    BY <1>2 DEF RelatedKeys
  <2>2. k \in peers
    BY <1>2 DEF SameGroup
  <2>3. held'[j] = IF j \in RelatedKeys(k) THEN new ELSE IF j = k THEN None ELSE held[j]
    BY <1>1 DEF Begin
  <2>4. updates'[j] = IF j = k THEN new ELSE updates[j]
    BY <1>1 DEF Begin, TypeOK
  <2> HIDE DEF peers, linked
  <2> QED
    BY <1>4, <2>1, <2>2, <2>3, <2>4 DEF Owner
<1>8. /\ values' \in [Keys -> Readings]
      /\ \A j \in Keys : ~ (j \in showing /\ ~Promise!Frozen(j)) => values'[j] = values[j]
  <2>1. ASSUME NEW j \in Keys, values'[j] # values[j]
        PROVE  j \in showing /\ ~Promise!Frozen(j)
    <3>1. j \in RelatedKeys(k) \union {k} /\ SnapshotDue(j)
      BY <2>1 DEF Begin
    <3>2. j \in showing
      BY <1>2, <3>1 DEF RelatedKeys, SameGroup
    <3>3. CASE Owner(j) = None
      BY <3>2, <3>3 DEF Promise!Frozen
    <3>4. CASE Owner(j) # None
      <4>1. update[Owner(j)].status = "confirmed" /\ held[j] = None
        BY <3>1, <3>4 DEF SnapshotDue
      <4>2. j \notin linked
        BY <3>4, <4>1 DEF LinkedAreHeld, Owner
      <4>3. Owner(j) \in Begun
        BY <3>4, <1>3, <4>1 DEF Owner
      <4>4. before[Owner(j)].status = "confirmed"
        BY <4>1, <4>3 DEF Standing
      <4> QED
        BY <3>2, <4>2, <4>4 DEF Promise!Frozen
    <3> QED
      BY <3>3, <3>4
  <2> QED
    BY <2>1 DEF TypeOK
<1>9. before' = [i \in DOMAIN before \union {new} |->
                   IF i = new
                   THEN [status |-> "pending", sending |-> TRUE, met |-> FALSE]
                   ELSE IF i \in rivals /\ before[i].status # "confirmed"
                   THEN [before[i] EXCEPT !.status = "cancelled"]
                   ELSE before[i]]
  <2>1. \A i \in Begun : i \in Unresolved(k) <=> i \in rivals /\ update[i].status # "confirmed"
    BY <1>2 DEF Unresolved, Begun, None
  <2>2. \A i \in Begun : before[i] = Standing(i) /\ before[i].status = update[i].status
    BY DEF Standing
  <2>3. /\ Standing(new)' = [status |-> "pending", sending |-> TRUE, met |-> FALSE]
        /\ \A i \in Begun : Standing(i)' =
              IF i \in Unresolved(k) THEN [Standing(i) EXCEPT !.status = "cancelled"]
              ELSE Standing(i)
    BY <1>1, StartStanding
  <2> HIDE DEF rivals
  <2>4. \A i \in Begun : Standing(i)' =
           IF i \in rivals /\ before[i].status # "confirmed"
           THEN [before[i] EXCEPT !.status = "cancelled"] ELSE before[i]
    BY <2>1, <2>2, <2>3
  <2> QED
    BY <1>3, <2>3, <2>4
<1>10. Promise!ShowsNewOnly({j \in showing : ~Promise!Frozen(j)})
  <2> HIDE DEF showing
  <2> QED
    BY <1>8 DEF Promise!ShowsNewOnly
<1>11. Promise!Started(k, new)
  BY <1>6, <1>7, <1>9, <1>10, Zenon DEF Promise!Started, peers
<1>12. Promise!Start(k)
  BY <1>4, <1>5, <1>6, <1>11, Zenon DEF Promise!Start
<1> QED
  BY <1>12 DEF Promise!Next

LEMMA PromiseStep ==
    ASSUME TrackerInv, TrackerInv', LinkedAreHeld, [Next]_vars
    PROVE  Promise!Next \/ UNCHANGED Promise!vars
<1>1. TypeOK /\ TypeOK'
  BY DEF TrackerInv
<1>2. ASSUME NEW k \in Keys, NEW request \in Readings \ {NoReading},
             NEW snapshot \in [Keys -> [Fields -> Vals]], Begin(k, request, snapshot)
      PROVE  Promise!Next
  BY <1>1, <1>2, StartStep
<1>3. ASSUME NEW i \in Begun, NEW failed \in BOOLEAN, Finish(i, failed)
      PROVE  Promise!Next \/ UNCHANGED Promise!vars
  BY <1>3, EndStep
<1>4. ASSUME NEW i \in Begun, NEW request \in Readings, SetRequested(i, request)
      PROVE  Promise!Next
  BY <1>1, <1>4, SetRequestedStep
<1>5. ASSUME NEW i \in Begun, Acknowledge(i)
      PROVE  Promise!Next
  BY <1>1, <1>5, AcknowledgeStep
<1>6. ASSUME NEW i \in Begun, Expire(i)
      PROVE  Promise!Next
  BY <1>6, GiveUpStep
<1>7. ASSUME NEW r \in Reads, StartRead(r)
      PROVE  Promise!Next
  BY <1>1, <1>7, AskStep
<1>8. ASSUME NEW r \in Reads, NEW report \in [Keys -> Readings], EndRead(r, report)
      PROVE  Promise!Next
  BY <1>1, <1>8, AnswerStep
<1>9. ASSUME NEW k \in Keys, CancelGroup(k)
      PROVE  Promise!Next
  BY <1>1, <1>9, WithdrawStep
<1>10. ASSUME NEW s \in Serials, Prune(s)
       PROVE  Promise!Next
  <2> DEFINE gone == {k \in Keys : SerialOf[k] = s}
  <2>1. \A j \in Keys, k \in gone : SameGroup(j, k) => j \in gone
    BY DEF SameGroup
  <2>2. gone \in SUBSET Keys /\ Drop(gone)
    BY <1>10 DEF Prune
  <2> HIDE DEF gone
  <2> QED
    BY <1>1, <2>1, <2>2, ForgetStep
<1>11. CASE Cleanup
  <2>1. Drop(Keys)
    BY <1>11 DEF Cleanup
  <2> QED
    BY <1>1, <2>1, ForgetStep
<1>12. CASE UNCHANGED vars
  <2>1. UNCHANGED <<created, update, updates, held, values, fresh>>
    BY <1>12 DEF vars
  <2>2. \A i \in Begun : Standing(i)' = Standing(i)
    BY <2>1, StandingKept
  <2> QED
    BY <2>1, <2>2, PromiseKept
<1> QED
  BY <1>2, <1>3, <1>4, <1>5, <1>6, <1>7, <1>8, <1>9, <1>10, <1>11, <1>12 DEF Next

\* The tracker implements ControlPromise: by tokens, timers and holders it keeps what the
\* users are promised of commands, of reads and of the values shown meanwhile.
THEOREM TrackerKeepsPromise == Spec => KeepsPromise
<1>1. TrackerInv /\ TrackerInv' /\ LinkedAreHeld /\ [Next]_vars
         => [Promise!Next]_(Promise!vars)
  BY PromiseStep
<1> QED
  BY <1>1, PromiseInit, TrackerInvariant, LinkedHeld, PTL
     DEF Spec, KeepsPromise, Promise!Spec
=============================================================================
