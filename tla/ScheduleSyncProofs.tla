-------------------------- MODULE ScheduleSyncProofs --------------------------
(***************************************************************************)
(* Proofs about the schedule sync, for any callers, slots, requests and    *)
(* bound.  The inductive invariant adds to the properties that the tickets *)
(* of reads and edits are not from the future, that a lock has one holder, *)
(* that stopping outlasts disabling and unloading, that no edit has been   *)
(* accepted since a read was sent that still counts, and what an edit that *)
(* is under way has sent.  Reads may lag behind the edits.                 *)
(***************************************************************************)
EXTENDS ScheduleSync, TLAPS

\* Tickets are not from the future; only the tasks of the sync are retained; an edit
\* has its request, and only a collection is prepared.
Tickets ==
    /\ \A r \in Readers : read[r].gen <= generation /\ read[r].rev <= revision
    /\ \A c \in Callers : read[c].by # "task" /\ call[c].gen <= generation
    /\ \A c \in Callers : call[c].pc # "idle" => call[c].request \in Edits
    /\ \A c \in Callers : call[c].pc = "prepare" => call[c].request.kind = "replace"

\* A lock has one holder.
Holders ==
    /\ \A r \in Readers : read[r].pc \in {"sent", "answered"} => lock = r
    /\ \A c \in Callers : call[c].pc \in {"prepare", "sent", "taken"} => mutating = c

Quiet == ~subscribed /\ patch = "none" /\ \A r \in Readers : read[r].by # "task"

\* Who has been disabled or unloaded is stopping, and is cleaned up or will be.
Stopped ==
    /\ lifecycle.op = "disable" => stopping
    /\ cleaned => stopping
    /\ ~running => stopping /\ ("stop" \in waiting \/ Quiet)

\* What the accepted edits say of a slot is what the charger has.
KnownIsTrue == \A k \in Slots : known[k] # Unknown => known[k] = Listed(cloud[k])

\* A slot in the cache has been created.
CacheCreated == \A k \in Slots : Present(cache[k]) => cloud[k] # "new"

\* No slot is reported, or has been seen, before it was created; and no edit has been
\* accepted since a read of the revision of now was sent.
SeenTrue ==
    /\ \A k \in Slots : Present(reported[k]) => cloud[k] # "new"
    /\ \A r \in Readers : read[r].rev = revision => read[r].blind = {}
    /\ \A r \in Readers : read[r].pc = "answered" =>
          /\ read[r].seen \in Listings
          /\ \A k \in Slots : Present(read[r].seen[k]) => cloud[k] # "new"

\* What an edit has sent, and what came of it.
SentTrue ==
    \A c \in Callers : call[c].pc \in {"sent", "taken"} =>
        /\ call[c].sent \in Payloads
        /\ \A k \in DOMAIN call[c].sent : call[c].sent[k] # "new"
        /\ call[c].request.kind = "toggle" => call[c].request.slot \in DOMAIN call[c].sent
        /\ \A k \in DOMAIN call[c].sent : call[c].request.kind = "toggle" =>
              /\ Present(call[c].sent[k]) /\ cloud[k] # "new"
              /\ k # call[c].request.slot /\ known[k] # Unknown => call[c].sent[k] = known[k]
        /\ call[c].pc = "taken" =>
              /\ call[c].echo \in Schedules
              /\ \A k \in Slots :
                    /\ cloud[k] = "new" => call[c].echo[k] = "new"
                    /\ known[k] # Unknown => Listed(call[c].echo[k]) = known[k]
              /\ \A k \in DOMAIN call[c].sent : Present(call[c].sent[k]) => cloud[k] # "new"

-----------------------------------------------------------------------------
USE DEF lifecycleVars, epoch, data

LEMMA NoReadTyped ==
    /\ NoRead \in ReadRecords /\ NoRead.pc = "idle" /\ NoRead.by = "caller"
    /\ NoRead.gen = 0 /\ NoRead.rev = 0 /\ NoRead.blind = {}
BY DEF NoRead, ReadRecords

LEMMA NoCallTyped == NoCall \in CallRecords /\ NoCall.pc = "idle" /\ NoCall.gen = 0
BY DEF NoCall, CallRecords

LEMMA NewReads ==
    ASSUME TypeOK, NEW by \in {"task", "start", "manual", "caller"}
    PROVE  /\ Reading(by) \in ReadRecords /\ Queued(by) \in ReadRecords
           /\ Reading(by).pc = "sent" /\ Queued(by).pc = "queued"
           /\ Reading(by).gen = generation /\ Queued(by).gen = generation
           /\ Reading(by).rev = revision /\ Queued(by).rev = 0
           /\ Reading(by).by = by /\ Queued(by).by = by
           /\ Reading(by).blind = {} /\ Queued(by).blind = {}
BY DEF TypeOK, Reading, Queued, ReadRecords, NoRead

LEMMA PayloadTyped ==
    ASSUME TypeOK, NEW request \in Edits
    PROVE  Payload(request) \in Payloads
<1>1. request.to \in States /\ request.slot \in Slots
  BY DEF Edits, States
<1>2. /\ \A k \in SentSlots(request) : request.kind = "toggle" => cache[k] \in States
      /\ "gone" \in States
  BY DEF SentSlots, Present, States
<1>3. SentSlots(request) \in SUBSET Slots
  BY DEF SentSlots
<1>4. Payload(request) \in [SentSlots(request) -> States]
  BY <1>1, <1>2, <1>3 DEF Payload
<1> QED
  BY <1>3, <1>4 DEF Payloads

LEMMA PayloadDomain ==
    ASSUME NEW p \in Payloads
    PROVE  DOMAIN p \subseteq Slots /\ \A k \in DOMAIN p : p[k] \in States
BY DEF Payloads

LEMMA SentTyped ==
    ASSUME TypeOK, NEW c \in Callers, call[c].request \in Edits, call[c].sent \in Payloads,
           NEW sent \in Sent(c)
    PROVE  sent \in Payloads
<1>1. call[c].request.to \in States
  BY DEF Edits, States
<1>2. CASE Creates(c)
  <2>1. PICK slot \in Slots : sent = [k \in {slot} |-> call[c].request.to]
    BY <1>2 DEF Sent
  <2>2. sent \in [{slot} -> States] /\ {slot} \in SUBSET Slots
    BY <1>1, <2>1
  <2> QED
    BY <2>2 DEF Payloads
<1>3. CASE ~Creates(c)
  BY <1>3 DEF Sent
<1> QED
  BY <1>2, <1>3

LEMMA OutcomeTyped ==
    ASSUME TypeOK, NEW c \in Callers, NEW sent \in Payloads
    PROVE  Outcome(c, sent) \in Schedules
BY PayloadDomain DEF TypeOK, Outcome, Schedules

LEMMA EchoTyped ==
    ASSUME TypeOK, NEW c \in Callers, call[c].sent \in Payloads
    PROVE  Echo(c) \in Listings
BY PayloadDomain DEF TypeOK, Echo, Listed, Present, Listings

LEMMA ListingTyped ==
    ASSUME NEW schedule \in Schedules
    PROVE  Listing(schedule) \in Listings
BY DEF Listing, Listed, Present, Listings, Schedules

LEMMA BlindedTyped ==
    ASSUME TypeOK, NEW c \in Callers, Asked(c) \subseteq Slots
    PROVE  /\ Blinded(c) \in [Readers -> ReadRecords]
           /\ \A r \in Readers :
                 /\ Blinded(c)[r].pc = read[r].pc /\ Blinded(c)[r].by = read[r].by
                 /\ Blinded(c)[r].gen = read[r].gen /\ Blinded(c)[r].rev = read[r].rev
                 /\ Blinded(c)[r].seen = read[r].seen
                 /\ Blinded(c)[r].blind = IF read[r].pc \in {"sent", "answered"}
                                          THEN read[r].blind \union Asked(c)
                                          ELSE read[r].blind
<1>1. \A r \in Readers : read[r] \in ReadRecords
  BY DEF TypeOK
<1> QED
  BY <1>1 DEF Blinded, ReadRecords
-----------------------------------------------------------------------------
\* Types.

Waiters == {"apply", "disable", "retained", "stop"}

LEMMA StopLockedTyped ==
    ASSUME TypeOK, NEW leaves, StopLocked(leaves)
    PROVE  /\ subscribed' = FALSE /\ patch' = "none" /\ waiting' \subseteq Waiters
           /\ read' \in [Readers -> ReadRecords] /\ lock' \in Readers \union {Nobody}
BY NoReadTyped DEF TypeOK, StopLocked, LockAfterStop, Waiters

LEMMA RetireTyped ==
    ASSUME TypeOK, NEW who \in Waiters, Retire(who)
    PROVE  stopping' = TRUE /\ generation' \in Nat /\ waiting' \subseteq Waiters
BY DEF TypeOK, Retire, Waiters

LEMMA DisablingTyped ==
    ASSUME TypeOK, NEW by, DisableSupport(by)
    PROVE  stopping' = TRUE /\ generation' \in Nat /\ waiting' \subseteq Waiters
<1>1. Retire("disable") \/ Retire("retained")
  BY DEF DisableSupport
<1> QED
  BY <1>1, RetireTyped DEF Waiters

LEMMA LifecycleTyped ==
    ASSUME TypeOK,
           LifecycleStep \/ HelpersGone \/ SetOption \/ OtherUpdate \/ Unload \/ Settle
    PROVE  TypeOK'
<1>1. CASE FinishStart
  <2>1. /\ Reading("start") \in ReadRecords /\ Reading("manual") \in ReadRecords
        /\ Poll \in Readers
    BY NewReads DEF Readers
  <2>2. Free \in [op : {"free", "start", "disable"}, gen : Nat]
    BY DEF Free
  <2>3. /\ subscribed' \in BOOLEAN /\ lifecycle' = Free
        /\ UNCHANGED <<running, enabled, applied, queued, cleaned, mutating, data, call, cloud,
                       reported, known, changes>>
    BY <1>1 DEF FinishStart, TypeOK, Active
  <2>4. /\ applying' \in {"no", "stop", "start", "read"}
        /\ lock' \in Readers \union {Nobody} /\ read' \in [Readers -> ReadRecords]
        /\ stopping' \in BOOLEAN /\ generation' \in Nat /\ waiting' \subseteq Waiters
    <3>1. CASE DisableSupport("start") /\ UNCHANGED <<applying, lock, read>>
      BY <3>1, DisablingTyped DEF TypeOK
    <3>2. CASE /\ lock' = Poll
               /\ read' = [read EXCEPT ![Poll] =
                     Reading(IF applying = "start" THEN "start" ELSE "manual")]
               /\ applying' = AfterStart
               /\ UNCHANGED <<epoch, waiting>>
      BY <2>1, <3>2 DEF TypeOK, AfterStart, Waiters
    <3>3. CASE applying' = AfterStart /\ UNCHANGED <<epoch, waiting, lock, read>>
      BY <3>3 DEF TypeOK, AfterStart, Waiters
    <3> QED
      BY <1>1, <3>1, <3>2, <3>3 DEF FinishStart
  <2> QED
    BY <2>2, <2>3, <2>4 DEF TypeOK, Waiters
<1>2. CASE Applied
  <2>1. CASE Apply(enabled) /\ queued' \in {FALSE, queued}
    <3>1. Retire("apply")
      BY <2>1 DEF Apply
    <3> QED
      BY <1>2, <2>1, <3>1, RetireTyped DEF Applied, Apply, TypeOK, Waiters
  <2>2. CASE applying' = "no" /\ queued' = FALSE
             /\ UNCHANGED <<applied, stopping, generation, waiting>>
    BY <1>2, <2>2 DEF Applied, TypeOK
  <2> QED
    BY <1>2, <2>1, <2>2 DEF Applied
<1>3. CASE Restart
  <2>1. StopLocked("apply")
    BY <1>3 DEF Restart
  <2>2. /\ subscribed' = FALSE /\ patch' = "none" /\ waiting' \subseteq Waiters
        /\ read' \in [Readers -> ReadRecords] /\ lock' \in Readers \union {Nobody}
    BY <2>1, StopLockedTyped
  <2>3. /\ stopping' \in BOOLEAN /\ cleaned' \in BOOLEAN /\ generation' \in Nat
        /\ applying' \in {"no", "stop", "start", "read"}
    <3>1. CASE MayRestart
      BY <1>3, <3>1 DEF Restart, TypeOK
    <3>2. CASE ~MayRestart
      BY <1>3, <3>2 DEF Restart, TypeOK
    <3> QED
      BY <3>1, <3>2
  <2>4. lifecycle' \in [op : {"free", "start", "disable"}, gen : Nat]
    BY <1>3 DEF Restart, TypeOK
  <2> QED
    BY <1>3, <2>2, <2>3, <2>4 DEF Restart, TypeOK, Waiters
<1>4. CASE BeginDisable
  <2>1. /\ subscribed' \in BOOLEAN /\ patch' \in {"none", "timer", "task"}
        /\ read' \in [Readers -> ReadRecords] /\ lock' \in Readers \union {Nobody}
        /\ waiting' \subseteq Waiters
    <3>1. CASE cleaned
      BY <1>4, <3>1 DEF BeginDisable, TypeOK, Waiters
    <3>2. CASE ~cleaned
      <4>1. StopLocked("disable")
        BY <1>4, <3>2 DEF BeginDisable
      <4> QED
        BY <4>1, StopLockedTyped
    <3> QED
      BY <3>1, <3>2
  <2>2. cleaned' \in BOOLEAN /\ applying' \in {"no", "stop", "start", "read"}
    BY <1>4 DEF BeginDisable, AfterStart, TypeOK
  <2>3. lifecycle' \in [op : {"free", "start", "disable"}, gen : Nat]
    BY <1>4 DEF BeginDisable, TypeOK
  <2>4. stopping' = TRUE
    BY <1>4 DEF BeginDisable
  <2> QED
    BY <1>4, <2>1, <2>2, <2>3, <2>4 DEF BeginDisable, TypeOK, Waiters
<1>5. CASE CancelItself
  <2>1. StopLocked("retained")
    BY <1>5 DEF CancelItself
  <2>2. /\ subscribed' = FALSE /\ patch' = "none" /\ waiting' \subseteq Waiters
        /\ read' \in [Readers -> ReadRecords] /\ lock' \in Readers \union {Nobody}
    BY <2>1, StopLockedTyped
  <2> QED
    BY <1>5, <2>2 DEF CancelItself, TypeOK, Waiters
<1>6. CASE FinishDisable
  <2>1. cache' \in Listings /\ known' \in [Slots -> {"on", "off", "absent", Unknown}]
    BY <1>6 DEF FinishDisable, Listings
  <2>2. lifecycle' \in [op : {"free", "start", "disable"}, gen : Nat]
    BY <1>6 DEF FinishDisable, Free
  <2>3. applying' \in {"no", "stop", "start", "read"}
    BY <1>6 DEF FinishDisable, AfterStart, TypeOK
  <2> QED
    BY <1>6, <2>1, <2>2, <2>3 DEF FinishDisable, TypeOK
<1>7. CASE FinishStop
  <2>1. StopLocked("stop")
    BY <1>7 DEF FinishStop
  <2>2. /\ subscribed' = FALSE /\ patch' = "none" /\ waiting' \subseteq Waiters
        /\ read' \in [Readers -> ReadRecords] /\ lock' \in Readers \union {Nobody}
    BY <2>1, StopLockedTyped
  <2> QED
    BY <1>7, <2>2 DEF FinishStop, TypeOK, Waiters
<1>8. CASE SetOption
  <2>1. enabled' \in BOOLEAN /\ changes' \in Nat /\ queued' \in BOOLEAN
    <3>1. enabled' \in BOOLEAN /\ queued' \in BOOLEAN
      BY <1>8, Zenon DEF SetOption, TypeOK
    <3>2. changes' = changes + 1
      BY <1>8, Zenon DEF SetOption
    <3> QED
      BY <3>1, <3>2 DEF TypeOK
  <2>2. /\ applied' \in BOOLEAN /\ applying' \in {"no", "stop", "start", "read"}
        /\ stopping' \in BOOLEAN /\ generation' \in Nat /\ waiting' \subseteq Waiters
    <3>1. CASE Apply(~enabled)
      <4>1. Retire("apply")
        BY <3>1 DEF Apply
      <4> QED
        BY <3>1, <4>1, RetireTyped DEF Apply, TypeOK, Waiters
    <3>2. CASE UNCHANGED <<applied, applying, stopping, generation, waiting>>
      BY <3>2 DEF TypeOK, Waiters
    <3> QED
      BY <1>8, <3>1, <3>2 DEF SetOption
  <2> QED
    BY <1>8, <2>1, <2>2 DEF SetOption, TypeOK, Waiters
<1>9. CASE OtherUpdate
  BY <1>9 DEF OtherUpdate, TypeOK
<1>10. CASE Unload
  <2>1. Retire("stop")
    BY <1>10 DEF Unload
  <2>2. stopping' = TRUE /\ generation' \in Nat /\ waiting' \subseteq Waiters
    BY <2>1, RetireTyped DEF Waiters
  <2>3. /\ running' = FALSE
        /\ UNCHANGED <<enabled, applied, applying, queued, lifecycle, cleaned, subscribed, lock,
                       mutating, data, read, call, cloud, reported, known, changes>>
    BY <1>10, Zenon DEF Unload
  <2>4. running' \in BOOLEAN /\ stopping' \in BOOLEAN
    BY <2>2, <2>3
  <2>5. generation' \in Nat /\ waiting' \subseteq {"apply", "disable", "retained", "stop"}
    BY <2>2 DEF Waiters
  <2> QED
    BY <2>3, <2>4, <2>5 DEF TypeOK
<1>11. CASE Settle
  BY <1>11 DEF Settle, TypeOK
<1> QED
  BY <1>1, <1>2, <1>3, <1>4, <1>5, <1>6, <1>7, <1>8, <1>9, <1>10, <1>11
  DEF LifecycleStep, HelpersGone

LEMMA ReadsTyped ==
    ASSUME TypeOK, SeenTrue,
           \/ \E by \in {"task", "manual"} : Refresh(by)
           \/ PatchTimer
           \/ \E r \in Readers : ReadStep(r)
    PROVE  TypeOK'
<1>1. Poll \in Readers /\ Patch \in Readers
  BY DEF Readers
<1>2. ASSUME NEW by \in {"task", "manual"}, Refresh(by)
      PROVE  TypeOK'
  <2>1. CASE ~enabled
    <3>1. DisableSupport(by)
      BY <1>2, <2>1 DEF Refresh
    <3>2. UNCHANGED <<running, enabled, applied, applying, queued, lifecycle, cleaned,
                      subscribed, lock, read, mutating, data, call, cloud, reported, known,
                      changes>>
      BY <1>2, <2>1 DEF Refresh
    <3>3. stopping' = TRUE /\ generation' \in Nat /\ waiting' \subseteq Waiters
      BY <3>1, DisablingTyped
    <3> QED
      BY <3>2, <3>3 DEF TypeOK, Waiters
  <2>2. CASE enabled
    <3>1. Reading(by) \in ReadRecords
      BY NewReads
    <3>2. lock' \in Readers \union {Nobody} /\ read' \in [Readers -> ReadRecords]
      BY <1>1, <1>2, <2>2, <3>1 DEF Refresh, TypeOK
    <3> QED
      BY <1>2, <2>2, <3>2 DEF Refresh, TypeOK
  <2> QED
    BY <2>1, <2>2
<1>3. CASE PatchTimer
  <2>1. UNCHANGED <<running, enabled, applied, applying, queued, lifecycle, cleaned,
                    subscribed, lock, mutating, revision, cache, call, cloud, reported, known,
                    changes>>
    BY <1>3 DEF PatchTimer
  <2>2. CASE ~enabled
    <3>1. DisableSupport("task") /\ patch' = "task" /\ UNCHANGED read
      BY <1>3, <2>2 DEF PatchTimer
    <3>2. stopping' = TRUE /\ generation' \in Nat /\ waiting' \subseteq Waiters
      BY <3>1, DisablingTyped
    <3> QED
      BY <2>1, <3>1, <3>2 DEF TypeOK, Waiters
  <2>3. CASE enabled
    <3>1. Queued("task") \in ReadRecords
      BY NewReads
    <3>2. /\ patch' \in {"none", "timer", "task"} /\ read' \in [Readers -> ReadRecords]
          /\ UNCHANGED <<waiting, epoch>>
      BY <1>1, <1>3, <2>3, <3>1 DEF PatchTimer, TypeOK
    <3> QED
      BY <2>1, <3>2 DEF TypeOK
  <2> QED
    BY <2>2, <2>3
<1>4. ASSUME NEW r \in Readers, Acquire(r)
      PROVE  TypeOK'
  <2>1. read[r].by \in {"task", "start", "manual", "caller"}
    BY DEF TypeOK, ReadRecords
  <2>2. Reading(read[r].by) \in ReadRecords
    BY <2>1, NewReads
  <2>3. read' \in [Readers -> ReadRecords]
    BY <1>4, <2>2, NoReadTyped DEF Acquire, TypeOK
  <2>4. lock' \in Readers \union {Nobody} /\ patch' \in {"none", "timer", "task"}
    BY <1>4 DEF Acquire, TypeOK
  <2> QED
    BY <1>4, <2>3, <2>4 DEF Acquire, TypeOK
<1>5. ASSUME NEW r \in Readers, See(r)
      PROVE  TypeOK'
  <2>1. Listing(reported) \in Listings
    BY ListingTyped DEF TypeOK
  <2>2. [[read[r] EXCEPT !.pc = "answered"] EXCEPT !.seen = Listing(reported)] \in ReadRecords
    BY <2>1 DEF TypeOK, ReadRecords
  <2>3. read' \in [Readers -> ReadRecords]
    BY <1>5, <2>2 DEF See, TypeOK
  <2> QED
    BY <1>5, <2>3 DEF See, TypeOK
<1>6. ASSUME NEW r \in Readers, Ends(r)
      PROVE  /\ read' \in [Readers -> ReadRecords] /\ lock' = Nobody
             /\ patch' \in {"none", "timer", "task"}
  BY <1>6, NoReadTyped DEF Ends, TypeOK
<1>7. ASSUME NEW r \in Readers, ReadSucceeds(r)
      PROVE  TypeOK'
  <2>1. cache' \in Listings
    BY <1>7 DEF ReadSucceeds, SeenTrue, TypeOK
  <2>2. known' \in [Slots -> {"on", "off", "absent", Unknown}]
    BY <1>7 DEF ReadSucceeds, TypeOK
  <2>3. Ends(r)
    BY <1>7 DEF ReadSucceeds
  <2> QED
    BY <1>6, <1>7, <2>1, <2>2, <2>3 DEF ReadSucceeds, TypeOK
<1>8. ASSUME NEW r \in Readers, ReadFails(r)
      PROVE  TypeOK'
  <2>1. Ends(r)
    BY <1>8 DEF ReadFails
  <2> QED
    BY <1>6, <1>8, <2>1 DEF ReadFails, TypeOK
<1> QED
  BY <1>2, <1>3, <1>4, <1>5, <1>7, <1>8 DEF ReadStep

\* What an edit becomes when it is asked, prepared, sent or at an end.
LEMMA CallsTyped ==
    ASSUME TypeOK, NEW c \in Callers
    PROVE  /\ \A request \in Edits :
                [NoCall EXCEPT !.pc = "queued", !.gen = generation, !.request = request]
                    \in CallRecords
           /\ [call[c] EXCEPT !.pc = "prepare"] \in CallRecords
           /\ \A sent \in Payloads :
                [call[c] EXCEPT !.pc = "sent", !.sent = sent] \in CallRecords
           /\ \A sent \in Payloads : \A echo \in Schedules :
                [call[c] EXCEPT !.pc = "taken", !.sent = sent, !.echo = echo] \in CallRecords
<1>1. call[c] \in CallRecords /\ generation \in Nat
  BY DEF TypeOK
<1> QED
  BY <1>1 DEF CallRecords, NoCall

LEMMA EditsTyped ==
    ASSUME TypeOK, Tickets, SentTrue,
           \/ \E c \in Callers : EditStep(c) \/ CarryOut(c)
           \/ \E c \in Callers : \E request \in Requests[c] : Ask(c, request)
           \/ \E change \in Elsewhere : External(change.slot, change.to)
    PROVE  TypeOK'
<1>1. ASSUME NEW c \in Callers, NEW to \in CallRecords, call' = [call EXCEPT ![c] = to]
      PROVE  call' \in [Callers -> CallRecords]
  BY <1>1 DEF TypeOK
<1>2. ASSUME NEW c \in Callers, Enter(c)
      PROVE  TypeOK'
  <2>1. CASE call' = [call EXCEPT ![c] = NoCall] /\ UNCHANGED <<mutating, read>>
    <3>1. call' \in [Callers -> CallRecords]
      BY <1>1, <2>1, NoCallTyped
    <3> QED
      BY <1>2, <2>1, <3>1 DEF Enter, TypeOK
  <2>2. CASE /\ mutating' = c
             /\ call' = [call EXCEPT ![c].pc = "prepare"]
             /\ read' = [read EXCEPT ![c] = Queued("caller")]
    <3>1. call' \in [Callers -> CallRecords]
      BY <1>1, <2>2, CallsTyped
    <3>2. Queued("caller") \in ReadRecords
      BY NewReads
    <3>3. read' \in [Readers -> ReadRecords]
      BY <2>2, <3>2 DEF TypeOK, Readers
    <3> QED
      BY <1>2, <2>2, <3>1, <3>3 DEF Enter, TypeOK
  <2>3. CASE /\ mutating' = c
             /\ call' = [call EXCEPT ![c].pc = "sent", ![c].sent = Payload(call[c].request)]
             /\ UNCHANGED read
    <3>1. Payload(call[c].request) \in Payloads
      BY <1>2, PayloadTyped DEF Enter, Tickets
    <3>2. call' \in [Callers -> CallRecords]
      <4>1. call' = [call EXCEPT ![c] = [call[c] EXCEPT !.pc = "sent",
                                                       !.sent = Payload(call[c].request)]]
        BY <2>3 DEF TypeOK
      <4> QED
        BY <1>1, <3>1, <4>1, CallsTyped
    <3> QED
      BY <1>2, <2>3, <3>2 DEF Enter, TypeOK
  <2> QED
    BY <1>2, <2>1, <2>2, <2>3 DEF Enter
<1>3. ASSUME NEW c \in Callers, Prepared(c)
      PROVE  TypeOK'
  <2>1. Payload(call[c].request) \in Payloads
    BY <1>3, PayloadTyped DEF Prepared, Tickets
  <2>2. call' \in [Callers -> CallRecords]
    <3>1. CASE Active(call[c].gen)
      <4>1. call' = [call EXCEPT ![c] = [call[c] EXCEPT !.pc = "sent",
                                                       !.sent = Payload(call[c].request)]]
        BY <1>3, <3>1 DEF Prepared, TypeOK
      <4> QED
        BY <1>1, <2>1, <4>1, CallsTyped
    <3>2. CASE ~Active(call[c].gen)
      BY <1>1, <1>3, <3>2, NoCallTyped DEF Prepared
    <3> QED
      BY <3>1, <3>2
  <2>3. mutating' \in Callers \union {Nobody}
    BY <1>3 DEF Prepared, TypeOK
  <2> QED
    BY <1>3, <2>2, <2>3 DEF Prepared, TypeOK
<1>4. ASSUME NEW c \in Callers, NEW full \in BOOLEAN, Accepted(c, full)
      PROVE  TypeOK'
  <2>1. call' \in [Callers -> CallRecords] /\ mutating' = Nobody
    BY <1>1, <1>4, NoCallTyped DEF Accepted
  <2>2. call[c].sent \in Payloads /\ call[c].echo \in Schedules
    BY <1>4 DEF Accepted, SentTrue
  <2>3. cache' \in Listings
    BY <1>4, <2>2, EchoTyped, ListingTyped DEF Accepted, TypeOK
  <2>4. revision' \in Nat /\ patch' \in {"none", "timer", "task"}
    BY <1>4 DEF Accepted, SchedulePatch, Revised, TypeOK
  <2>5. known' \in [Slots -> {"on", "off", "absent", Unknown}]
    <3>1. \A k \in Slots : /\ Listed(cloud[k]) \in {"on", "off", "absent"}
                           /\ known[k] \in {"on", "off", "absent", Unknown}
      BY DEF TypeOK, Listed, Present
    <3>2. CASE Active(call[c].gen)
      BY <1>4, <3>1, <3>2 DEF Accepted
    <3>3. CASE ~Active(call[c].gen)
      BY <1>4, <3>3 DEF Accepted, TypeOK
    <3> QED
      BY <3>2, <3>3
  <2>6. Asked(c) \subseteq Slots
    BY <1>4, <2>2, PayloadDomain DEF Asked, Accepted, Tickets, Edits
  <2>7. read' \in [Readers -> ReadRecords]
    BY <1>4, <2>6, BlindedTyped DEF Accepted, TypeOK
  <2> QED
    BY <1>4, <2>1, <2>3, <2>4, <2>5, <2>7 DEF Accepted, TypeOK
<1>5. ASSUME NEW c \in Callers, Failed(c)
      PROVE  TypeOK'
  <2>1. call' \in [Callers -> CallRecords] /\ mutating' = Nobody
    BY <1>1, <1>5, NoCallTyped DEF Failed
  <2> QED
    BY <1>5, <2>1 DEF Failed, TypeOK
<1>6. ASSUME NEW c \in Callers, CarryOut(c)
      PROVE  TypeOK'
  <2>1. PICK sent \in Sent(c) :
            /\ cloud' = Outcome(c, sent)
            /\ known' = StillKnown(Outcome(c, sent))
            /\ call' = [call EXCEPT ![c].pc = "taken", ![c].sent = sent,
                                    ![c].echo = Outcome(c, sent)]
    BY <1>6 DEF CarryOut
  <2>2. sent \in Payloads
    BY <1>6, SentTyped DEF CarryOut, Tickets, SentTrue
  <2>3. Outcome(c, sent) \in Schedules
    BY <2>2, OutcomeTyped
  <2>4. call' \in [Callers -> CallRecords]
    <3>1. call' = [call EXCEPT ![c] = [call[c] EXCEPT !.pc = "taken", !.sent = sent,
                                                     !.echo = Outcome(c, sent)]]
      BY <2>1 DEF TypeOK
    <3> QED
      BY <1>1, <2>2, <2>3, <3>1, CallsTyped
  <2>5. known' \in [Slots -> {"on", "off", "absent", Unknown}]
    BY <2>1 DEF StillKnown, TypeOK
  <2>6. UNCHANGED <<lifecycleVars, epoch, lock, mutating, data, read, reported, changes>>
    BY <1>6 DEF CarryOut
  <2>7. cloud' \in Schedules
    BY <2>1, <2>3
  <2> QED
    BY <2>4, <2>5, <2>6, <2>7 DEF TypeOK
<1>7. ASSUME NEW c \in Callers, NEW request \in Requests[c], Ask(c, request)
      PROVE  TypeOK'
  <2>1. call' \in [Callers -> CallRecords]
    <3>1. request \in Edits
      BY ConstantsAssumption
    <3> QED
      BY <1>1, <1>7, <3>1, CallsTyped DEF Ask
  <2>2. changes' \in Nat
    <3>1. changes' = changes + 1
      BY <1>7, Zenon DEF Ask
    <3> QED
      BY <3>1 DEF TypeOK
  <2>3. UNCHANGED <<lifecycleVars, epoch, lock, mutating, data, read, cloud, reported, known>>
    BY <1>7 DEF Ask
  <2> QED
    BY <2>1, <2>2, <2>3 DEF TypeOK
<1>8. ASSUME NEW k \in Slots, NEW state \in {"on", "off", "gone"}, External(k, state)
      PROVE  TypeOK'
  <2>1. cloud' \in Schedules /\ known' \in [Slots -> {"on", "off", "absent", Unknown}]
    BY <1>8 DEF External, TypeOK, Schedules, States
  <2> QED
    BY <1>8, <2>1 DEF External, TypeOK
<1> QED
  BY <1>2, <1>3, <1>4, <1>5, <1>6, <1>7, <1>8, ConstantsAssumption DEF EditStep
-----------------------------------------------------------------------------
\* Tickets, holders and stopping.

LEMMA NumbersTyped ==
    ASSUME TypeOK
    PROVE  /\ generation \in Nat /\ revision \in Nat
           /\ \A r \in Readers : read[r].gen \in Nat /\ read[r].rev \in Nat
           /\ \A c \in Callers : call[c].gen \in Nat
           /\ Callers \subseteq Readers /\ Nobody \notin Readers
           /\ Poll \in Readers /\ Patch \in Readers
           /\ Poll \notin Callers /\ Patch \notin Callers /\ Poll # Patch
<1>1. /\ \A r \in Readers : read[r] \in ReadRecords
      /\ \A c \in Callers : call[c] \in CallRecords
  BY DEF TypeOK
<1> QED
  BY <1>1, ConstantsAssumption DEF TypeOK, ReadRecords, CallRecords, Readers

LEMMA StopLockedQuiet ==
    ASSUME TypeOK, Tickets, NEW leaves, StopLocked(leaves)
    PROVE  /\ Quiet'
           /\ \A r \in Readers : read'[r] = read[r] \/ read'[r] = NoRead
           /\ \A r \in Readers : read'[r].pc # "idle" /\ lock = r => lock' = r
<1>1. \A r \in Readers : read'[r] = IF r \in Cancelled THEN NoRead ELSE read[r]
  BY DEF StopLocked
<1>2. \A r \in Readers : read'[r].by # "task"
  BY <1>1, NoReadTyped DEF Cancelled, Tickets, Readers
<1>3. \A r \in Readers : read'[r].pc # "idle" /\ lock = r => lock' = r
  BY <1>1, NoReadTyped DEF StopLocked, LockAfterStop
<1> QED
  BY <1>1, <1>2, <1>3 DEF Quiet, StopLocked

\* A step that starts no read, ends some, and is not of an edit.
LEMMA ControlFrame ==
    ASSUME TypeOK, Tickets, Holders, UNCHANGED <<call, mutating, revision>>,
           generation' \in Nat, generation <= generation',
           \A r \in Readers : read'[r] = read[r] \/ read'[r] = NoRead,
           \A r \in Readers : read'[r].pc # "idle" /\ lock = r => lock' = r
    PROVE  Tickets' /\ Holders'
<1>1. Tickets'
  <2>1. \A r \in Readers : read'[r].gen <= generation' /\ read'[r].rev <= revision'
    BY NumbersTyped, NoReadTyped DEF Tickets
  <2>2. \A c \in Callers : read'[c].by # "task"
    BY NumbersTyped, NoReadTyped DEF Tickets
  <2>3. \A c \in Callers : call'[c].gen <= generation'
    BY NumbersTyped DEF Tickets
  <2> QED
    BY <2>1, <2>2, <2>3 DEF Tickets
<1>2. Holders'
  BY NoReadTyped DEF Holders
<1> QED
  BY <1>1, <1>2

\* A refresh takes the lock, which is free.
LEMMA ControlOfStart ==
    ASSUME TypeOK, Tickets, Holders, UNCHANGED <<call, mutating, revision, generation>>,
           NEW by \in {"task", "start", "manual"},
           lock = Nobody, lock' = Poll, read' = [read EXCEPT ![Poll] = Reading(by)]
    PROVE  Tickets' /\ Holders'
<1>1. /\ read'[Poll] = Reading(by)
      /\ \A r \in Readers \ {Poll} : read'[r] = read[r]
  BY NumbersTyped DEF TypeOK
<1>2. Reading(by).gen = generation /\ Reading(by).rev = revision
  BY NewReads
<1>3. Tickets'
  BY <1>1, <1>2, NumbersTyped DEF Tickets
<1>4. Holders'
  BY <1>1, NumbersTyped DEF Holders
<1> QED
  BY <1>3, <1>4

\* Whoever retires the sync: its tickets stay in the past, and it is stopping.
LEMMA ControlOfRetire ==
    ASSUME TypeOK, Tickets, Holders, Stopped, NEW who, Retire(who),
           who = "stop" \/ running' = running,
           UNCHANGED <<lifecycle, cleaned, subscribed, lock, mutating, data, read, call>>
    PROVE  Tickets' /\ Holders' /\ Stopped'
<1>1. /\ stopping' = TRUE /\ generation' \in Nat /\ generation <= generation'
      /\ waiting' = waiting \union {who}
  BY NumbersTyped DEF Retire
<1>2. Tickets' /\ Holders'
  BY <1>1, ControlFrame
<1> QED
  BY <1>1, <1>2 DEF Stopped, Quiet

\* Disabling is asked for by a refresh of a sync that is running.
LEMMA ControlOfDisable ==
    ASSUME TypeOK, Tickets, Holders, Stopped, NEW by, DisableSupport(by), UNCHANGED running,
           running, UNCHANGED <<lifecycle, cleaned, lock, mutating, revision, read, call>>
    PROVE  Tickets' /\ Holders' /\ Stopped'
<1>1. /\ stopping' = TRUE /\ generation' \in Nat /\ generation <= generation'
  BY NumbersTyped DEF DisableSupport, Retire
<1>2. Tickets' /\ Holders'
  BY <1>1, ControlFrame
<1> QED
  BY <1>1, <1>2 DEF Stopped

LEMMA LifecycleControl ==
    ASSUME TypeOK, Tickets, Holders, Stopped,
           LifecycleStep \/ HelpersGone \/ SetOption \/ OtherUpdate \/ Unload \/ Settle
    PROVE  Tickets' /\ Holders' /\ Stopped'
<1>1. ASSUME UNCHANGED <<running, lifecycle, waiting, cleaned, subscribed, stopping, generation,
                         lock, mutating, revision, patch, read, call>>
      PROVE  Tickets' /\ Holders' /\ Stopped'
  <2>1. Tickets' /\ Holders'
    BY <1>1, NumbersTyped, ControlFrame
  <2> QED
    BY <1>1, <2>1 DEF Stopped, Quiet
<1>2. CASE FinishStart
  <2>1. /\ UNCHANGED <<running, cleaned, patch, mutating, revision, call>>
        /\ lifecycle'.op = "free" /\ subscribed' = Active(lifecycle.gen)
    BY <1>2 DEF FinishStart, Free
  <2>2. CASE DisableSupport("start") /\ UNCHANGED <<lock, read>> /\ Active(lifecycle.gen)
    <3>1. /\ stopping' = TRUE /\ generation' \in Nat /\ generation <= generation'
      BY <2>2, NumbersTyped DEF DisableSupport, Retire
    <3>2. Tickets' /\ Holders'
      BY <2>1, <2>2, <3>1, ControlFrame
    <3>3. running
      BY <2>2 DEF Active, Stopped
    <3> QED
      BY <2>1, <3>1, <3>2, <3>3 DEF Stopped
  <2>3. CASE UNCHANGED <<epoch, waiting>>
    <3>1. Tickets' /\ Holders'
      <4>1. CASE UNCHANGED <<lock, read>>
        BY <2>1, <2>3, <4>1, ControlFrame, NumbersTyped
      <4>2. ASSUME NEW by \in {"start", "manual"}, lock = Nobody, lock' = Poll,
                   read' = [read EXCEPT ![Poll] = Reading(by)]
            PROVE  Tickets' /\ Holders'
        BY <2>1, <2>3, <4>2, ControlOfStart
      <4> QED
        BY <1>2, <2>3, <4>1, <4>2 DEF FinishStart, DisableSupport, Retire
    <3>2. stopping => subscribed' = FALSE /\ UNCHANGED read
      BY <1>2, <2>1, <2>3 DEF FinishStart, Active
    <3>3. Stopped'
      BY <2>1, <2>3, <3>2 DEF Stopped, Quiet
    <3> QED
      BY <3>1, <3>3
  <2> QED
    BY <1>2, <2>2, <2>3 DEF FinishStart
<1>3. CASE Applied
  <2>1. UNCHANGED <<running, lifecycle, cleaned, subscribed, lock, mutating, data, read, call>>
    BY <1>3 DEF Applied
  <2>2. CASE Apply(enabled)
    BY <2>1, <2>2, ControlOfRetire DEF Apply
  <2>3. CASE UNCHANGED <<stopping, generation, waiting>>
    BY <1>1, <2>1, <2>3
  <2> QED
    BY <1>3, <2>2, <2>3 DEF Applied
<1>4. CASE SetOption
  <2>1. UNCHANGED <<running, lifecycle, cleaned, subscribed, lock, mutating, data, read, call>>
    BY <1>4 DEF SetOption
  <2>2. CASE Apply(~enabled)
    BY <2>1, <2>2, ControlOfRetire DEF Apply
  <2>3. CASE UNCHANGED <<stopping, generation, waiting>>
    BY <1>1, <2>1, <2>3
  <2> QED
    BY <1>4, <2>2, <2>3 DEF SetOption
<1>5. CASE Unload
  BY <1>5, ControlOfRetire DEF Unload
<1>6. CASE Restart
  <2>1. StopLocked("apply") /\ UNCHANGED <<running, mutating, revision, call>>
    BY <1>6 DEF Restart
  <2>2. generation' \in Nat /\ generation <= generation'
    BY <1>6, NumbersTyped DEF Restart
  <2>3. Tickets' /\ Holders' /\ Quiet'
    BY <2>1, <2>2, StopLockedQuiet, ControlFrame
  <2>4. CASE MayRestart
    <3>1. running /\ stopping' = ~enabled /\ cleaned' = ~enabled
      BY <1>6, <2>4 DEF Restart, MayRestart
    <3>2. lifecycle'.op = IF enabled THEN "start" ELSE "disable"
      BY <1>6, <2>4 DEF Restart
    <3> QED
      BY <2>1, <2>3, <3>1, <3>2 DEF Stopped
  <2>5. CASE ~MayRestart
    <3>1. UNCHANGED <<stopping, cleaned, lifecycle>>
      BY <1>6, <2>5 DEF Restart
    <3> QED
      BY <2>1, <2>3, <3>1 DEF Stopped
  <2> QED
    BY <2>4, <2>5
<1>7. CASE BeginDisable
  <2>1. UNCHANGED <<running, generation, mutating, revision, call>> /\ stopping'
    BY <1>7 DEF BeginDisable
  <2>2. CASE cleaned
    <3>1. UNCHANGED <<cleaned, lifecycle, subscribed, patch, read, lock>>
      BY <1>7, <2>2 DEF BeginDisable
    <3>2. Tickets' /\ Holders'
      BY <2>1, <3>1, NumbersTyped, ControlFrame
    <3>3. "stop" \in waiting => "stop" \in waiting'
      BY <1>7, <2>2 DEF BeginDisable
    <3> QED
      BY <2>1, <3>1, <3>2, <3>3 DEF Stopped, Quiet
  <2>3. CASE ~cleaned
    <3>1. StopLocked("disable")
      BY <1>7, <2>3 DEF BeginDisable
    <3>2. Tickets' /\ Holders' /\ Quiet'
      BY <2>1, <3>1, NumbersTyped, StopLockedQuiet, ControlFrame
    <3> QED
      BY <2>1, <3>2 DEF Stopped
  <2> QED
    BY <2>2, <2>3
<1>8. CASE CancelItself
  <2>1. /\ StopLocked("retained") /\ stopping'
        /\ UNCHANGED <<running, lifecycle, generation, mutating, revision, call>>
    BY <1>8 DEF CancelItself
  <2>2. Tickets' /\ Holders' /\ Quiet'
    BY <2>1, NumbersTyped, StopLockedQuiet, ControlFrame
  <2> QED
    BY <2>1, <2>2 DEF Stopped
<1>9. CASE FinishDisable
  <2>1. UNCHANGED <<running, waiting, cleaned, subscribed, stopping, generation, lock,
                    mutating, revision, patch, read, call>>
    BY <1>9 DEF FinishDisable
  <2>2. lifecycle'.op = "free"
    BY <1>9 DEF FinishDisable, Free
  <2>3. Tickets' /\ Holders'
    BY <2>1, NumbersTyped, ControlFrame
  <2> QED
    BY <2>1, <2>2, <2>3 DEF Stopped, Quiet
<1>10. CASE FinishStop
  <2>1. StopLocked("stop") /\ UNCHANGED <<running, lifecycle, cleaned, stopping, generation,
                                          mutating, revision, call>>
    BY <1>10 DEF FinishStop
  <2>2. Tickets' /\ Holders' /\ Quiet'
    BY <2>1, NumbersTyped, StopLockedQuiet, ControlFrame
  <2> QED
    BY <2>1, <2>2 DEF Stopped
<1>11. CASE OtherUpdate \/ Settle
  BY <1>1, <1>11 DEF OtherUpdate, Settle
<1> QED
  BY <1>2, <1>3, <1>4, <1>5, <1>6, <1>7, <1>8, <1>9, <1>10, <1>11
  DEF LifecycleStep, HelpersGone

LEMMA ReadsControl ==
    ASSUME TypeOK, Tickets, Holders, Stopped,
           \/ \E by \in {"task", "manual"} : Refresh(by)
           \/ PatchTimer
           \/ \E r \in Readers : ReadStep(r)
    PROVE  Tickets' /\ Holders' /\ Stopped'
<1>1. ASSUME NEW by \in {"task", "manual"}, Refresh(by)
      PROVE  Tickets' /\ Holders' /\ Stopped'
  <2>1. running /\ UNCHANGED <<running, lifecycle, cleaned, mutating, revision, patch, call>>
    BY <1>1 DEF Refresh, Stopped
  <2>2. CASE ~enabled
    <3>1. DisableSupport(by) /\ UNCHANGED <<lock, read>>
      BY <1>1, <2>2 DEF Refresh
    <3> QED
      BY <2>1, <3>1, ControlOfDisable
  <2>3. CASE enabled
    <3>1. /\ lock = Nobody /\ lock' = Poll /\ read' = [read EXCEPT ![Poll] = Reading(by)]
          /\ UNCHANGED <<lifecycleVars, epoch>>
      BY <1>1, <2>3 DEF Refresh
    <3>2. Tickets' /\ Holders'
      BY <2>1, <3>1, ControlOfStart
    <3>3. Stopped'
      BY <2>1, <3>1 DEF Stopped
    <3> QED
      BY <3>2, <3>3
  <2> QED
    BY <2>2, <2>3
<1>2. CASE PatchTimer
  <2>1. running /\ UNCHANGED <<running, lifecycle, cleaned, lock, mutating, revision, call>>
    BY <1>2 DEF PatchTimer, Stopped
  <2>2. CASE ~enabled
    <3>1. DisableSupport("task") /\ UNCHANGED read
      BY <1>2, <2>2 DEF PatchTimer
    <3> QED
      BY <2>1, <3>1, ControlOfDisable
  <2>3. CASE enabled
    <3>1. UNCHANGED <<lifecycleVars, epoch>>
      BY <1>2, <2>3 DEF PatchTimer
    <3>2. Stopped'
      BY <2>1, <3>1 DEF Stopped
    <3>3. CASE UNCHANGED read
      BY <2>1, <3>1, <3>2, <3>3, NumbersTyped, ControlFrame
    <3>4. CASE read' = [read EXCEPT ![Patch] = Queued("task")]
      <4>1. /\ read'[Patch] = Queued("task")
            /\ \A r \in Readers \ {Patch} : read'[r] = read[r]
        BY <3>4, NumbersTyped DEF TypeOK
      <4>2. /\ Queued("task").pc = "queued" /\ Queued("task").gen = generation
            /\ Queued("task").rev = 0
        BY NewReads
      <4>3. Tickets'
        BY <2>1, <3>1, <4>1, <4>2, NumbersTyped DEF Tickets
      <4>4. Holders'
        BY <2>1, <3>1, <4>1, <4>2, NumbersTyped DEF Holders
      <4> QED
        BY <3>2, <4>3, <4>4
    <3> QED
      BY <1>2, <2>3, <3>3, <3>4 DEF PatchTimer
  <2> QED
    BY <2>2, <2>3
<1>3. ASSUME NEW r \in Readers, Acquire(r)
      PROVE  Tickets' /\ Holders' /\ Stopped'
  <2>1. UNCHANGED <<lifecycleVars, epoch, mutating, revision, call>> /\ lock = Nobody
    BY <1>3 DEF Acquire
  <2>2. patch = "none" => patch' = "none"
    BY <1>3 DEF Acquire
  <2>3. read[r].by \in {"task", "start", "manual", "caller"} /\ read[r].pc = "queued"
    BY <1>3 DEF Acquire, TypeOK, ReadRecords
  <2>4. CASE Active(read[r].gen)
    <3>1. read'[r] = Reading(read[r].by) /\ \A s \in Readers \ {r} : read'[s] = read[s]
      BY <1>3, <2>4 DEF Acquire, TypeOK
    <3>2. lock' = r
      BY <1>3, <2>4 DEF Acquire
    <3>3. /\ Reading(read[r].by).gen = generation /\ Reading(read[r].by).rev = revision
          /\ Reading(read[r].by).by = read[r].by
      BY <2>3, NewReads
    <3>4. Tickets'
      BY <2>1, <3>1, <3>3, NumbersTyped DEF Tickets
    <3>5. Holders'
      BY <2>1, <3>1, <3>2, NumbersTyped DEF Holders
    <3>6. Stopped'
      BY <2>1, <2>2, <3>1, <3>3 DEF Stopped, Quiet
    <3> QED
      BY <3>4, <3>5, <3>6
  <2>5. CASE ~Active(read[r].gen)
    <3>1. read'[r] = NoRead /\ \A s \in Readers \ {r} : read'[s] = read[s]
      BY <1>3, <2>5 DEF Acquire, TypeOK
    <3>2. UNCHANGED lock
      BY <1>3, <2>5 DEF Acquire
    <3>3. Tickets' /\ Holders'
      BY <2>1, <3>1, <3>2, NumbersTyped, NoReadTyped, ControlFrame
    <3>4. Stopped'
      BY <2>1, <2>2, <3>1, NoReadTyped DEF Stopped, Quiet
    <3> QED
      BY <3>3, <3>4
  <2> QED
    BY <2>4, <2>5
<1>4. ASSUME NEW r \in Readers, See(r)
      PROVE  Tickets' /\ Holders' /\ Stopped'
  <2>1. /\ UNCHANGED <<lifecycleVars, epoch, mutating, revision, patch, call, lock>>
        /\ read[r].pc = "sent"
    BY <1>4 DEF See
  <2>2. /\ read'[r].gen = read[r].gen /\ read'[r].rev = read[r].rev
        /\ read'[r].by = read[r].by
        /\ \A s \in Readers \ {r} : read'[s] = read[s]
    BY <1>4 DEF See, TypeOK, ReadRecords
  <2>3. Tickets'
    BY <2>1, <2>2, NumbersTyped DEF Tickets
  <2>4. Holders'
    BY <2>1, <2>2 DEF Holders
  <2>5. Stopped'
    BY <2>1, <2>2 DEF Stopped, Quiet
  <2> QED
    BY <2>3, <2>4, <2>5
<1>5. ASSUME NEW r \in Readers, ReadSucceeds(r) \/ ReadFails(r)
      PROVE  Tickets' /\ Holders' /\ Stopped'
  <2>1. /\ UNCHANGED <<lifecycleVars, epoch, mutating, revision, call>> /\ Ends(r)
        /\ read[r].pc = "answered"
    BY <1>5 DEF ReadSucceeds, ReadFails
  <2>2. read'[r] = NoRead /\ \A s \in Readers \ {r} : read'[s] = read[s]
    BY <2>1 DEF Ends, TypeOK
  <2>3. patch = "none" => patch' = "none"
    BY <2>1 DEF Ends
  <2>4. lock = r
    BY <2>1 DEF Holders
  <2>5. Tickets'
    BY <2>1, <2>2, NumbersTyped, NoReadTyped DEF Tickets
  <2>6. Holders'
    BY <2>1, <2>2, <2>4, NoReadTyped DEF Holders
  <2>7. Stopped'
    BY <2>1, <2>2, <2>3, NoReadTyped DEF Stopped, Quiet
  <2> QED
    BY <2>5, <2>6, <2>7
<1> QED
  BY <1>1, <1>2, <1>3, <1>4, <1>5 DEF ReadStep

\* What the cloud makes of an edit, and what becomes of the edit.
LEMMA CarriedOut ==
    ASSUME TypeOK, NEW c \in Callers, CarryOut(c)
    PROVE  /\ call'[c].request = call[c].request /\ call'[c].gen = call[c].gen
           /\ call'[c].pc = "taken"
           /\ \A d \in Callers \ {c} : call'[d] = call[d]
           /\ call'[c].sent \in Sent(c)
           /\ call'[c].echo = Outcome(c, call'[c].sent)
           /\ cloud' = call'[c].echo
           /\ known' = StillKnown(cloud')
<1>1. PICK sent \in Sent(c) :
          /\ cloud' = Outcome(c, sent)
          /\ known' = StillKnown(Outcome(c, sent))
          /\ call' = [call EXCEPT ![c].pc = "taken", ![c].sent = sent,
                                  ![c].echo = Outcome(c, sent)]
  BY DEF CarryOut
<1>2. call' = [call EXCEPT ![c] = [call[c] EXCEPT !.pc = "taken", !.sent = sent,
                                                 !.echo = Outcome(c, sent)]]
  BY <1>1 DEF TypeOK
<1>3. /\ call'[c] = [call[c] EXCEPT !.pc = "taken", !.sent = sent, !.echo = Outcome(c, sent)]
      /\ \A d \in Callers \ {c} : call'[d] = call[d]
  BY <1>2 DEF TypeOK
<1>4. call[c] \in CallRecords
  BY DEF TypeOK
<1>5. /\ call'[c].request = call[c].request /\ call'[c].gen = call[c].gen
      /\ call'[c].pc = "taken" /\ call'[c].sent = sent /\ call'[c].echo = Outcome(c, sent)
  BY <1>3, <1>4 DEF CallRecords
<1> QED
  BY <1>1, <1>3, <1>5

\* An edit that is accepted tells the reads under way only what they cannot know.
LEMMA AcceptedReads ==
    ASSUME TypeOK, Tickets, SentTrue, NEW c \in Callers, NEW full \in BOOLEAN, Accepted(c, full)
    PROVE  /\ Asked(c) \subseteq Slots
           /\ \A r \in Readers :
                 /\ read'[r].pc = read[r].pc /\ read'[r].by = read[r].by
                 /\ read'[r].gen = read[r].gen /\ read'[r].rev = read[r].rev
                 /\ read'[r].seen = read[r].seen
<1>1. call[c].sent \in Payloads /\ call[c].request \in Edits
  BY DEF Accepted, SentTrue, Tickets
<1>2. Asked(c) \subseteq Slots
  BY <1>1, PayloadDomain DEF Asked, Edits
<1>3. UNCHANGED read \/ read' = Blinded(c)
  BY DEF Accepted
<1> QED
  BY <1>2, <1>3, BlindedTyped

\* A step of an edit changes nothing of the lifecycle; it starts no read that is sent.
LEMMA EditsControl ==
    ASSUME TypeOK, Tickets, Holders, Stopped, SentTrue,
           \/ \E c \in Callers : EditStep(c) \/ CarryOut(c)
           \/ \E c \in Callers : \E request \in Requests[c] : Ask(c, request)
           \/ \E change \in Elsewhere : External(change.slot, change.to)
    PROVE  Tickets' /\ Holders' /\ Stopped'
<1>1. ASSUME NEW c \in Callers, UNCHANGED <<generation, read, lock>>,
             revision' \in Nat, revision <= revision',
             \A d \in Callers \ {c} : call'[d] = call[d],
             call'[c].gen <= generation,
             call'[c].pc # "idle" => call'[c].request \in Edits,
             call'[c].pc = "prepare" => call'[c].request.kind = "replace"
      PROVE  Tickets'
  BY <1>1, NumbersTyped DEF Tickets
<1>2. ASSUME NEW c \in Callers, UNCHANGED <<read, lock>>,
             \A d \in Callers \ {c} : call'[d] = call[d],
             \/ mutating = Nobody /\ mutating' = c
             \/ mutating = c /\ mutating' = c
             \/ mutating = c /\ mutating' = Nobody /\ call'[c].pc = "idle"
      PROVE  Holders'
  BY <1>2, NumbersTyped DEF Holders
<1>3. ASSUME UNCHANGED <<running, stopping, lifecycle, waiting, cleaned, subscribed, patch, read>>
      PROVE  Stopped'
  BY <1>3 DEF Stopped, Quiet
<1>4. ASSUME NEW c \in Callers, Enter(c)
      PROVE  Tickets' /\ Holders' /\ Stopped'
  <2>1. /\ UNCHANGED <<lifecycleVars, epoch, lock, data>>
        /\ call[c].pc = "queued" /\ mutating = Nobody
    BY <1>4 DEF Enter, MayEnter
  <2>2. call[c].request \in Edits /\ call[c].gen <= generation
    BY <2>1 DEF Tickets
  <2>3. CASE call' = [call EXCEPT ![c] = NoCall] /\ UNCHANGED <<mutating, read>>
    <3>1. call'[c] = NoCall /\ \A d \in Callers \ {c} : call'[d] = call[d]
      BY <2>3 DEF TypeOK
    <3>2. Tickets'
      BY <1>1, <2>1, <2>3, <3>1, NoCallTyped, NumbersTyped
    <3>3. Holders'
      BY <2>1, <2>3, <3>1, NoCallTyped DEF Holders
    <3> QED
      BY <1>3, <2>1, <2>3, <3>2, <3>3
  <2>4. CASE /\ call[c].request.kind = "replace"
             /\ mutating' = c
             /\ call' = [call EXCEPT ![c].pc = "prepare"]
             /\ read' = [read EXCEPT ![c] = Queued("caller")]
    <3>1. /\ call'[c].request = call[c].request /\ call'[c].gen = call[c].gen
          /\ call'[c].pc = "prepare"
          /\ \A d \in Callers \ {c} : call'[d] = call[d]
      BY <2>4 DEF TypeOK, CallRecords
    <3>2. read'[c] = Queued("caller") /\ \A r \in Readers \ {c} : read'[r] = read[r]
      BY <2>4, NumbersTyped DEF TypeOK
    <3>3. /\ Queued("caller").pc = "queued" /\ Queued("caller").gen = generation
          /\ Queued("caller").rev = 0 /\ Queued("caller").by = "caller"
      BY NewReads
    <3>4. Tickets'
      <4>1. \A r \in Readers : read'[r].gen <= generation' /\ read'[r].rev <= revision'
        BY <2>1, <3>2, <3>3, NumbersTyped DEF Tickets
      <4>2. \A d \in Callers : read'[d].by # "task" /\ call'[d].gen <= generation'
        BY <2>1, <2>2, <3>1, <3>2, <3>3, NumbersTyped DEF Tickets
      <4>3. \A d \in Callers : call'[d].pc # "idle" => call'[d].request \in Edits
        BY <2>2, <3>1 DEF Tickets
      <4>4. \A d \in Callers : call'[d].pc = "prepare" => call'[d].request.kind = "replace"
        BY <2>4, <3>1 DEF Tickets
      <4> QED
        BY <4>1, <4>2, <4>3, <4>4 DEF Tickets
    <3>5. Holders'
      <4>1. \A r \in Readers : read'[r].pc \in {"sent", "answered"} => lock' = r
        BY <2>1, <3>2, <3>3 DEF Holders
      <4>2. \A d \in Callers : call'[d].pc \in {"prepare", "sent", "taken"} => mutating' = d
        BY <2>1, <2>4, <3>1, NumbersTyped DEF Holders
      <4> QED
        BY <4>1, <4>2 DEF Holders
    <3>6. Stopped'
      <4>1. \A r \in Readers : read[r].by # "task" => read'[r].by # "task"
        BY <3>2, <3>3
      <4> QED
        BY <2>1, <4>1 DEF Stopped, Quiet
    <3> QED
      BY <3>4, <3>5, <3>6
  <2>5. CASE /\ mutating' = c
             /\ call' = [call EXCEPT ![c].pc = "sent", ![c].sent = Payload(call[c].request)]
             /\ UNCHANGED read
    <3>1. /\ call'[c].request = call[c].request /\ call'[c].gen = call[c].gen
          /\ call'[c].pc = "sent"
          /\ \A d \in Callers \ {c} : call'[d] = call[d]
      BY <2>5 DEF TypeOK, CallRecords
    <3>2. mutating' = c /\ UNCHANGED read
      BY <2>5
    <3>3. Tickets'
      BY <1>1, <2>1, <2>2, <3>1, <3>2, NumbersTyped
    <3>4. Holders'
      BY <1>2, <2>1, <3>1, <3>2
    <3> QED
      BY <1>3, <2>1, <3>2, <3>3, <3>4
  <2> QED
    BY <1>4, <2>3, <2>4, <2>5 DEF Enter
<1>5. ASSUME NEW c \in Callers, Prepared(c)
      PROVE  Tickets' /\ Holders' /\ Stopped'
  <2>1. /\ UNCHANGED <<lifecycleVars, epoch, lock, data, read>>
        /\ call[c].pc = "prepare" /\ mutating = c
    BY <1>5 DEF Prepared, Holders
  <2>2. call[c].request \in Edits /\ call[c].gen <= generation
    BY <2>1 DEF Tickets
  <2>3. CASE Active(call[c].gen)
    <3>1. /\ call' = [call EXCEPT ![c].pc = "sent", ![c].sent = Payload(call[c].request)]
          /\ mutating' = mutating
      BY <1>5, <2>3 DEF Prepared
    <3>2. /\ call'[c].request = call[c].request /\ call'[c].gen = call[c].gen
          /\ call'[c].pc = "sent"
          /\ \A d \in Callers \ {c} : call'[d] = call[d]
      BY <3>1 DEF TypeOK, CallRecords
    <3>3. Tickets'
      BY <1>1, <2>1, <2>2, <3>2, NumbersTyped
    <3>4. Holders'
      BY <1>2, <2>1, <3>1, <3>2
    <3> QED
      BY <1>3, <2>1, <3>3, <3>4
  <2>4. CASE ~Active(call[c].gen)
    <3>1. call' = [call EXCEPT ![c] = NoCall] /\ mutating' = Nobody
      BY <1>5, <2>4 DEF Prepared
    <3>2. call'[c] = NoCall /\ \A d \in Callers \ {c} : call'[d] = call[d]
      BY <3>1 DEF TypeOK
    <3>3. Tickets'
      BY <1>1, <2>1, <3>2, NoCallTyped, NumbersTyped
    <3>4. Holders'
      BY <1>2, <2>1, <3>1, <3>2, NoCallTyped
    <3> QED
      BY <1>3, <2>1, <3>3, <3>4
  <2> QED
    BY <2>3, <2>4
<1>6. ASSUME NEW c \in Callers, Failed(c)
      PROVE  Tickets' /\ Holders' /\ Stopped'
  <2>1. /\ UNCHANGED <<lifecycleVars, epoch, lock, data, read>>
        /\ mutating = c /\ mutating' = Nobody
    BY <1>6 DEF Failed, Holders
  <2>2. call'[c] = NoCall /\ \A d \in Callers \ {c} : call'[d] = call[d]
    BY <1>6 DEF Failed, TypeOK
  <2>3. Tickets'
    BY <1>1, <2>1, <2>2, NoCallTyped, NumbersTyped
  <2>4. Holders'
    BY <1>2, <2>1, <2>2, NoCallTyped
  <2> QED
    BY <1>3, <2>1, <2>3, <2>4
<1>7. ASSUME NEW c \in Callers, NEW full \in BOOLEAN, Accepted(c, full)
      PROVE  Tickets' /\ Holders' /\ Stopped'
  <2>1. /\ UNCHANGED <<lifecycleVars, epoch, lock>>
        /\ mutating = c /\ mutating' = Nobody
    BY <1>7 DEF Accepted, Holders
  <2>2. call'[c] = NoCall /\ \A d \in Callers \ {c} : call'[d] = call[d]
    BY <1>7 DEF Accepted, TypeOK
  <2>3. /\ revision' \in Nat /\ revision <= revision'
        /\ stopping => UNCHANGED patch
    BY <1>7, NumbersTyped DEF Accepted, Revised, Active
  <2>4. \A r \in Readers :
           /\ read'[r].pc = read[r].pc /\ read'[r].by = read[r].by
           /\ read'[r].gen = read[r].gen /\ read'[r].rev = read[r].rev
    BY <1>7, AcceptedReads
  <2>5. Tickets'
    BY <2>1, <2>2, <2>3, <2>4, NoCallTyped, NumbersTyped DEF Tickets
  <2>6. Holders'
    BY <2>1, <2>2, <2>4, NoCallTyped DEF Holders
  <2>7. Stopped'
    BY <2>1, <2>3, <2>4 DEF Stopped, Quiet
  <2> QED
    BY <2>5, <2>6, <2>7
<1>8. ASSUME NEW c \in Callers, CarryOut(c)
      PROVE  Tickets' /\ Holders' /\ Stopped'
  <2>1. /\ UNCHANGED <<lifecycleVars, epoch, lock, data, read, mutating>>
        /\ mutating = c /\ call[c].pc = "sent"
    BY <1>8 DEF CarryOut, Holders
  <2>2. call[c].request \in Edits /\ call[c].gen <= generation
    BY <2>1 DEF Tickets
  <2>3. /\ call'[c].request = call[c].request /\ call'[c].gen = call[c].gen
        /\ call'[c].pc = "taken"
        /\ \A d \in Callers \ {c} : call'[d] = call[d]
    BY <1>8, CarriedOut
  <2>4. Tickets'
    BY <1>1, <2>1, <2>2, <2>3, NumbersTyped
  <2>5. Holders'
    BY <1>2, <2>1, <2>3
  <2> QED
    BY <1>3, <2>1, <2>4, <2>5
<1>9. ASSUME NEW c \in Callers, NEW request \in Edits, Ask(c, request)
      PROVE  Tickets' /\ Holders' /\ Stopped'
  <2>1. UNCHANGED <<lifecycleVars, epoch, lock, data, read, mutating>> /\ call[c].pc = "idle"
    BY <1>9, Zenon DEF Ask
  <2>2. \A d \in Callers \ {c} : call'[d] = call[d]
    BY <1>9 DEF Ask, TypeOK
  <2>3. call'[c].pc = "queued" /\ call'[c].gen = generation /\ call'[c].request = request
    BY <1>9 DEF Ask, TypeOK, NoCall
  <2>4. Tickets'
    BY <1>1, <2>1, <2>2, <2>3, NumbersTyped
  <2>5. Holders'
    BY <2>1, <2>2, <2>3 DEF Holders
  <2> QED
    BY <1>3, <2>1, <2>4, <2>5
<1>10. ASSUME NEW k, NEW state, External(k, state)
       PROVE  Tickets' /\ Holders' /\ Stopped'
  <2>1. UNCHANGED <<lifecycleVars, epoch, lock, data, read, call, mutating>>
    BY <1>10 DEF External
  <2> QED
    BY <2>1 DEF Tickets, Holders, Stopped, Quiet
<1> QED
  BY <1>4, <1>5, <1>6, <1>7, <1>8, <1>9, <1>10, ConstantsAssumption DEF EditStep
-----------------------------------------------------------------------------
\* What reads have seen, edits have sent and the cache holds.

DataInv == KnownIsTrue /\ CacheCreated /\ SeenTrue /\ SentTrue /\ AcceptedKept

\* A step that brings no read and no edit to an answer, and that does not change the
\* cache, the charger and what is known of it.
LEMMA DataFrame ==
    ASSUME TypeOK, DataInv, UNCHANGED <<revision, cache, cloud, reported, known>>,
           \A c \in Callers : call'[c] = call[c] \/ call'[c].pc \notin {"sent", "taken"},
           \A r \in Readers : \/ read'[r] = read[r]
                              \/ read'[r].pc # "answered" /\ read'[r].blind = {}
    PROVE  DataInv'
<1>1. KnownIsTrue' /\ CacheCreated' /\ AcceptedKept'
  BY DEF DataInv, KnownIsTrue, CacheCreated, AcceptedKept
<1>2. SeenTrue'
  BY DEF DataInv, SeenTrue
<1>3. SentTrue'
  <2>1. ASSUME NEW c \in Callers, call'[c].pc \in {"sent", "taken"}
        PROVE  call'[c] = call[c]
    BY <2>1
  <2> QED
    BY <2>1 DEF DataInv, SentTrue
<1> QED
  BY <1>1, <1>2, <1>3 DEF DataInv

\* An edit under way asks for what it asked for, when slots are created and when less
\* is known of them.
LEMMA LessKnown ==
    ASSUME SentTrue, UNCHANGED call,
           \A k \in Slots : /\ cloud'[k] = "new" => cloud[k] = "new"
                            /\ known'[k] # Unknown => known'[k] = known[k]
    PROVE  SentTrue'
<1>1. ASSUME NEW c \in Callers, call[c].pc \in {"sent", "taken"}, NEW k \in DOMAIN call[c].sent
      PROVE  k \in Slots
  BY <1>1, PayloadDomain DEF SentTrue
<1> QED
  BY <1>1 DEF SentTrue

LEMMA LifecycleData ==
    ASSUME TypeOK, Tickets, Holders, DataInv,
           LifecycleStep \/ HelpersGone \/ SetOption \/ OtherUpdate \/ Unload \/ Settle
    PROVE  DataInv'
<1>1. CASE FinishStart
  <2>1. UNCHANGED <<revision, cache, cloud, reported, known, call>>
    BY <1>1 DEF FinishStart
  <2>2. \A r \in Readers : \/ read'[r] = read[r]
                           \/ read'[r].pc # "answered" /\ read'[r].blind = {}
    <3>1. /\ Reading("start").pc = "sent" /\ Reading("manual").pc = "sent"
          /\ Reading("start").blind = {} /\ Reading("manual").blind = {}
      BY NewReads
    <3>2. \/ UNCHANGED read
          \/ read' = [read EXCEPT ![Poll] = Reading("start")]
          \/ read' = [read EXCEPT ![Poll] = Reading("manual")]
      BY <1>1 DEF FinishStart
    <3> QED
      BY <3>1, <3>2 DEF TypeOK
  <2> QED
    BY <2>1, <2>2, DataFrame
<1>2. CASE Applied \/ SetOption \/ OtherUpdate \/ Unload
  <2>1. UNCHANGED <<revision, cache, cloud, reported, known, call, read>>
    BY <1>2 DEF Applied, SetOption, OtherUpdate, Unload
  <2> QED
    BY <2>1, DataFrame
<1>3. CASE Restart \/ BeginDisable \/ CancelItself \/ FinishStop
  <2>1. UNCHANGED <<revision, cache, cloud, reported, known, call>>
    BY <1>3 DEF Restart, BeginDisable, CancelItself, FinishStop
  <2>2. \/ UNCHANGED read
        \/ \E leaves \in Waiters : StopLocked(leaves)
    BY <1>3 DEF Restart, BeginDisable, CancelItself, FinishStop, Waiters
  <2>3. \A r \in Readers : \/ read'[r] = read[r]
                           \/ read'[r].pc # "answered" /\ read'[r].blind = {}
    BY <2>2, StopLockedQuiet, NoReadTyped
  <2> QED
    BY <2>1, <2>3, DataFrame
<1>4. CASE FinishDisable
  <2>1. /\ UNCHANGED <<revision, cloud, reported, call, read>>
        /\ \A k \in Slots : cache'[k] = "absent" /\ known'[k] = Unknown
    BY <1>4 DEF FinishDisable
  <2>2. KnownIsTrue' /\ CacheCreated' /\ AcceptedKept'
    BY <2>1 DEF KnownIsTrue, CacheCreated, AcceptedKept, Present
  <2>3. SeenTrue'
    BY <2>1 DEF DataInv, SeenTrue
  <2>4. SentTrue'
    BY <2>1, LessKnown DEF DataInv
  <2> QED
    BY <2>2, <2>3, <2>4 DEF DataInv
<1>5. CASE Settle
  <2>1. UNCHANGED <<revision, cache, cloud, known, read, call>> /\ reported' = cloud
    BY <1>5 DEF Settle
  <2>2. KnownIsTrue' /\ CacheCreated' /\ AcceptedKept' /\ SentTrue'
    BY <2>1 DEF DataInv, KnownIsTrue, CacheCreated, AcceptedKept, SentTrue
  <2>3. SeenTrue'
    BY <2>1 DEF DataInv, SeenTrue, Present
  <2> QED
    BY <2>2, <2>3 DEF DataInv
<1> QED
  BY <1>1, <1>2, <1>3, <1>4, <1>5 DEF LifecycleStep, HelpersGone

LEMMA ReadsData ==
    ASSUME TypeOK, Tickets, Holders, DataInv,
           \/ \E by \in {"task", "manual"} : Refresh(by)
           \/ PatchTimer
           \/ \E r \in Readers : ReadStep(r)
    PROVE  DataInv'
<1>1. ASSUME NEW by \in {"task", "manual"}, Refresh(by)
      PROVE  DataInv'
  <2>1. UNCHANGED <<revision, cache, cloud, reported, known, call>>
    BY <1>1 DEF Refresh
  <2>2. UNCHANGED read \/ read' = [read EXCEPT ![Poll] = Reading(by)]
    BY <1>1 DEF Refresh
  <2>3. \A r \in Readers : \/ read'[r] = read[r]
                           \/ read'[r].pc # "answered" /\ read'[r].blind = {}
    BY <2>2, NewReads DEF TypeOK
  <2> QED
    BY <2>1, <2>3, DataFrame
<1>2. CASE PatchTimer
  <2>1. UNCHANGED <<revision, cache, cloud, reported, known, call>>
    BY <1>2 DEF PatchTimer
  <2>2. UNCHANGED read \/ read' = [read EXCEPT ![Patch] = Queued("task")]
    BY <1>2 DEF PatchTimer
  <2>3. \A r \in Readers : \/ read'[r] = read[r]
                           \/ read'[r].pc # "answered" /\ read'[r].blind = {}
    BY <2>2, NewReads DEF TypeOK
  <2> QED
    BY <2>1, <2>3, DataFrame
<1>3. ASSUME NEW r \in Readers, Acquire(r)
      PROVE  DataInv'
  <2>1. UNCHANGED <<revision, cache, cloud, reported, known, call>>
    BY <1>3 DEF Acquire
  <2>2. read[r].by \in {"task", "start", "manual", "caller"}
    BY DEF TypeOK, ReadRecords
  <2>3. \A s \in Readers : \/ read'[s] = read[s]
                           \/ read'[s].pc # "answered" /\ read'[s].blind = {}
    BY <1>3, <2>2, NewReads, NoReadTyped DEF Acquire, TypeOK
  <2> QED
    BY <2>1, <2>3, DataFrame
<1>4. ASSUME NEW r \in Readers, See(r)
      PROVE  DataInv'
  <2>1. UNCHANGED <<revision, cache, cloud, reported, known, call>>
    BY <1>4 DEF See
  <2>2. /\ read'[r].seen = Listing(reported) /\ read'[r].rev = read[r].rev
        /\ read'[r].blind = read[r].blind
        /\ \A s \in Readers \ {r} : read'[s] = read[s]
    BY <1>4 DEF See, TypeOK, ReadRecords
  <2>3. Listing(reported) \in Listings
    BY ListingTyped DEF TypeOK
  <2>4. \A k \in Slots : Present(Listing(reported)[k]) => cloud[k] # "new"
    BY DEF DataInv, SeenTrue, Listing, Listed, Present
  <2>5. SeenTrue'
    BY <2>1, <2>2, <2>3, <2>4 DEF DataInv, SeenTrue
  <2>6. KnownIsTrue' /\ CacheCreated' /\ AcceptedKept' /\ SentTrue'
    BY <2>1 DEF DataInv, KnownIsTrue, CacheCreated, AcceptedKept, SentTrue
  <2> QED
    BY <2>5, <2>6 DEF DataInv
<1>5. ASSUME NEW r \in Readers, Ends(r)
      PROVE  \A s \in Readers : read'[s] = read[s] \/ read'[s] = NoRead
  BY <1>5 DEF Ends, TypeOK
<1>6. ASSUME NEW r \in Readers, ReadFails(r)
      PROVE  DataInv'
  <2>1. UNCHANGED <<revision, cache, cloud, reported, known, call>> /\ Ends(r)
    BY <1>6 DEF ReadFails
  <2> QED
    BY <1>5, <2>1, NoReadTyped, DataFrame
<1>7. ASSUME NEW r \in Readers, ReadSucceeds(r)
      PROVE  DataInv'
  <2>1. UNCHANGED <<revision, cloud, reported, call>> /\ Ends(r) /\ read[r].pc = "answered"
    BY <1>7 DEF ReadSucceeds
  <2>2. CASE ~Fresh(r)
    <3>1. UNCHANGED <<cache, known>>
      BY <1>7, <2>2 DEF ReadSucceeds
    <3> QED
      BY <1>5, <2>1, <3>1, NoReadTyped, DataFrame
  <2>3. CASE Fresh(r)
    <3>1. read[r].blind = {}
      BY <2>3 DEF Fresh, DataInv, SeenTrue
    <3>2. /\ cache' = read[r].seen
          /\ \A k \in Slots : known'[k] = IF read[r].seen[k] = known[k] THEN known[k] ELSE Unknown
      BY <1>7, <2>3, <3>1 DEF ReadSucceeds
    <3>3. \A k \in Slots : Present(cache'[k]) => cloud[k] # "new"
      BY <2>1, <3>2 DEF DataInv, SeenTrue
    <3>4. KnownIsTrue' /\ CacheCreated' /\ AcceptedKept'
      BY <2>1, <3>2, <3>3 DEF DataInv, KnownIsTrue, CacheCreated, AcceptedKept
    <3>5. SeenTrue'
      BY <1>5, <2>1, NoReadTyped DEF DataInv, SeenTrue
    <3>6. SentTrue'
      BY <2>1, <3>2, LessKnown DEF DataInv
    <3> QED
      BY <3>4, <3>5, <3>6 DEF DataInv
  <2> QED
    BY <2>2, <2>3
<1> QED
  BY <1>1, <1>2, <1>3, <1>4, <1>6, <1>7 DEF ReadStep

\* What a new payload says: a toggle speaks of the slots of the cache.
LEMMA SendingTrue ==
    ASSUME TypeOK, DataInv, NEW request \in Edits,
           request.kind = "toggle" => Present(cache[request.slot])
    PROVE  /\ Payload(request) \in Payloads
           /\ \A k \in DOMAIN Payload(request) :
                 /\ Payload(request)[k] # "new"
                 /\ request.kind = "toggle" =>
                       /\ Present(Payload(request)[k]) /\ cloud[k] # "new"
                       /\ k # request.slot /\ known[k] # Unknown => Payload(request)[k] = known[k]
           /\ request.kind = "toggle" => request.slot \in DOMAIN Payload(request)
<1>1. request.slot \in Slots /\ request.to \in {"on", "off"}
  BY DEF Edits
<1>2. DOMAIN Payload(request) = SentSlots(request) /\ SentSlots(request) \subseteq Slots
  BY DEF Payload, SentSlots
<1>3. \A k \in SentSlots(request) :
         Payload(request)[k] = IF k = request.slot /\ request.kind # "delete" THEN request.to
                               ELSE IF request.kind = "toggle" THEN cache[k] ELSE "gone"
  BY DEF Payload
<1>4. \A k \in SentSlots(request) : request.kind = "toggle" => Present(cache[k])
  BY DEF SentSlots
<1>5. request.kind = "toggle" => request.slot \in SentSlots(request)
  BY <1>1 DEF SentSlots
<1>6. ASSUME NEW k \in SentSlots(request)
      PROVE  /\ Payload(request)[k] # "new"
             /\ request.kind = "toggle" =>
                   /\ Present(Payload(request)[k]) /\ cloud[k] # "new"
                   /\ k # request.slot /\ known[k] # Unknown => Payload(request)[k] = known[k]
  <2>1. k \in Slots
    BY <1>2
  <2> QED
    BY <1>1, <1>3, <1>4, <2>1 DEF DataInv, CacheCreated, AcceptedKept, Present
<1> QED
  BY <1>2, <1>5, <1>6, PayloadTyped

Sends(c, sent) == call' = [call EXCEPT ![c].pc = "sent", ![c].sent = sent]

LEMMA SentCall ==
    ASSUME TypeOK, NEW c \in Callers, NEW sent, Sends(c, sent)
    PROVE  /\ call'[c].request = call[c].request /\ call'[c].gen = call[c].gen
           /\ call'[c].pc = "sent" /\ call'[c].sent = sent
           /\ \A d \in Callers \ {c} : call'[d] = call[d]
<1>1. call' = [call EXCEPT ![c] = [call[c] EXCEPT !.pc = "sent", !.sent = sent]]
  BY DEF Sends, TypeOK
<1>2. /\ call'[c] = [call[c] EXCEPT !.pc = "sent", !.sent = sent]
      /\ \A d \in Callers \ {c} : call'[d] = call[d]
  BY <1>1 DEF TypeOK
<1>3. call[c] \in CallRecords
  BY DEF TypeOK
<1> QED
  BY <1>2, <1>3 DEF CallRecords

\* An edit is sent.
LEMMA SendingData ==
    ASSUME TypeOK, Tickets, Holders, DataInv, NEW c \in Callers,
           call[c].pc \in {"queued", "prepare"}, call[c].pc = "queued" => mutating = Nobody,
           call[c].request.kind = "toggle" => Present(cache[call[c].request.slot]),
           Sends(c, Payload(call[c].request)),
           UNCHANGED <<revision, cache, cloud, reported, known, read>>
    PROVE  DataInv'
<1> DEFINE request == call[c].request
           sent == Payload(request)
<1>1. /\ call'[c].request = request /\ call'[c].gen = call[c].gen
      /\ call'[c].pc = "sent" /\ call'[c].sent = sent
      /\ \A d \in Callers \ {c} : call'[d] = call[d]
  BY SentCall
<1>2. request \in Edits
  BY DEF Tickets
<1>3. /\ sent \in Payloads
      /\ \A k \in DOMAIN sent :
            /\ sent[k] # "new"
            /\ request.kind = "toggle" =>
                  /\ Present(sent[k]) /\ cloud[k] # "new"
                  /\ k # request.slot /\ known[k] # Unknown => sent[k] = known[k]
      /\ request.kind = "toggle" => request.slot \in DOMAIN sent
  BY <1>2, SendingTrue
<1> HIDE DEF request, sent
<1>4. KnownIsTrue' /\ CacheCreated' /\ AcceptedKept' /\ SeenTrue'
  BY DEF DataInv, KnownIsTrue, CacheCreated, AcceptedKept, SeenTrue
<1>5. \A d \in Callers \ {c} : call[d].pc \notin {"sent", "taken"}
  BY NumbersTyped DEF Holders
<1>6. \A d \in Callers : call'[d].pc \in {"sent", "taken"} => d = c
  BY <1>1, <1>5
<1>7. SentTrue'
  BY <1>1, <1>3, <1>6 DEF SentTrue
<1> QED
  BY <1>4, <1>7 DEF DataInv

LEMMA CarryOutData ==
    ASSUME TypeOK, Tickets, Holders, DataInv, NEW c \in Callers, CarryOut(c)
    PROVE  DataInv'
<1> DEFINE request == call[c].request
           sent == call'[c].sent
<1>1. /\ UNCHANGED <<revision, cache, reported, read>> /\ call[c].pc = "sent" /\ mutating = c
  BY DEF CarryOut, Holders
<1>2. /\ call'[c].request = request /\ call'[c].gen = call[c].gen /\ call'[c].pc = "taken"
      /\ call'[c].echo = cloud' /\ cloud' = Outcome(c, sent)
      /\ known' = StillKnown(cloud') /\ sent \in Sent(c)
      /\ \A d \in Callers \ {c} : call'[d] = call[d]
  BY CarriedOut
<1>3. request \in Edits /\ request.to \in {"on", "off"}
  BY <1>1 DEF Tickets, Edits
<1>4. call[c].sent \in Payloads /\ \A k \in DOMAIN call[c].sent : call[c].sent[k] # "new"
  BY <1>1 DEF DataInv, SentTrue
<1>5. sent \in Payloads /\ cloud' \in Schedules
  BY <1>2, <1>3, <1>4, SentTyped, OutcomeTyped
<1>6. \A k \in DOMAIN sent : sent[k] # "new" /\ k \in Slots
  <2>1. CASE Creates(c)
    BY <1>2, <1>3, <2>1 DEF Sent
  <2>2. CASE ~Creates(c)
    BY <1>2, <1>4, <2>2, PayloadDomain DEF Sent
  <2> QED
    BY <2>1, <2>2
<1>7. request.kind = "toggle" => sent = call[c].sent
  BY <1>2 DEF Sent, Creates
<1> HIDE DEF sent
<1>8. \A k \in Slots :
         cloud'[k] = IF k \in DOMAIN sent
                        /\ \/ Present(cloud[k])
                           \/ cloud[k] = "new" /\ Present(sent[k]) /\ request.kind # "toggle"
                     THEN sent[k] ELSE cloud[k]
  BY <1>2 DEF Outcome
<1>9. \A k \in Slots : known'[k] = IF cloud'[k] = cloud[k] THEN known[k] ELSE Unknown
  BY <1>2 DEF StillKnown
<1>10. /\ \A k \in Slots : cloud[k] = "gone" => cloud'[k] = "gone"
       /\ \A k \in Slots : cloud'[k] = "new" => cloud[k] = "new"
  BY <1>6, <1>8 DEF Present
<1>11. KnownIsTrue' /\ CacheCreated' /\ AcceptedKept'
  BY <1>1, <1>9, <1>10 DEF DataInv, KnownIsTrue, CacheCreated, AcceptedKept
<1>12. SeenTrue'
  BY <1>1, <1>10 DEF DataInv, SeenTrue
<1>13. \A d \in Callers \ {c} : call'[d].pc \notin {"sent", "taken"}
  BY <1>1, <1>2 DEF Holders
<1>14. request.kind = "toggle" =>
          /\ request.slot \in DOMAIN sent
          /\ \A k \in DOMAIN sent :
                /\ Present(sent[k]) /\ cloud[k] # "new"
                /\ k # request.slot /\ known[k] # Unknown => sent[k] = known[k]
  BY <1>1, <1>7 DEF DataInv, SentTrue
<1>15. \A k \in DOMAIN sent : Present(sent[k]) => cloud'[k] # "new"
  BY <1>6, <1>8, <1>14
<1>16. \A k \in Slots : known'[k] # Unknown => Listed(cloud'[k]) = known'[k]
  BY <1>11 DEF KnownIsTrue
<1>17. call'[c].sent = sent
  BY DEF sent
<1>18. request.kind = "toggle" =>
          /\ request.slot \in DOMAIN sent
          /\ \A k \in DOMAIN sent :
                /\ Present(sent[k]) /\ cloud'[k] # "new"
                /\ k # request.slot /\ known'[k] # Unknown => sent[k] = known'[k]
  BY <1>1, <1>6, <1>9, <1>10, <1>14, <1>17
<1> HIDE DEF request
<1>19. SentTrue'
  BY <1>2, <1>5, <1>6, <1>10, <1>13, <1>15, <1>16, <1>17, <1>18 DEF SentTrue
<1> QED
  BY <1>11, <1>12, <1>19 DEF DataInv

\* An edit that still counts is accepted: what the cache holds of the slots it was
\* about and of the others.
LEMMA AcceptedData ==
    ASSUME TypeOK, Tickets, Holders, DataInv, NEW c \in Callers, NEW full \in BOOLEAN,
           Accepted(c, full), Active(call[c].gen)
    PROVE  DataInv'
<1>1. /\ UNCHANGED <<cloud, reported>> /\ call[c].pc = "taken" /\ mutating = c
      /\ revision' = revision + 1
      /\ cache' = IF full THEN Listing(call[c].echo) ELSE Echo(c)
      /\ \A k \in Slots :
            known'[k] = IF k \notin Asked(c) THEN known[k]
                        ELSE IF k \in Carried(c, full) THEN Listed(cloud[k]) ELSE Unknown
  BY DEF Accepted, Holders, Revised
<1>2. /\ call[c].sent \in Payloads /\ call[c].echo \in Schedules
      /\ \A k \in DOMAIN call[c].sent : call[c].request.kind = "toggle" =>
            /\ Present(call[c].sent[k])
            /\ k # call[c].request.slot /\ known[k] # Unknown => call[c].sent[k] = known[k]
      /\ \A k \in Slots : /\ cloud[k] = "new" => call[c].echo[k] = "new"
                          /\ known[k] # Unknown => Listed(call[c].echo[k]) = known[k]
      /\ \A k \in DOMAIN call[c].sent : Present(call[c].sent[k]) => cloud[k] # "new"
  BY <1>1 DEF DataInv, SentTrue
<1>3. \A k \in Slots :
         Echo(c)[k] = IF k \in Echoed(c) THEN Listed(call[c].sent[k]) ELSE cache[k]
  BY DEF Echo
<1>4. \A k \in Slots : full => cache'[k] = Listed(call[c].echo[k])
  BY <1>1 DEF Listing
<1>5. KnownIsTrue'
  BY <1>1 DEF DataInv, KnownIsTrue
<1>6. CacheCreated'
  <2>1. ASSUME NEW k \in Slots, Present(cache'[k])
        PROVE  cloud[k] # "new"
    <3>1. CASE full
      BY <1>2, <1>4, <2>1, <3>1 DEF Listed, Present
    <3>2. CASE ~full /\ k \in Echoed(c)
      BY <1>1, <1>2, <1>3, <2>1, <3>2 DEF Echoed, Listed, Present
    <3>3. CASE ~full /\ k \notin Echoed(c)
      BY <1>1, <1>3, <2>1, <3>3 DEF DataInv, CacheCreated
    <3> QED
      BY <3>1, <3>2, <3>3
  <2> QED
    BY <1>1, <2>1 DEF CacheCreated
<1>7. AcceptedKept'
  <2>1. ASSUME NEW k \in Slots, k \in Asked(c), known'[k] # Unknown
        PROVE  cache'[k] = known'[k]
    <3>1. k \in Carried(c, full) /\ known'[k] = Listed(cloud[k])
      BY <1>1, <2>1
    <3>2. /\ full \/ k \in Echoed(c)
          /\ call[c].sent[k] = cloud[k] /\ call[c].echo[k] = cloud[k]
      BY <3>1 DEF Carried
    <3> QED
      BY <1>1, <1>3, <1>4, <3>1, <3>2
  <2>2. ASSUME NEW k \in Slots, k \notin Asked(c), known'[k] # Unknown
        PROVE  cache'[k] = known'[k]
    <3>1. known'[k] = known[k] /\ Listed(call[c].echo[k]) = known[k] /\ cache[k] = known[k]
      BY <1>1, <1>2, <2>2 DEF DataInv, AcceptedKept
    <3>2. k \in Echoed(c) => Listed(call[c].sent[k]) = known[k]
      BY <1>2, <2>2, <3>1 DEF Asked, Echoed, Listed
    <3> QED
      BY <1>1, <1>3, <1>4, <3>1, <3>2
  <2> QED
    BY <2>1, <2>2 DEF AcceptedKept
<1>9. SeenTrue'
  <2>1. \A r \in Readers : /\ read'[r].pc = read[r].pc /\ read'[r].seen = read[r].seen
                           /\ read'[r].rev = read[r].rev
    BY AcceptedReads DEF DataInv
  <2>2. \A r \in Readers : read'[r].rev # revision'
    BY <1>1, <2>1, NumbersTyped DEF Tickets
  <2> QED
    BY <1>1, <2>1, <2>2 DEF DataInv, SeenTrue
<1>8. SentTrue'
  <2>1. call'[c] = NoCall /\ \A d \in Callers \ {c} : call'[d] = call[d]
    BY DEF Accepted, TypeOK
  <2>2. \A d \in Callers : call'[d].pc \notin {"sent", "taken"}
    BY <1>1, <2>1, NoCallTyped DEF Holders
  <2> QED
    BY <2>2 DEF SentTrue
<1> QED
  BY <1>5, <1>6, <1>7, <1>8, <1>9 DEF DataInv

LEMMA EditsData ==
    ASSUME TypeOK, Tickets, Holders, DataInv,
           \/ \E c \in Callers : EditStep(c) \/ CarryOut(c)
           \/ \E c \in Callers : \E request \in Requests[c] : Ask(c, request)
           \/ \E change \in Elsewhere : External(change.slot, change.to)
    PROVE  DataInv'
<1>1. ASSUME NEW c \in Callers, call' = [call EXCEPT ![c] = NoCall],
             UNCHANGED <<revision, cache, cloud, reported, known, read>>
      PROVE  DataInv'
  <2>1. \A d \in Callers : call'[d] = call[d] \/ call'[d].pc \notin {"sent", "taken"}
    BY <1>1, NoCallTyped DEF TypeOK
  <2> QED
    BY <1>1, <2>1, DataFrame
<1>2. ASSUME NEW c \in Callers, Enter(c)
      PROVE  DataInv'
  <2>1. /\ UNCHANGED <<revision, cache, cloud, reported, known>>
        /\ call[c].pc = "queued" /\ mutating = Nobody
    BY <1>2 DEF Enter, MayEnter
  <2>2. CASE call' = [call EXCEPT ![c] = NoCall] /\ UNCHANGED <<mutating, read>>
    BY <1>1, <2>1, <2>2
  <2>3. CASE /\ call' = [call EXCEPT ![c].pc = "prepare"]
             /\ read' = [read EXCEPT ![c] = Queued("caller")]
    <3>1. \A d \in Callers : call'[d] = call[d] \/ call'[d].pc \notin {"sent", "taken"}
      BY <2>3 DEF TypeOK, CallRecords
    <3>2. Queued("caller").pc = "queued" /\ Queued("caller").blind = {}
      BY NewReads
    <3>3. \A r \in Readers : \/ read'[r] = read[r]
                             \/ read'[r].pc # "answered" /\ read'[r].blind = {}
      BY <2>3, <3>2, NumbersTyped DEF TypeOK
    <3> QED
      BY <2>1, <3>1, <3>3, DataFrame
  <2>4. CASE /\ ~Refused(c)
             /\ call' = [call EXCEPT ![c].pc = "sent", ![c].sent = Payload(call[c].request)]
             /\ UNCHANGED read
    <3>1. call[c].request.kind = "toggle" => Present(cache[call[c].request.slot])
      BY <2>4 DEF Refused
    <3> QED
      BY <2>1, <2>4, <3>1, SendingData DEF Sends
  <2> QED
    BY <1>2, <2>2, <2>3, <2>4 DEF Enter
<1>3. ASSUME NEW c \in Callers, Prepared(c)
      PROVE  DataInv'
  <2>1. /\ UNCHANGED <<revision, cache, cloud, reported, known, read>>
        /\ call[c].pc = "prepare" /\ call[c].request.kind = "replace"
    BY <1>3 DEF Prepared, Tickets
  <2>2. CASE Active(call[c].gen)
    <3>1. call' = [call EXCEPT ![c].pc = "sent", ![c].sent = Payload(call[c].request)]
      BY <1>3, <2>2 DEF Prepared
    <3> QED
      BY <2>1, <3>1, SendingData DEF Sends
  <2>3. CASE ~Active(call[c].gen)
    <3>1. call' = [call EXCEPT ![c] = NoCall]
      BY <1>3, <2>3 DEF Prepared
    <3> QED
      BY <1>1, <2>1, <3>1
  <2> QED
    BY <2>2, <2>3
<1>4. ASSUME NEW c \in Callers, NEW full \in BOOLEAN, Accepted(c, full)
      PROVE  DataInv'
  <2>1. CASE Active(call[c].gen)
    BY <1>4, <2>1, AcceptedData
  <2>2. CASE ~Active(call[c].gen)
    <3>1. /\ UNCHANGED <<revision, cache, cloud, reported, known, read>>
          /\ call' = [call EXCEPT ![c] = NoCall]
      BY <1>4, <2>2 DEF Accepted
    <3> QED
      BY <1>1, <3>1
  <2> QED
    BY <2>1, <2>2
<1>5. ASSUME NEW c \in Callers, Failed(c)
      PROVE  DataInv'
  <2>1. /\ UNCHANGED <<revision, cache, cloud, reported, known, read>>
        /\ call' = [call EXCEPT ![c] = NoCall]
    BY <1>5 DEF Failed
  <2> QED
    BY <1>1, <2>1
<1>6. ASSUME NEW c \in Callers, NEW request \in Edits, Ask(c, request)
      PROVE  DataInv'
  <2>1. UNCHANGED <<revision, cache, cloud, reported, known, read>>
    BY <1>6, Zenon DEF Ask
  <2>2. \A d \in Callers \ {c} : call'[d] = call[d]
    BY <1>6 DEF Ask, TypeOK
  <2>3. call'[c].pc = "queued"
    BY <1>6 DEF Ask, TypeOK, NoCall
  <2>4. \A d \in Callers : call'[d] = call[d] \/ call'[d].pc \notin {"sent", "taken"}
    BY <2>2, <2>3
  <2> QED
    BY <2>1, <2>4, DataFrame
<1>7. ASSUME NEW k \in Slots, NEW state \in {"on", "off", "gone"}, External(k, state)
      PROVE  DataInv'
  <2>1. /\ UNCHANGED <<revision, cache, reported, read, call>>
        /\ cloud'[k] = state /\ state # "new" /\ known'[k] = Unknown
        /\ \A j \in Slots \ {k} : cloud'[j] = cloud[j] /\ known'[j] = known[j]
    BY <1>7 DEF External, TypeOK, Schedules
  <2>2. \A j \in Slots : /\ cloud'[j] = "new" => cloud[j] = "new"
                         /\ known'[j] # Unknown => known'[j] = known[j]
    BY <2>1
  <2>3. KnownIsTrue' /\ CacheCreated' /\ AcceptedKept'
    BY <2>1, <2>2 DEF DataInv, KnownIsTrue, CacheCreated, AcceptedKept
  <2>4. SeenTrue'
    BY <2>1, <2>2 DEF DataInv, SeenTrue
  <2>5. SentTrue'
    BY <2>1, <2>2, LessKnown DEF DataInv
  <2> QED
    BY <2>3, <2>4, <2>5 DEF DataInv
<1> QED
  BY <1>2, <1>3, <1>4, <1>5, <1>6, <1>7, CarryOutData,
     ConstantsAssumption DEF EditStep
-----------------------------------------------------------------------------
Inv == TypeOK /\ Tickets /\ Holders /\ Stopped /\ DataInv

LEMMA InvInit == Init => Inv
<1> SUFFICES ASSUME Init
             PROVE  Inv
  OBVIOUS
<1>1. /\ cache \in Listings /\ cloud \in Schedules /\ reported = cloud
      /\ \A k \in Slots : cache[k] = "absent" /\ known[k] = Unknown
      /\ known \in [Slots -> {"on", "off", "absent", Unknown}]
  BY ConstantsAssumption DEF Init, Listings
<1>2. /\ \A r \in Readers : read[r] = NoRead
      /\ \A c \in Callers : call[c] = NoCall
      /\ read \in [Readers -> ReadRecords] /\ call \in [Callers -> CallRecords]
  BY NoReadTyped, NoCallTyped DEF Init
<1>3. TypeOK
  BY <1>1, <1>2 DEF Init, TypeOK
<1>4. Tickets /\ Holders
  BY <1>2, <1>3, NoReadTyped, NoCallTyped, NumbersTyped DEF Init, Tickets, Holders
<1>5. Stopped
  BY DEF Init, Stopped
<1>6. DataInv
  BY <1>1, <1>2, NoReadTyped, NoCallTyped
  DEF DataInv, KnownIsTrue, CacheCreated, SeenTrue, SentTrue, AcceptedKept, Present
<1> QED
  BY <1>3, <1>4, <1>5, <1>6 DEF Inv

LEMMA InvStep == Inv /\ [Next]_vars => Inv'
<1> SUFFICES ASSUME Inv, [Next]_vars
             PROVE  Inv'
  OBVIOUS
<1>1. SeenTrue /\ SentTrue
  BY DEF Inv, DataInv
<1>2. CASE LifecycleStep \/ HelpersGone \/ SetOption \/ OtherUpdate \/ Unload \/ Settle
  BY <1>2, LifecycleTyped, LifecycleControl, LifecycleData DEF Inv
<1>3. CASE \/ \E by \in {"task", "manual"} : Refresh(by)
           \/ PatchTimer
           \/ \E r \in Readers : ReadStep(r)
  BY <1>1, <1>3, ReadsTyped, ReadsControl, ReadsData DEF Inv
<1>4. CASE \/ \E c \in Callers : EditStep(c) \/ CarryOut(c)
           \/ \E c \in Callers : \E request \in Requests[c] : Ask(c, request)
           \/ \E change \in Elsewhere : External(change.slot, change.to)
  BY <1>1, <1>4, EditsTyped, EditsControl, EditsData DEF Inv
<1>5. CASE UNCHANGED vars
  BY <1>5 DEF vars, Inv, TypeOK, Tickets, Holders, Stopped, Quiet, DataInv, KnownIsTrue,
              CacheCreated, SeenTrue, SentTrue, AcceptedKept
<1> QED
  BY <1>2, <1>3, <1>4, <1>5 DEF Next

\* The inductive invariant holds in every state the sync and its charger can reach.
THEOREM InvHolds == Spec => []Inv
BY InvInit, InvStep, PTL DEF Spec

\* Every reachable state has the types of TypeOK.
THEOREM Typed == Spec => []TypeOK
BY InvHolds, PTL DEF Inv

\* An accepted edit stays in the cache, for any number of edits and slots, until the
\* slot is changed otherwise or a read sent since shows it otherwise: the revision and
\* the lock keep older reads and answers away from it.
THEOREM EditsStay == Spec => []AcceptedKept
<1>1. Inv => AcceptedKept
  BY DEF Inv, DataInv
<1> QED
  BY <1>1, InvHolds, PTL

\* A toggle under way asks of the other slots what earlier accepted edits made of them,
\* as long as no read sent since has shown them otherwise.
THEOREM TogglesDoNotUndo == Spec => []TogglesMerge
<1>1. Inv => TogglesMerge
  BY PayloadDomain DEF Inv, DataInv, SentTrue, TogglesMerge
<1> QED
  BY <1>1, InvHolds, PTL

\* An unloaded entry's sync has no subscription, timer or task left.
THEOREM UnloadedSync == Spec => []UnloadedIsQuiet
<1>1. Inv => UnloadedIsQuiet
  BY DEF Inv, Stopped, Quiet, UnloadedIsQuiet
<1> QED
  BY <1>1, InvHolds, PTL
-----------------------------------------------------------------------------
\* What has been switched off stays empty.

LEMMA EmptyStep ==
    ASSUME Inv, [Next]_vars, cleaned, Empty(cache)
    PROVE  Empty(cache')
<1>1. stopping
  BY DEF Inv, Stopped
<1>2. ASSUME UNCHANGED cache
      PROVE  Empty(cache')
  BY <1>2
<1>3. CASE LifecycleStep \/ FinishStart \/ SetOption \/ OtherUpdate \/ Unload \/ Settle
  BY <1>2, <1>3 DEF LifecycleStep, Applied, Restart, BeginDisable, CancelItself, FinishStop,
                    FinishStart, SetOption, OtherUpdate, Unload, Settle
<1>4. CASE FinishDisable
  BY <1>4 DEF FinishDisable, Empty, Present
<1>5. CASE PatchTimer \/ \E by \in {"task", "manual"} : Refresh(by)
  BY <1>2, <1>5 DEF PatchTimer, Refresh
<1>6. ASSUME NEW r \in Readers, ReadStep(r)
      PROVE  Empty(cache')
  BY <1>1, <1>2, <1>6 DEF ReadStep, Acquire, See, ReadSucceeds, ReadFails, Fresh, Active
<1>7. ASSUME NEW c \in Callers, EditStep(c) \/ CarryOut(c)
      PROVE  Empty(cache')
  BY <1>1, <1>2, <1>7 DEF EditStep, Enter, Prepared, Accepted, Failed, CarryOut, Active
<1>8. ASSUME NEW c \in Callers, NEW request, Ask(c, request)
      PROVE  Empty(cache')
  <2>1. UNCHANGED cache
    BY <1>8, Zenon DEF Ask
  <2> QED
    BY <1>2, <2>1
<1>9. ASSUME NEW k, NEW state, External(k, state)
      PROVE  Empty(cache')
  BY <1>2, <1>9 DEF External
<1>10. CASE UNCHANGED vars
  BY <1>2, <1>10 DEF vars
<1> QED
  BY <1>3, <1>4, <1>5, <1>6, <1>7, <1>8, <1>9, <1>10 DEF Next, HelpersGone

\* A sync that is switched off stays empty, whatever answers come late.
THEOREM OffIsEmpty == Spec => DisabledStaysEmpty
<1>1. Inv /\ [Next]_vars => [cleaned /\ cleaned' /\ Empty(cache) => Empty(cache')]_vars
  BY EmptyStep
<1> QED
  BY <1>1, InvHolds, PTL DEF Spec, DisabledStaysEmpty
-----------------------------------------------------------------------------
\* The sync implements the copy in which an accepted edit gives way to no older read.

LEMMA Agreed ==
    ASSUME NEW copy \in Listings, NEW facts,
           \A k \in Slots : facts[k] # Unknown => copy[k] = facts[k]
    PROVE  copy \in Mirror!Views /\ Mirror!Agrees(copy, facts)
BY DEF Listings, Mirror!Views, Mirror!Agrees

\* The charger's schedule changes.
LEMMA ChangeStep ==
    ASSUME TypeOK, TypeOK', UNCHANGED <<cache, read>>,
           \A k \in Slots : /\ known'[k] = IF cloud'[k] = cloud[k] THEN known[k] ELSE Unknown
                            /\ cloud'[k] # cloud[k] => cloud[k] # "gone" /\ cloud'[k] # "new"
                            /\ cloud[k] = "new" => cloud'[k] # "gone"
    PROVE  Mirror!Change
<1>1. Listing(cloud') \in Mirror!Views
  BY ListingTyped DEF TypeOK, Listings, Mirror!Views
<1>2. \A k \in Slots : Listing(cloud')[k] = Listing(cloud)[k] <=> cloud'[k] = cloud[k]
  <2>1. \A k \in Slots : cloud[k] \in States /\ cloud'[k] \in States
    BY DEF TypeOK, Schedules
  <2>2. \A k \in Slots :
           /\ Listing(cloud)[k] = IF Present(cloud[k]) THEN cloud[k] ELSE "absent"
           /\ Listing(cloud')[k] = IF Present(cloud'[k]) THEN cloud'[k] ELSE "absent"
    BY DEF Listing, Listed
  <2> QED
    BY <2>1, <2>2 DEF States, Present
<1>3. known' = [k \in Slots |-> IF Listing(cloud')[k] = Listing(cloud)[k]
                                THEN known[k] ELSE Unknown]
  BY <1>2 DEF TypeOK
<1>4. Tells' = Tells
  BY DEF Tells
<1> QED
  BY <1>1, <1>3, <1>4 DEF Mirror!Change

LEMMA AcceptStep ==
    ASSUME TypeOK, TypeOK', AcceptedKept', NEW c \in Callers, NEW full \in BOOLEAN,
           Accepted(c, full), Active(call[c].gen), Asked(c) \subseteq Slots
    PROVE  Mirror!Accept
<1> DEFINE edited == Asked(c)
           sure == edited \cap Carried(c, full)
<1>1. /\ UNCHANGED cloud
      /\ known' = [k \in Slots |->
            IF k \notin edited THEN known[k]
            ELSE IF k \in Carried(c, full) THEN Listed(cloud[k]) ELSE Unknown]
      /\ read' = Blinded(c)
  BY DEF Accepted
<1>2. edited \in SUBSET Slots /\ sure \in SUBSET edited
  OBVIOUS
<1>3. known' = [k \in Slots |-> IF k \in sure THEN Listing(cloud)[k]
                                ELSE IF k \in edited THEN Unknown ELSE known[k]]
  BY <1>1, <1>2 DEF Listing
<1>4. Tells' = [r \in Readers |-> Tells[r] \ edited]
  <2>1. \A r \in Readers :
           /\ read'[r].pc = read[r].pc
           /\ read'[r].blind = IF read[r].pc \in {"sent", "answered"}
                               THEN read[r].blind \union edited ELSE read[r].blind
    BY <1>1, <1>2, BlindedTyped
  <2> HIDE DEF edited
  <2> QED
    BY <2>1 DEF Tells
<1> HIDE DEF edited, sure
<1>5. cache' \in Mirror!Views /\ Mirror!Agrees(cache', known')
  BY Agreed DEF TypeOK, AcceptedKept
<1>6. Listing(cloud') = Listing(cloud)
  BY <1>1
<1> QED
  BY <1>2, <1>3, <1>4, <1>5, <1>6 DEF Mirror!Accept

LEMMA AskStep ==
    ASSUME TypeOK, NEW r \in Readers, NEW by \in {"task", "start", "manual", "caller"},
           read' = [read EXCEPT ![r] = Reading(by)], UNCHANGED <<cloud, cache, known>>
    PROVE  Mirror!Ask(r)
<1>1. read'[r] = Reading(by) /\ \A s \in Readers \ {r} : read'[s] = read[s]
  BY DEF TypeOK
<1>2. Reading(by).pc = "sent" /\ Reading(by).blind = {}
  BY NewReads
<1>3. Tells' = [Tells EXCEPT ![r] = Slots]
  BY <1>1, <1>2 DEF Tells
<1> QED
  BY <1>3 DEF Mirror!Ask

LEMMA AnswerStep ==
    ASSUME TypeOK, TypeOK', AcceptedKept', NEW r \in Readers, ReadSucceeds(r), Fresh(r)
    PROVE  Mirror!Answer(r)
<1>1. /\ UNCHANGED cloud /\ read[r].pc = "answered"
      /\ cache' = read[r].seen
      /\ known' = [k \in Slots |->
            IF k \in read[r].blind \/ read[r].seen[k] = known[k] THEN known[k] ELSE Unknown]
  BY DEF ReadSucceeds
<1>2. Tells[r] = Slots \ read[r].blind
  BY <1>1 DEF Tells
<1>3. known' = [k \in Slots |-> IF k \in Tells[r] /\ cache'[k] # known[k]
                                THEN Unknown ELSE known[k]]
  BY <1>1, <1>2
<1>4. read'[r] = NoRead /\ \A s \in Readers \ {r} : read'[s] = read[s]
  BY DEF ReadSucceeds, Ends, TypeOK
<1>5. Tells' = [Tells EXCEPT ![r] = {}]
  BY <1>4, NoReadTyped DEF Tells
<1>6. cache' \in Mirror!Views /\ Mirror!Agrees(cache', known')
  BY Agreed DEF TypeOK, AcceptedKept
<1> QED
  BY <1>1, <1>3, <1>5, <1>6 DEF Mirror!Answer

\* Some reads end, and nothing else happens.
LEMMA GiveUpStep ==
    ASSUME UNCHANGED <<cloud, cache, known>>,
           \A r \in Readers : read'[r] = read[r] \/ read'[r].pc \notin {"sent", "answered"}
    PROVE  Mirror!GiveUp
<1> DEFINE given == {r \in Readers : read'[r].pc \notin {"sent", "answered"}}
<1>1. Tells' = [r \in Readers |-> IF r \in given THEN {} ELSE Tells[r]]
  BY DEF Tells
<1>2. given \in SUBSET Readers
  OBVIOUS
<1> HIDE DEF given
<1> QED
  BY <1>1, <1>2 DEF Mirror!GiveUp

LEMMA DropStep ==
    ASSUME FinishDisable
    PROVE  Mirror!Drop
<1>1. /\ cache' = [k \in Slots |-> "absent"] /\ known' = [k \in Slots |-> Unknown]
      /\ UNCHANGED <<cloud, read>>
  BY DEF FinishDisable
<1>2. Tells' = Tells
  BY <1>1 DEF Tells
<1> QED
  BY <1>1, <1>2 DEF Mirror!Drop

LEMMA MirrorInit == Init => Mirror!Init
<1> SUFFICES ASSUME Init
             PROVE  Mirror!Init
  OBVIOUS
<1>1. cloud \in Schedules
  BY ConstantsAssumption DEF Init
<1>2. Listing(cloud) \in Mirror!Views
  BY <1>1, ListingTyped DEF Listings, Mirror!Views
<1>3. Tells = [r \in Readers |-> {}]
  BY NoReadTyped DEF Init, Tells
<1>4. cache = [k \in Slots |-> "absent"] /\ known = [k \in Slots |-> Unknown]
  BY DEF Init
<1> QED
  BY <1>2, <1>3, <1>4 DEF Mirror!Init

LEMMA MirrorStep == Inv /\ Inv' /\ [Next]_vars => [Mirror!Next]_(Mirror!vars)
<1> SUFFICES ASSUME Inv, Inv', [Next]_vars
             PROVE  \/ Mirror!Change \/ Mirror!Accept \/ Mirror!GiveUp \/ Mirror!Drop
                    \/ \E r \in Readers : Mirror!Ask(r) \/ Mirror!Answer(r)
  BY DEF Mirror!Next
<1>1. TypeOK /\ TypeOK' /\ Tickets /\ DataInv /\ SentTrue /\ AcceptedKept'
  BY DEF Inv, DataInv
<1>2. Poll \in Readers /\ Patch \in Readers /\ Callers \subseteq Readers
  BY DEF Readers
<1>3. CASE LifecycleStep
  <2>1. UNCHANGED <<cloud, cache, known>>
    BY <1>3 DEF LifecycleStep, Applied, Restart, BeginDisable, CancelItself, FinishStop
  <2>2. UNCHANGED read \/ \E leaves \in Waiters : StopLocked(leaves)
    BY <1>3 DEF LifecycleStep, Applied, Restart, BeginDisable, CancelItself, FinishStop, Waiters
  <2>3. \A r \in Readers : read'[r] = read[r] \/ read'[r].pc \notin {"sent", "answered"}
    BY <2>2, NoReadTyped DEF StopLocked
  <2> QED
    BY <2>1, <2>3, GiveUpStep
<1>4. CASE FinishStart
  <2>1. UNCHANGED <<cloud, cache, known>>
    BY <1>4 DEF FinishStart
  <2>2. CASE UNCHANGED read
    BY <2>1, <2>2, GiveUpStep
  <2>3. ASSUME NEW by \in {"start", "manual"}, read' = [read EXCEPT ![Poll] = Reading(by)]
        PROVE  Mirror!Ask(Poll)
    BY <1>1, <1>2, <2>1, <2>3, AskStep
  <2> QED
    BY <1>2, <1>4, <2>2, <2>3 DEF FinishStart
<1>5. CASE FinishDisable
  BY <1>5, DropStep
<1>6. CASE SetOption \/ OtherUpdate \/ Unload \/ Settle \/ UNCHANGED vars
  <2>1. UNCHANGED <<cloud, cache, known, read>>
    BY <1>6 DEF SetOption, OtherUpdate, Unload, Settle, vars
  <2> QED
    BY <2>1, GiveUpStep
<1>7. CASE PatchTimer
  <2>1. UNCHANGED <<cloud, cache, known>>
    BY <1>7 DEF PatchTimer
  <2>2. UNCHANGED read \/ read' = [read EXCEPT ![Patch] = Queued("task")]
    BY <1>7 DEF PatchTimer
  <2>3. \A r \in Readers : read'[r] = read[r] \/ read'[r].pc \notin {"sent", "answered"}
    BY <1>1, <2>2, NewReads DEF TypeOK
  <2> QED
    BY <2>1, <2>3, GiveUpStep
<1>8. ASSUME NEW by \in {"task", "manual"}, Refresh(by)
      PROVE  Mirror!GiveUp \/ Mirror!Ask(Poll)
  <2>1. UNCHANGED <<cloud, cache, known>>
    BY <1>8 DEF Refresh
  <2>2. CASE UNCHANGED read
    BY <2>1, <2>2, GiveUpStep
  <2>3. CASE read' = [read EXCEPT ![Poll] = Reading(by)]
    BY <1>1, <1>2, <2>1, <2>3, AskStep
  <2> QED
    BY <1>8, <2>2, <2>3 DEF Refresh
<1>9. ASSUME NEW r \in Readers, ReadStep(r)
      PROVE  Mirror!GiveUp \/ Mirror!Ask(r) \/ Mirror!Answer(r)
  <2>1. CASE Acquire(r)
    <3>1. UNCHANGED <<cloud, cache, known>>
      BY <2>1 DEF Acquire
    <3>2. CASE Active(read[r].gen)
      <4>1. read' = [read EXCEPT ![r] = Reading(read[r].by)]
        BY <2>1, <3>2 DEF Acquire
      <4>2. read[r].by \in {"task", "start", "manual", "caller"}
        BY <1>1 DEF TypeOK, ReadRecords
      <4> QED
        BY <1>1, <3>1, <4>1, <4>2, AskStep
    <3>3. CASE ~Active(read[r].gen)
      <4>1. read' = [read EXCEPT ![r] = NoRead]
        BY <2>1, <3>3 DEF Acquire
      <4>2. \A s \in Readers : read'[s] = read[s] \/ read'[s].pc \notin {"sent", "answered"}
        BY <1>1, <4>1, NoReadTyped DEF TypeOK
      <4> QED
        BY <3>1, <4>2, GiveUpStep
    <3> QED
      BY <3>2, <3>3
  <2>2. CASE See(r)
    <3>1. UNCHANGED <<cloud, cache, known>> /\ read[r].pc = "sent"
      BY <2>2 DEF See
    <3>2. /\ read'[r].pc = "answered" /\ read'[r].blind = read[r].blind
          /\ \A s \in Readers \ {r} : read'[s] = read[s]
      BY <1>1, <2>2 DEF See, TypeOK, ReadRecords
    <3>3. Tells' = Tells
      BY <3>1, <3>2 DEF Tells
    <3>4. Tells' = [s \in Readers |-> IF s \in {} THEN {} ELSE Tells[s]]
      BY <3>3 DEF Tells
    <3> QED
      BY <3>1, <3>4 DEF Mirror!GiveUp
  <2>3. CASE ReadSucceeds(r) /\ Fresh(r)
    BY <1>1, <2>3, AnswerStep
  <2>4. CASE ReadFails(r) \/ (ReadSucceeds(r) /\ ~Fresh(r))
    <3>1. UNCHANGED <<cloud, cache, known>> /\ read' = [read EXCEPT ![r] = NoRead]
      BY <2>4 DEF ReadFails, ReadSucceeds, Ends
    <3>2. \A s \in Readers : read'[s] = read[s] \/ read'[s].pc \notin {"sent", "answered"}
      BY <1>1, <3>1, NoReadTyped DEF TypeOK
    <3> QED
      BY <3>1, <3>2, GiveUpStep
  <2> QED
    BY <1>9, <2>1, <2>2, <2>3, <2>4 DEF ReadStep
<1>10. ASSUME NEW c \in Callers, EditStep(c)
       PROVE  Mirror!Accept \/ Mirror!GiveUp
  <2>1. CASE Enter(c) \/ Prepared(c) \/ Failed(c)
    <3>1. UNCHANGED <<cloud, cache, known>>
      BY <2>1 DEF Enter, Prepared, Failed
    <3>2. UNCHANGED read \/ read' = [read EXCEPT ![c] = Queued("caller")]
      BY <2>1 DEF Enter, Prepared, Failed
    <3>3. \A r \in Readers : read'[r] = read[r] \/ read'[r].pc \notin {"sent", "answered"}
      BY <1>1, <1>2, <3>2, NewReads DEF TypeOK
    <3> QED
      BY <3>1, <3>3, GiveUpStep
  <2>2. ASSUME NEW full \in BOOLEAN, Accepted(c, full)
        PROVE  Mirror!Accept \/ Mirror!GiveUp
    <3>1. CASE Active(call[c].gen)
      <4>1. Asked(c) \subseteq Slots
        BY <1>1, <2>2, AcceptedReads
      <4> QED
        BY <1>1, <2>2, <3>1, <4>1, AcceptStep
    <3>2. CASE ~Active(call[c].gen)
      <4>1. UNCHANGED <<cloud, cache, known, read>>
        BY <2>2, <3>2 DEF Accepted
      <4> QED
        BY <4>1, GiveUpStep
    <3> QED
      BY <3>1, <3>2
  <2> QED
    BY <1>10, <2>1, <2>2 DEF EditStep
<1>11. ASSUME NEW c \in Callers, CarryOut(c)
       PROVE  Mirror!Change
  <2>1. /\ call[c].sent \in Payloads /\ call[c].request \in Edits
        /\ \A k \in DOMAIN call[c].sent : call[c].sent[k] # "new"
        /\ UNCHANGED <<cache, read>>
    BY <1>1, <1>11 DEF CarryOut, Tickets, SentTrue
  <2>2. /\ call'[c].sent \in Sent(c) /\ cloud' = Outcome(c, call'[c].sent)
        /\ known' = StillKnown(cloud')
    BY <1>1, <1>11, CarriedOut
  <2>3. \A k \in DOMAIN call'[c].sent : call'[c].sent[k] # "new"
    <3>1. CASE Creates(c)
      <4>1. call[c].request.to # "new"
        BY <2>1 DEF Edits
      <4>2. PICK slot \in Slots : call'[c].sent = [k \in {slot} |-> call[c].request.to]
        BY <2>2, <3>1 DEF Sent
      <4> QED
        BY <4>1, <4>2
    <3>2. CASE ~Creates(c)
      BY <2>1, <2>2, <3>2 DEF Sent
    <3> QED
      BY <3>1, <3>2
  <2>4. \A k \in Slots : /\ cloud'[k] # cloud[k] => cloud[k] # "gone" /\ cloud'[k] # "new"
                         /\ cloud[k] = "new" => cloud'[k] # "gone"
    BY <2>2, <2>3 DEF Outcome, Present
  <2>5. \A k \in Slots : known'[k] = IF cloud'[k] = cloud[k] THEN known[k] ELSE Unknown
    BY <2>2 DEF StillKnown
  <2> QED
    BY <1>1, <2>1, <2>4, <2>5, ChangeStep
<1>12. ASSUME NEW c \in Callers, NEW request, Ask(c, request)
       PROVE  Mirror!GiveUp
  <2>1. UNCHANGED <<cloud, cache, known, read>>
    BY <1>12, Zenon DEF Ask
  <2> QED
    BY <2>1, GiveUpStep
<1>13. ASSUME NEW k \in Slots, NEW state \in {"on", "off", "gone"}, External(k, state)
       PROVE  Mirror!Change
  <2>1. /\ UNCHANGED <<cache, read>>
        /\ cloud[k] # "gone" /\ cloud'[k] = state /\ state # cloud[k] /\ known'[k] = Unknown
        /\ cloud[k] = "new" => state # "gone"
        /\ \A j \in Slots \ {k} : cloud'[j] = cloud[j] /\ known'[j] = known[j]
    BY <1>1, <1>13 DEF External, TypeOK, Schedules, Present
  <2> QED
    BY <1>1, <2>1, ChangeStep
<1>14. ASSUME NEW change \in Elsewhere, External(change.slot, change.to)
       PROVE  Mirror!Change
  BY <1>13, <1>14, ConstantsAssumption
<1> QED
  BY <1>2, <1>3, <1>4, <1>5, <1>6, <1>7, <1>8, <1>9, <1>10, <1>11, <1>12, <1>14
  DEF Next, HelpersGone

\* The sync refines the copy of the charger's schedule: whatever reads, edits, timers
\* and restarts do, the copy takes back no accepted edit for a read that was sent before.
THEOREM Refines == Spec => ImplementsMirror
<1>1. Inv /\ Inv' /\ [Next]_vars => [Mirror!Next]_(Mirror!vars)
  BY MirrorStep
<1> QED
  BY <1>1, MirrorInit, InvHolds, PTL DEF Spec, ImplementsMirror, Mirror!Spec
=============================================================================
