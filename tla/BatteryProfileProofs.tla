------------------------- MODULE BatteryProfileProofs -------------------------
(***************************************************************************)
(* Proofs about the battery profile, for any profiles, reserves, reads and *)
(* bounds.  The inductive invariant Inv adds three facts: a write under    *)
(* way leaves room below the bound, a retry names a disagreement (and a    *)
(* nudge a reserve to go back to), and the flags that make a profile count *)
(* as evidence for a request are only set by reads that reported it after  *)
(* the request.                                                            *)
(***************************************************************************)
EXTENDS BatteryProfile, TLAPS

RoomToWrite ==
    \A c \in Callers : call[c].pc = "sending" /\ call[c].op # "cancel"
                          => generation < MaxWrites
CallsComplete ==
    \A c \in Callers : /\ call[c].op = "retry" => call[c].expect # 0
                       /\ call[c].pc = "nudged" => call[c].restore # None
EvidenceShown ==
    pending # None /\ Received(pending, profile, live, liveSince, seenSince) => shown

Inv == /\ TypeOK /\ OneWriter /\ RequestShown /\ DialogueStillFor
       /\ RoomToWrite /\ CallsComplete /\ EvidenceShown

-----------------------------------------------------------------------------
LEMMA IdleCall == Idle \in Calls /\ Idle.pc = "idle" /\ Idle.op = "profile"
BY ProfilesAssumption DEF Idle, Calls

LEMMA NormalizedReserve ==
    ASSUME NEW p, NEW r \in Reserves
    PROVE  Normalized(p, r) \in Reserves
BY ProfilesAssumption DEF Normalized

\* A step that ends a read: either the request stays, with the evidence the
\* read has added, or it goes away on evidence a read has shown.
ReadOutcome ==
    /\ profile' \in Profiles \union {None} /\ reserve' \in Reserves \union {None}
    /\ live' \in Profiles \union {None} /\ fresh' \in BOOLEAN
    /\ liveSince' \in BOOLEAN /\ seenSince' \in BOOLEAN /\ shown' \in BOOLEAN
    /\ \/ ClearPending /\ (pending # None => shown')
       \/ UNCHANGED request /\ EvidenceShown'
    /\ pending' = pending /\ ~aged /\ pending # None /\ profile = pending.profile
          => profile' = profile
    /\ read' \in [Reads -> (0..MaxWrites) \union {None}]
    /\ UNCHANGED <<running, generation, lock, mismatch, identities, call>>

LEMMA EndReadOutcome ==
    ASSUME TypeOK, NEW x \in Reads, EndRead(x)
    PROVE  /\ read' \in [Reads -> (0..MaxWrites) \union {None}]
           /\ UNCHANGED <<running, generation, lock, mismatch, identities, call>>
BY DEF EndRead, TypeOK

LEMMA ReadProfileOutcome ==
    ASSUME Inv, NEW x \in Reads, NEW p \in Profiles \union {None},
           NEW r \in Reserves \union {None}, ReadProfile(x, p, r)
    PROVE  ReadOutcome
<1> DEFINE taken == p # None /\ ~StaleAfterWrite(p)
           np == IF taken THEN p ELSE profile
           nr == IF r = None \/ StaleAfterWrite(p) THEN reserve
                 ELSE IF np = None THEN r ELSE Normalized(np, r)
           ns == seenSince \/ taken
<1>t. TypeOK
  BY DEF Inv
<1>1. /\ EndRead(x) /\ read[x] = generation /\ fresh' = (fresh \/ taken)
      /\ Settle(np, nr, live, liveSince, ns) /\ Witness(x, p)
  BY DEF ReadProfile, Current
<1>2. /\ taken \in BOOLEAN /\ np \in Profiles \union {None} /\ ns \in BOOLEAN
      /\ fresh \in BOOLEAN /\ live \in Profiles \union {None} /\ liveSince \in BOOLEAN
      /\ shown \in BOOLEAN
  BY <1>t DEF TypeOK
<1>3. nr \in Reserves \union {None}
  BY <1>t, NormalizedReserve DEF TypeOK
<1>4. shown' = (shown \/ (pending # None /\ p = pending.profile))
  BY <1>1 DEF Witness
<1>5. pending # None /\ Received(pending, np, live, liveSince, ns) => shown'
  BY <1>2, <1>4 DEF Inv, EvidenceShown, Received
<1>6. pending # None /\ ~aged /\ profile = pending.profile => np = profile
  BY ProfilesAssumption DEF Inv, RequestShown, StaleAfterWrite, TypeOK, Requests
<1> HIDE DEF taken, np, nr, ns
<1>7. /\ profile' \in Profiles \union {None} /\ reserve' \in Reserves \union {None}
      /\ live' = live /\ liveSince' \in BOOLEAN /\ seenSince' \in BOOLEAN
      /\ \/ /\ pending # None /\ Received(pending, np, live, liveSince, ns)
            /\ ClearPending
         \/ /\ profile' = np /\ UNCHANGED request
            /\ liveSince' => liveSince
            /\ seenSince' => ns
  <2>1. CASE /\ pending # None
             /\ EffectiveMatches(pending, np, nr, live)
             /\ Received(pending, np, live, liveSince, ns)
    BY <1>t, <1>1, <1>2, <2>1 DEF Settle, ClearPending, TypeOK, Requests
  <2>2. CASE ~(/\ pending # None
               /\ EffectiveMatches(pending, np, nr, live)
               /\ Received(pending, np, live, liveSince, ns))
    BY <1>t, <1>1, <1>2, <1>3, <2>2 DEF Settle
  <2> QED
    BY <2>1, <2>2
<1>8. ASSUME profile' = np, UNCHANGED request, liveSince' => liveSince, seenSince' => ns
      PROVE  EvidenceShown'
  BY <1>8, <1>7, <1>5 DEF EvidenceShown, Received, request
<1>9. ClearPending => pending' = None
  BY DEF ClearPending
<1> QED
  BY <1>t, <1>1, <1>2, <1>4, <1>5, <1>6, <1>7, <1>8, <1>9, EndReadOutcome
     DEF ReadOutcome

LEMMA ReadSettingsOutcome ==
    ASSUME Inv, NEW x \in Reads, NEW p \in Profiles \union {None},
           NEW r \in Reserves \union {None}, ReadSettings(x, p, r)
    PROVE  ReadOutcome
<1> DEFINE taken == p # None /\ ~StaleSettings(p) /\ ~fresh
           np == IF taken THEN p ELSE profile
           own == IF p # None THEN p ELSE np
           nr == IF r = None \/ StaleSettings(p) THEN reserve
                 ELSE IF own = None THEN r ELSE Normalized(own, r)
<1>t. TypeOK
  BY DEF Inv
<1>1. /\ EndRead(x) /\ read[x] = generation /\ fresh' = fresh
      /\ Settle(np, nr, live, liveSince, seenSince) /\ Witness(x, p)
  BY DEF ReadSettings, Current
<1>2. /\ np \in Profiles \union {None} /\ fresh \in BOOLEAN /\ live \in Profiles \union {None}
      /\ liveSince \in BOOLEAN /\ seenSince \in BOOLEAN /\ shown \in BOOLEAN
  BY <1>t DEF TypeOK
<1>3. nr \in Reserves \union {None}
  BY <1>t, NormalizedReserve DEF TypeOK
<1>4. shown' = (shown \/ (pending # None /\ p = pending.profile))
  BY <1>1 DEF Witness
<1>6. pending # None => np = profile
  BY DEF StaleSettings
<1>5. pending # None /\ Received(pending, np, live, liveSince, seenSince) => shown'
  BY <1>4, <1>6 DEF Inv, EvidenceShown
<1> HIDE DEF taken, np, nr, own
<1>7. /\ profile' \in Profiles \union {None} /\ reserve' \in Reserves \union {None}
      /\ live' = live /\ liveSince' \in BOOLEAN /\ seenSince' \in BOOLEAN
      /\ \/ /\ pending # None /\ Received(pending, np, live, liveSince, seenSince)
            /\ ClearPending
         \/ /\ profile' = np /\ UNCHANGED request
            /\ liveSince' => liveSince
            /\ seenSince' => seenSince
  <2>1. CASE /\ pending # None
             /\ EffectiveMatches(pending, np, nr, live)
             /\ Received(pending, np, live, liveSince, seenSince)
    BY <1>t, <1>1, <1>2, <2>1 DEF Settle, ClearPending, TypeOK, Requests
  <2>2. CASE ~(/\ pending # None
               /\ EffectiveMatches(pending, np, nr, live)
               /\ Received(pending, np, live, liveSince, seenSince))
    BY <1>t, <1>1, <1>2, <1>3, <2>2 DEF Settle
  <2> QED
    BY <2>1, <2>2
<1>8. ASSUME profile' = np, UNCHANGED request, liveSince' => liveSince,
             seenSince' => seenSince
      PROVE  EvidenceShown'
  BY <1>8, <1>7, <1>5 DEF EvidenceShown, Received, request
<1>9. ClearPending => pending' = None
  BY DEF ClearPending
<1> QED
  BY <1>t, <1>1, <1>2, <1>4, <1>5, <1>6, <1>7, <1>8, <1>9, EndReadOutcome
     DEF ReadOutcome

LEMMA ReadStatusOutcome ==
    ASSUME Inv, NEW x \in Reads, NEW l \in Profiles \union {None}, ReadStatus(x, l)
    PROVE  ReadOutcome
<1> DEFINE ls == l # None
<1>t. TypeOK
  BY DEF Inv
<1>1. /\ EndRead(x) /\ read[x] = generation /\ fresh' = fresh
      /\ Settle(profile, reserve, l, ls, seenSince) /\ Witness(x, l)
  BY DEF ReadStatus, Current
<1>2. /\ profile \in Profiles \union {None} /\ reserve \in Reserves \union {None}
      /\ ls \in BOOLEAN /\ fresh \in BOOLEAN /\ seenSince \in BOOLEAN /\ shown \in BOOLEAN
  BY <1>t DEF TypeOK
<1>4. shown' = (shown \/ (pending # None /\ l = pending.profile))
  BY <1>1 DEF Witness
<1>5. pending # None /\ Received(pending, profile, l, ls, seenSince) => shown'
  BY <1>2, <1>4 DEF Inv, EvidenceShown, Received
<1> HIDE DEF ls
<1>7. /\ profile' \in Profiles \union {None} /\ reserve' \in Reserves \union {None}
      /\ live' = l /\ liveSince' \in BOOLEAN /\ seenSince' \in BOOLEAN
      /\ \/ /\ pending # None /\ Received(pending, profile, l, ls, seenSince)
            /\ ClearPending
         \/ /\ profile' = profile /\ UNCHANGED request
            /\ liveSince' => ls
            /\ seenSince' => seenSince
  <2>1. CASE /\ pending # None
             /\ EffectiveMatches(pending, profile, reserve, l)
             /\ Received(pending, profile, l, ls, seenSince)
    BY <1>t, <1>1, <1>2, <2>1 DEF Settle, ClearPending, TypeOK, Requests
  <2>2. CASE ~(/\ pending # None
               /\ EffectiveMatches(pending, profile, reserve, l)
               /\ Received(pending, profile, l, ls, seenSince))
    BY <1>t, <1>1, <1>2, <2>2 DEF Settle
  <2> QED
    BY <2>1, <2>2
<1>8. ASSUME profile' = profile, UNCHANGED request, liveSince' => ls,
             seenSince' => seenSince
      PROVE  EvidenceShown'
  BY <1>8, <1>7, <1>5 DEF EvidenceShown, Received, request
<1>9. ClearPending => pending' = None
  BY DEF ClearPending
<1> QED
  BY <1>t, <1>1, <1>2, <1>4, <1>5, <1>7, <1>8, <1>9, EndReadOutcome
     DEF ReadOutcome

\* The writers are left alone.
LEMMA ReadKeepsInv ==
    ASSUME Inv, ReadOutcome
    PROVE  Inv'
<1>1. TypeOK'
  <2>1. CASE ClearPending
    BY <2>1 DEF Inv, TypeOK, ReadOutcome, ClearPending
  <2>2. CASE UNCHANGED request
    BY <2>2 DEF Inv, TypeOK, ReadOutcome, request
  <2> QED
    BY <2>1, <2>2 DEF ReadOutcome
<1>2. OneWriter' /\ RoomToWrite' /\ CallsComplete'
  BY DEF Inv, OneWriter, RoomToWrite, CallsComplete, ReadOutcome
<1>3. RequestShown' /\ DialogueStillFor' /\ EvidenceShown'
  <2>1. CASE ClearPending
    BY <2>1 DEF Inv, RequestShown, DialogueStillFor, EvidenceShown, ReadOutcome, ClearPending
  <2>2. CASE UNCHANGED request /\ EvidenceShown'
    BY <2>2 DEF Inv, RequestShown, DialogueStillFor, ReadOutcome, request
  <2> QED
    BY <2>1, <2>2 DEF ReadOutcome
<1> QED
  BY <1>1, <1>2, <1>3 DEF Inv

-----------------------------------------------------------------------------
\* A step that only moves a caller: not into a write, nor out of one that holds
\* the lock.
Moves(c, q) ==
    /\ q \in Calls
    /\ call' = [call EXCEPT ![c] = q]
    /\ q.pc \notin {"sending", "nudged"}
    /\ q.op = "retry" => q.expect # 0
    /\ lock' = IF lock = c THEN None ELSE lock
    /\ UNCHANGED <<running, readback, request, generation, mismatch, identities, read, shown>>

LEMMA MovesKeepsInv ==
    ASSUME Inv, NEW c \in Callers, NEW q, Moves(c, q)
    PROVE  Inv'
<1>1. /\ call' \in [Callers -> Calls] /\ call'[c] = q
      /\ \A d \in Callers : d # c => call'[d] = call[d]
  BY DEF Moves, Inv, TypeOK, Calls
<1>2. TypeOK'
  BY <1>1 DEF Moves, Inv, TypeOK, readback, request, Calls
<1>3. OneWriter'
  BY <1>1, NoneAssumption DEF Moves, Inv, OneWriter
<1>4. RequestShown'
  BY DEF Moves, Inv, RequestShown, request
<1>5. DialogueStillFor'
  BY <1>1 DEF Moves, Inv, DialogueStillFor, request
<1>6. RoomToWrite' /\ CallsComplete'
  BY <1>1 DEF Moves, Inv, RoomToWrite, CallsComplete
<1>7. EvidenceShown'
  BY DEF Moves, Inv, EvidenceShown, Received, readback, request
<1> QED
  BY <1>2, <1>3, <1>4, <1>5, <1>6, <1>7 DEF Inv

LEMMA StartKeepsInv ==
    ASSUME Inv, NEW c \in Callers, NEW s \in Calls, Start(c, "allowed", s),
           s.op = "retry" => s.expect # 0
    PROVE  Inv'
<1>1. lock # c
  BY DEF Start, Inv, OneWriter
<1>2. Moves(c, [s EXCEPT !.pc = "allowed"])
  BY <1>1 DEF Moves, Start, Calls
<1> QED
  BY <1>2, MovesKeepsInv

\* A caller that returns gives the lock up if it holds it.
LEMMA ReturnKeepsInv ==
    ASSUME Inv, NEW c \in Callers, Return(c),
           lock' = IF lock = c THEN None ELSE lock,
           UNCHANGED <<running, readback, request, generation, mismatch, identities, read,
                       shown>>
    PROVE  Inv'
<1>1. Moves(c, Idle)
  BY IdleCall DEF Moves, Return, Idle
<1> QED
  BY <1>1, MovesKeepsInv

LEMMA SetProfileKeepsInv ==
    ASSUME Inv, NEW p \in Profiles, NEW r \in Reserves, SetProfile(p, r)
    PROVE  Inv'
<1> USE DEF Callers
<1>1. ASSUME NEW nudge \in Reserves,
             Start("user", "allowed",
                   [Idle EXCEPT !.op = "reserve", !.profile = p, !.reserve = nudge,
                                !.restore = r])
      PROVE  Inv'
  <2> DEFINE s == [Idle EXCEPT !.op = "reserve", !.profile = p, !.reserve = nudge,
                               !.restore = r]
  <2>1. s \in Calls /\ s.op = "reserve"
    BY IdleCall DEF Calls, Idle
  <2> HIDE DEF s
  <2> QED
    BY <1>1, <2>1, StartKeepsInv DEF s
<1>2. ASSUME Start("user", "allowed",
                   [Idle EXCEPT !.profile = p, !.reserve = Normalized(p, r)])
      PROVE  Inv'
  <2> DEFINE s == [Idle EXCEPT !.profile = p, !.reserve = Normalized(p, r)]
  <2>1. s \in Calls /\ s.op = "profile"
    BY IdleCall, NormalizedReserve DEF Calls, Idle
  <2> HIDE DEF s
  <2> QED
    BY <1>2, <2>1, StartKeepsInv DEF s
<1> QED
  BY <1>1, <1>2 DEF SetProfile

LEMMA SetReserveKeepsInv ==
    ASSUME Inv, NEW r \in Reserves, SetReserve(r)
    PROVE  Inv'
<1> DEFINE selected == IF pending # None THEN pending.profile
                       ELSE IF profile # None THEN profile ELSE live
           s == [Idle EXCEPT !.op = "reserve", !.profile = selected, !.reserve = r,
                             !.exact = TRUE]
<1>1. Start("user", "allowed", s) /\ selected # None
  BY DEF SetReserve
<1>2. selected \in Profiles
  BY <1>1 DEF Inv, TypeOK, Requests
<1> HIDE DEF selected
<1>3. s \in Calls /\ s.op = "reserve"
  BY <1>2, IdleCall DEF Calls, Idle
<1> HIDE DEF s
<1> QED
  BY <1>1, <1>3, StartKeepsInv DEF Callers

LEMMA RetryProfileKeepsInv ==
    ASSUME Inv, NEW r \in Reserves, RetryProfile(r)
    PROVE  Inv'
<1> DEFINE s == [Idle EXCEPT !.op = "retry", !.profile = live,
                             !.reserve = Normalized(live, r), !.expect = mismatch]
<1>1. Start("user", "allowed", s) /\ live # None /\ mismatch # 0
  BY DEF RetryProfile
<1>2. live \in Profiles /\ mismatch \in Nat
  BY <1>1, ProfilesAssumption DEF Inv, TypeOK
<1>3. s \in Calls /\ s.expect # 0
  BY <1>1, <1>2, IdleCall, NormalizedReserve DEF Calls, Idle
<1> HIDE DEF s
<1> QED
  BY <1>1, <1>3, StartKeepsInv DEF Callers

LEMMA CancelPendingKeepsInv ==
    ASSUME Inv, CancelPending
    PROVE  Inv'
<1> DEFINE s == [Idle EXCEPT !.op = "cancel", !.expect = pending.id]
<1>1. Start("repair", "allowed", s) /\ pending # None
  BY DEF CancelPending
<1>2. pending.id \in Nat
  BY <1>1, ProfilesAssumption DEF Inv, TypeOK, Requests
<1>3. s \in Calls /\ s.op = "cancel"
  BY <1>2, IdleCall DEF Calls, Idle
<1> HIDE DEF s
<1> QED
  BY <1>1, <1>3, StartKeepsInv DEF Callers

LEMMA WakeKeepsInv ==
    ASSUME Inv, Wake
    PROVE  Inv'
<1> DEFINE q == IF WriteAllowed THEN [call["restore"] EXCEPT !.pc = "allowed"] ELSE Idle
<1>1. call["restore"] \in Calls
  BY DEF Inv, TypeOK, Calls, Callers
<1>2. call["restore"].pc = "sleeping" /\ lock # "restore"
  BY DEF Wake, Inv, OneWriter, Callers
<1>3. call["restore"].op = "retry" => call["restore"].expect # 0
  BY DEF Inv, CallsComplete, Callers
<1>4. Moves("restore", q)
  BY <1>1, <1>2, <1>3, IdleCall DEF Moves, Wake, Calls, Idle
<1> HIDE DEF q
<1> QED
  BY <1>4, MovesKeepsInv DEF Callers

-----------------------------------------------------------------------------
LEMMA SendKeepsInv ==
    ASSUME Inv, NEW c \in Callers, Send(c)
    PROVE  Inv'
<1>1. /\ call' \in [Callers -> Calls] /\ call'[c] = [call[c] EXCEPT !.pc = "sending"]
      /\ \A d \in Callers : d # c => call'[d] = call[d]
      /\ call[c] \in Calls
  <2> DEFINE q == [call[c] EXCEPT !.pc = "sending"]
  <2>1. call \in [Callers -> Calls] /\ call' = [call EXCEPT ![c] = q]
    BY DEF Send, Inv, TypeOK
  <2>2. call[c] \in Calls
    BY <2>1
  <2>3. q \in Calls
    BY <2>2 DEF Calls
  <2> HIDE DEF q
  <2>4. call' \in [Callers -> Calls] /\ call'[c] = q /\ \A d \in Callers : d # c => call'[d] = call[d]
    BY <2>1, <2>3
  <2> QED
    BY <2>2, <2>4 DEF q
<1>2. /\ call'[c].pc = "sending" /\ call'[c].op = call[c].op
      /\ call'[c].expect = call[c].expect
  BY <1>1 DEF Calls
<1>3. lock = None /\ lock' = c /\ \A d \in Callers : call[d].pc # "sending"
  BY NoneAssumption DEF Send, WriteAllowed, Inv, OneWriter
<1>4. UNCHANGED <<running, readback, request, generation, mismatch, identities, read, shown>>
  BY DEF Send
<1>5. TypeOK'
  BY <1>1, <1>3, <1>4 DEF Inv, TypeOK, readback, request, Calls
<1>6. OneWriter'
  BY <1>1, <1>2, <1>3 DEF OneWriter
<1>7. RequestShown' /\ EvidenceShown'
  BY <1>4 DEF Inv, RequestShown, EvidenceShown, Received, readback, request
<1>8. DialogueStillFor'
  <2>1. /\ call[c].op = "retry" => pending = None
        /\ call[c].op = "cancel" => pending # None /\ pending.id = call[c].expect
    BY DEF Send, StillWanted, Inv, CallsComplete, RequestShown
  <2> QED
    BY <1>1, <1>2, <1>3, <1>4, <2>1 DEF DialogueStillFor, request
<1>9. RoomToWrite' /\ CallsComplete'
  BY <1>1, <1>2, <1>3, <1>4 DEF Inv, RoomToWrite, CallsComplete, Send
<1> QED
  BY <1>5, <1>6, <1>7, <1>8, <1>9 DEF Inv

LEMMA AcceptedKeepsInv ==
    ASSUME Inv, NEW c \in Callers, Accepted(c)
    PROVE  Inv'
<1> DEFINE q == call[c]
           n == IF q.restore = None THEN Idle ELSE [q EXCEPT !.pc = "nudged"]
<1>1. /\ call[c] \in Calls /\ q.pc = "sending" /\ q.op # "cancel"
      /\ lock = c /\ lock' = None
      /\ generation \in 0 .. MaxWrites /\ generation < MaxWrites
      /\ q.op = "retry" => q.expect # 0
  BY DEF Accepted, Inv, TypeOK, OneWriter, RoomToWrite, CallsComplete, Calls
<1>2. /\ n \in Calls /\ n.pc \in {"idle", "nudged"}
      /\ n.op = "retry" => n.expect # 0
      /\ n.pc = "nudged" => n.restore # None
  BY <1>1, IdleCall DEF Calls
<1>3. call' = [call EXCEPT ![c] = n]
  BY DEF Accepted
<1> HIDE DEF n
<1>4. /\ call' \in [Callers -> Calls] /\ call'[c] = n
      /\ \A d \in Callers : d # c => call'[d] = call[d]
  BY <1>2, <1>3 DEF Inv, TypeOK, Calls
<1>5. /\ generation' = generation + 1 /\ optimistic' = q.profile /\ aged' = FALSE
      /\ pending' = [id |-> generation + 1, profile |-> q.profile,
                     reserve |-> q.reserve, exact |-> q.exact]
      /\ issue' = FALSE /\ liveSince' = FALSE /\ seenSince' = FALSE /\ mismatch' = 0
      /\ shown' = FALSE
      /\ UNCHANGED <<running, profile, live, fresh, identities, read>>
  BY DEF Accepted, SetPending
<1>6. reserve' \in Reserves \union {None}
  BY <1>1, NormalizedReserve DEF Accepted, Inv, TypeOK, Calls
<1>7. pending' \in Requests /\ pending' # None /\ generation' \in 0 .. MaxWrites
      /\ q.profile \in Profiles
  BY <1>1, <1>5, NoneAssumption, ProfilesAssumption DEF Requests, Calls
<1>8. TypeOK'
  <2>1. optimistic' \in Profiles \union {None} /\ mismatch' \in 0 .. MaxMismatches
    BY <1>5, <1>7, ProfilesAssumption
  <2>2. /\ running' \in BOOLEAN /\ profile' \in Profiles \union {None}
        /\ live' \in Profiles \union {None} /\ fresh' \in BOOLEAN
        /\ identities' \in 0 .. MaxMismatches
        /\ read' \in [Reads -> (0..MaxWrites) \union {None}]
    BY <1>5 DEF Inv, TypeOK
  <2>3. /\ liveSince' \in BOOLEAN /\ seenSince' \in BOOLEAN /\ aged' \in BOOLEAN
        /\ issue' \in BOOLEAN /\ shown' \in BOOLEAN
    BY <1>5
  <2> QED
    BY <1>1, <1>4, <1>6, <1>7, <2>1, <2>2, <2>3 DEF TypeOK
<1>9. \A d \in Callers : call'[d].pc # "sending"
  BY <1>1, <1>2, <1>4 DEF Inv, OneWriter
<1>10. OneWriter' /\ DialogueStillFor' /\ RoomToWrite'
  BY <1>1, <1>9, NoneAssumption DEF OneWriter, DialogueStillFor, RoomToWrite
<1>11. RequestShown'
  BY <1>5, <1>7 DEF RequestShown
<1>12. CallsComplete'
  BY <1>2, <1>4 DEF Inv, CallsComplete
<1>13. EvidenceShown'
  BY <1>5 DEF EvidenceShown, Received
<1> QED
  BY <1>8, <1>10, <1>11, <1>12, <1>13 DEF Inv

LEMMA CancelledKeepsInv ==
    ASSUME Inv, NEW c \in Callers, Cancelled(c)
    PROVE  Inv'
<1>1. /\ call' \in [Callers -> Calls] /\ call'[c] = Idle
      /\ \A d \in Callers : d # c => call'[d] = call[d]
  BY IdleCall DEF Cancelled, Return, Inv, TypeOK, Calls
<1>2. lock = c /\ lock' = None
  BY DEF Cancelled, Inv, OneWriter
<1>3. \A d \in Callers : call'[d].pc # "sending"
  BY <1>1, <1>2, IdleCall DEF Inv, OneWriter
<1>4. OneWriter' /\ DialogueStillFor' /\ RoomToWrite'
  BY <1>2, <1>3, NoneAssumption DEF OneWriter, DialogueStillFor, RoomToWrite
<1>5. CallsComplete'
  BY <1>1, IdleCall DEF Inv, CallsComplete
<1>6. TypeOK' /\ RequestShown' /\ EvidenceShown'
  BY <1>1, <1>2 DEF Inv, TypeOK, RequestShown, EvidenceShown, Cancelled, ClearPending, Calls
<1> QED
  BY <1>4, <1>5, <1>6 DEF Inv

LEMMA AnswerKeepsInv ==
    ASSUME Inv, NEW c \in Callers, Refuse(c) \/ Answer(c)
    PROVE  Inv'
<1>1. CASE Refuse(c)
  <2>1. lock # c
    BY <1>1 DEF Refuse, Inv, OneWriter
  <2> QED
    BY <1>1, <2>1, ReturnKeepsInv DEF Refuse
<1>2. CASE Rejected(c)
  <2>1. lock = c
    BY <1>2 DEF Rejected, Inv, OneWriter
  <2> QED
    BY <1>2, <2>1, ReturnKeepsInv DEF Rejected
<1> QED
  BY <1>1, <1>2, AcceptedKeepsInv, CancelledKeepsInv DEF Answer

LEMMA NudgeEndKeepsInv ==
    ASSUME Inv, ScheduleRestore \/ LeaveNudged
    PROVE  Inv'
<1>1. CASE LeaveNudged
  <2>1. lock # "user"
    BY <1>1 DEF LeaveNudged, Inv, OneWriter, Callers
  <2> QED
    BY <1>1, <2>1, ReturnKeepsInv DEF LeaveNudged, Callers
<1>2. CASE ScheduleRestore
  <2> DEFINE s == [Idle EXCEPT !.pc = "sleeping", !.op = "reserve",
                     !.profile = call["user"].profile, !.reserve = call["user"].restore]
  <2>1. call["user"].pc = "nudged" /\ lock # "user"
    BY <1>2 DEF ScheduleRestore, Inv, OneWriter, Callers
  <2>2. call["user"] \in Calls /\ call["user"].restore \in Reserves
    BY <2>1 DEF Inv, TypeOK, CallsComplete, Calls, Callers
  <2>3. s \in Calls /\ s.pc = "sleeping" /\ s.op = "reserve"
    BY <2>2, IdleCall DEF Calls, Idle
  <2>4. /\ call' = [call EXCEPT !["user"] = Idle, !["restore"] = s]
        /\ lock' = IF lock = "restore" THEN None ELSE lock
        /\ UNCHANGED <<running, readback, request, generation, mismatch, identities,
                       read, shown>>
    BY <1>2 DEF ScheduleRestore
  <2> HIDE DEF s
  <2>5. /\ call' \in [Callers -> Calls] /\ call'["user"] = Idle /\ call'["restore"] = s
        /\ call'["repair"] = call["repair"]
    BY <2>3, <2>4, IdleCall DEF Inv, TypeOK, Callers
  <2>6. OneWriter'
    BY <2>1, <2>3, <2>4, <2>5, IdleCall, NoneAssumption DEF Inv, OneWriter, Callers
  <2>7. DialogueStillFor' /\ RoomToWrite' /\ CallsComplete'
    BY <2>3, <2>4, <2>5, IdleCall
       DEF Inv, DialogueStillFor, RoomToWrite, CallsComplete, Callers, request
  <2>8. TypeOK' /\ RequestShown' /\ EvidenceShown'
    BY <2>4, <2>5 DEF Inv, TypeOK, RequestShown, EvidenceShown, Received, readback, request
  <2> QED
    BY <2>6, <2>7, <2>8 DEF Inv
<1> QED
  BY <1>1, <1>2

LEMMA SyncIssueKeepsInv ==
    ASSUME Inv, SyncIssue
    PROVE  Inv'
<1>1. mismatch' \in 0 .. MaxMismatches /\ identities' \in 0 .. MaxMismatches
  BY ProfilesAssumption DEF SyncIssue, Inv, TypeOK
<1>2. TypeOK'
  BY <1>1 DEF SyncIssue, Overdue, Inv, TypeOK, readback
<1>3. OneWriter' /\ DialogueStillFor' /\ RoomToWrite' /\ CallsComplete'
  BY DEF SyncIssue, Inv, OneWriter, DialogueStillFor, RoomToWrite, CallsComplete
<1>4. RequestShown'
  BY DEF SyncIssue, Overdue, Inv, RequestShown
<1>5. EvidenceShown'
  BY DEF SyncIssue, Inv, EvidenceShown, Received, readback
<1> QED
  BY <1>2, <1>3, <1>4, <1>5 DEF Inv

LEMMA TimeKeepsInv ==
    ASSUME Inv, Age \/ Lapse
    PROVE  Inv'
<1>1. CASE Age
  <2>1. TypeOK' /\ RequestShown'
    BY <1>1 DEF Age, Inv, TypeOK, RequestShown, readback
  <2>2. OneWriter' /\ DialogueStillFor' /\ RoomToWrite' /\ CallsComplete'
    BY <1>1 DEF Age, Inv, OneWriter, DialogueStillFor, RoomToWrite, CallsComplete
  <2>3. EvidenceShown'
    BY <1>1 DEF Age, Inv, EvidenceShown, Received, readback
  <2> QED
    BY <2>1, <2>2, <2>3 DEF Inv
<1>2. CASE Lapse
  <2>0. TypeOK'
    <3>1. /\ fresh' \in BOOLEAN
          /\ UNCHANGED <<running, profile, reserve, live, liveSince, seenSince, pending, aged,
                         optimistic, issue, generation, lock, mismatch, identities, call,
                         read, shown>>
      BY <1>2 DEF Lapse, request
    <3> QED
      BY <3>1 DEF Inv, TypeOK
  <2>1. RequestShown'
    BY <1>2 DEF Lapse, Inv, RequestShown, request
  <2>2. OneWriter' /\ DialogueStillFor' /\ RoomToWrite' /\ CallsComplete'
    BY <1>2 DEF Lapse, Inv, OneWriter, DialogueStillFor, RoomToWrite, CallsComplete, request
  <2>3. EvidenceShown'
    BY <1>2 DEF Lapse, Inv, EvidenceShown, Received, request
  <2> QED
    BY <2>0, <2>1, <2>2, <2>3 DEF Inv
<1> QED
  BY <1>1, <1>2

LEMMA UnloadKeepsInv ==
    ASSUME Inv, Unload
    PROVE  Inv'
<1>1. /\ call' \in [Callers -> Calls] /\ call'["restore"] = Idle
      /\ \A d \in Callers : d # "restore" => call'[d] = call[d]
  BY IdleCall DEF Unload, Inv, TypeOK, Callers
<1>2. TypeOK' /\ RequestShown'
  <2>1. 0 \in 0 .. MaxMismatches
    BY ProfilesAssumption
  <2>2. TypeOK'
    BY <1>1, <2>1 DEF Unload, Inv, TypeOK, readback, request
  <2> QED
    BY <2>2 DEF Unload, Inv, RequestShown, request
<1>3. OneWriter'
  BY <1>1, IdleCall, NoneAssumption DEF Unload, Inv, OneWriter, Callers
<1>4. DialogueStillFor' /\ RoomToWrite' /\ CallsComplete'
  BY <1>1, IdleCall DEF Unload, Inv, DialogueStillFor, RoomToWrite, CallsComplete, request
<1>5. EvidenceShown'
  BY DEF Unload, Inv, EvidenceShown, Received, readback, request
<1> QED
  BY <1>2, <1>3, <1>4, <1>5 DEF Inv

LEMMA BeginReadKeepsInv ==
    ASSUME Inv, NEW x \in Reads, BeginRead(x)
    PROVE  Inv'
<1>1. TypeOK'
  BY DEF BeginRead, Inv, TypeOK, readback, request
<1>2. OneWriter' /\ RequestShown' /\ DialogueStillFor' /\ RoomToWrite' /\ CallsComplete'
  BY DEF BeginRead, Inv, OneWriter, RequestShown, DialogueStillFor, RoomToWrite,
         CallsComplete, request
<1>3. EvidenceShown'
  BY DEF BeginRead, Inv, EvidenceShown, Received, readback, request
<1> QED
  BY <1>1, <1>2, <1>3 DEF Inv

LEMMA DropReadOutcome ==
    ASSUME Inv, NEW x \in Reads, DropRead(x)
    PROVE  ReadOutcome
<1>1. TypeOK /\ EndRead(x)
  BY DEF Inv, DropRead
<1>2. EvidenceShown'
  BY DEF DropRead, Inv, EvidenceShown, Received, readback, request
<1> QED
  BY <1>1, <1>2, EndReadOutcome DEF DropRead, ReadOutcome, TypeOK, readback

LEMMA AnsweredOutcome ==
    ASSUME Inv, NEW x \in Reads, Answered(x)
    PROVE  ReadOutcome
BY DropReadOutcome, ReadProfileOutcome, ReadSettingsOutcome, ReadStatusOutcome DEF Answered

-----------------------------------------------------------------------------
LEMMA InitInv == Init => Inv
<1> SUFFICES ASSUME Init PROVE Inv
  OBVIOUS
<1>1. TypeOK
  <2>1. 0 \in 0 .. MaxWrites /\ 0 \in 0 .. MaxMismatches
    BY ProfilesAssumption
  <2>2. call \in [Callers -> Calls] /\ read \in [Reads -> (0 .. MaxWrites) \union {None}]
    BY IdleCall DEF Init
  <2> QED
    BY <2>1, <2>2 DEF Init, TypeOK
<1>2. OneWriter /\ DialogueStillFor /\ RoomToWrite /\ CallsComplete
  BY IdleCall, NoneAssumption DEF Init, OneWriter, DialogueStillFor, RoomToWrite, CallsComplete
<1>3. RequestShown /\ EvidenceShown
  BY DEF Init, RequestShown, EvidenceShown
<1> QED
  BY <1>1, <1>2, <1>3 DEF Inv

LEMMA NextInv ==
    ASSUME Inv, [Next]_vars
    PROVE  Inv'
<1>1. CASE UNCHANGED vars
  BY <1>1 DEF vars, readback, request, Inv, TypeOK, OneWriter, RequestShown,
     DialogueStillFor, RoomToWrite, CallsComplete, EvidenceShown, Received
<1>2. ASSUME NEW x \in Reads, BeginRead(x) \/ Answered(x)
      PROVE  Inv'
  BY <1>2, BeginReadKeepsInv, AnsweredOutcome, ReadKeepsInv
<1>3. ASSUME NEW r \in Reserves,
             SetReserve(r) \/ RetryProfile(r) \/ \E p \in Profiles : SetProfile(p, r)
      PROVE  Inv'
  BY <1>3, SetReserveKeepsInv, RetryProfileKeepsInv, SetProfileKeepsInv
<1>4. ASSUME NEW c \in Callers, Send(c) \/ Refuse(c) \/ Answer(c)
      PROVE  Inv'
  BY <1>4, SendKeepsInv, AnswerKeepsInv
<1> QED
  BY <1>1, <1>2, <1>3, <1>4, CancelPendingKeepsInv, WakeKeepsInv, NudgeEndKeepsInv,
     SyncIssueKeepsInv, TimeKeepsInv, UnloadKeepsInv DEF Next

\* The invariant holds in every state of every run.
THEOREM InvHolds == Spec => []Inv
BY InitInv, NextInv, PTL DEF Spec

\* Every variable keeps its type, for any profiles, reserves, reads and bounds.
THEOREM Typed == Spec => []TypeOK
BY InvHolds, PTL DEF Inv

\* Whoever has a write under way holds the write lock, and nobody else does.
THEOREM WritersExclude == Spec => []OneWriter
BY InvHolds, PTL DEF Inv

\* Optimistic profile, disagreement and repair follow the pending request.
THEOREM RequestIsShown == Spec => []RequestShown
BY InvHolds, PTL DEF Inv

\* A retry or a cancellation under way is still for what its dialogue showed.
THEOREM DialoguesHold == Spec => []DialogueStillFor
BY InvHolds, PTL DEF Inv

\* No request is confirmed by a read from before its write, nor by old values.
THEOREM ConfirmedByEvidence == Spec => ConfirmedByMatchingRead
<1>1. ASSUME Inv, [Next]_vars, pending # None, pending' = None, call' = call
      PROVE  shown'
  <2>1. ASSUME NEW c \in Callers, Answer(c) PROVE FALSE
    <3>1. call[c] \in Calls /\ call[c].pc = "sending"
      BY <1>1, <2>1 DEF Answer, Rejected, Accepted, Cancelled, Inv, TypeOK
    <3>2. CASE Rejected(c) \/ Cancelled(c)
      BY <1>1, <3>1, <3>2, IdleCall DEF Rejected, Cancelled, Return, Inv, TypeOK
    <3>3. CASE Accepted(c)
      <4>1. call[c].profile \in Profiles /\ call[c].reserve \in Reserves /\ call[c].exact \in BOOLEAN
        BY <3>1 DEF Calls
      <4>2. generation \in 0 .. MaxWrites /\ generation < MaxWrites
        BY <1>1, <3>1, <3>3 DEF Inv, TypeOK, RoomToWrite, Accepted
      <4>3. pending' \in Requests
        BY <3>3, <4>1, <4>2, ProfilesAssumption DEF Accepted, SetPending, Requests
      <4> QED
        BY <1>1, <4>3, NoneAssumption
    <3> QED
      BY <2>1, <3>2, <3>3 DEF Answer
  <2>2. ASSUME NEW x \in Reads, Answered(x) PROVE shown'
    BY <1>1, <2>2, AnsweredOutcome DEF ReadOutcome, request
  <2>3. CASE pending' = pending
    BY <1>1, <2>3
  <2>4. ~(\E c \in Callers : Answer(c)) /\ ~(\E x \in Reads : Answered(x)) => pending' = pending
    BY <1>1 DEF Next, vars, request, BeginRead, SetReserve, RetryProfile, SetProfile, Start,
       CancelPending, Wake, Send, Refuse, ScheduleRestore, LeaveNudged, SyncIssue, Age,
       Lapse, Unload
  <2> QED
    BY <2>1, <2>2, <2>3, <2>4
<1> QED
  BY <1>1, InvHolds, PTL DEF Spec, ConfirmedByMatchingRead

\* While a request is young, no read replaces its profile once shown.
THEOREM SettledStays == Spec => SettledNotReverted
<1>1. ASSUME Inv, [Next]_vars, pending # None, pending' = pending, ~aged,
             profile = pending.profile
      PROVE  profile' = profile
  <2>1. ASSUME NEW x \in Reads, Answered(x) PROVE profile' = profile
    BY <1>1, <2>1, AnsweredOutcome DEF ReadOutcome
  <2>2. ~(\E x \in Reads : Answered(x)) => profile' = profile
    BY <1>1 DEF Next, vars, readback, BeginRead, SetReserve, RetryProfile, SetProfile, Start,
       CancelPending, Wake, Send, Refuse, Answer, Rejected, Accepted, Cancelled,
       ScheduleRestore, LeaveNudged, SyncIssue, Age, Lapse, Unload
  <2> QED
    BY <2>1, <2>2
<1> QED
  BY <1>1, InvHolds, PTL DEF Spec, SettledNotReverted

=============================================================================
