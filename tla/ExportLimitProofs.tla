--------------------------- MODULE ExportLimitProofs ---------------------------
(***************************************************************************)
(* Proofs about the export limit, for any callers, settings and numbers of *)
(* requests, reloads and crashes, as long as no reload overlaps a service  *)
(* call.  Then one call at a time is under way, the loaded runtime's; the  *)
(* invariant says what that call knows of the pending request at each of   *)
(* its awaits, and that the outcome of no other write is open whenever the *)
(* Store is about to change.                                               *)
(***************************************************************************)
EXTENDS ExportLimit, TLAPS

\* What a call under way may rely on at its await.
CallSound(c) ==
    ~At(c, "idle") =>
        /\ Rt(c) = runtime
        /\ lock[runtime] = c
        /\ ~At(c, "load") => loaded[runtime]
        /\ call[c].kind = "apply" => call[c].want \in Settings
        /\ At(c, "form") => call[c].kind = "apply"
        /\ call[c].pc \in {"load", "auth"} => call[c].stage = "gate"
        /\ call[c].pc \in {"form", "confirm", "withdraw", "reject"}
             => pending[runtime] = None
        /\ call[c].pc \in {"read", "answer"} /\ call[c].stage = "identity"
             => pending[runtime] = None
        /\ call[c].pc \in {"record", "write"}
             => pending[runtime] = call[c].intent /\ call[c].intent # None
        /\ call[c].pc \in {"record", "confirm", "withdraw", "reject"} => Open = {}
        /\ At(c, "answer") => pending[runtime] <= call[c].after

CallsSound == \A c \in Everyone : CallSound(c)

LaterRuntimesEmpty == \A r \in Runtimes : r > runtime => ~loaded[r]

\* The Store and the loaded runtime hold requests that were recorded.
RequestsRecorded == disk <= Len(wish) /\ \A r \in Runtimes : pending[r] <= Len(wish)

ExportInv ==
    /\ TypeOK
    /\ CallsSound
    /\ LaterRuntimesEmpty
    /\ RequestsRecorded
    /\ OpenWriteStored
    /\ OpenWriteKnown

-----------------------------------------------------------------------------
(* Calls *)

LEMMA IdleCall == Idle \in Calls /\ Idle.pc = "idle"
BY ConstantsAssumption DEF Idle, Calls, Requests, Runtimes, None

LEMMA OnlyOneCall ==
    ASSUME CallsSound, NEW c \in Everyone, ~At(c, "idle")
    PROVE  \A d \in Everyone \ {c} : At(d, "idle")
BY DEF CallsSound, CallSound

LEMMA NobodyCalls ==
    ASSUME CallsSound, lock[runtime] = Free
    PROVE  \A d \in Everyone : At(d, "idle")
BY ConstantsAssumption DEF CallsSound, CallSound, Everyone

\* Only c's call changes, and it is the only one.
LEMMA OneCallSound ==
    ASSUME NEW c \in Everyone, \A d \in Everyone \ {c} : At(d, "idle") /\ call'[d] = call[d],
           CallSound(c)'
    PROVE  CallsSound'
BY DEF CallsSound, CallSound, At

LEMMA CallMoves ==
    ASSUME TypeOK, NEW c \in Everyone, NEW q \in Calls, call' = [call EXCEPT ![c] = q]
    PROVE  /\ call' \in [Everyone -> Calls] /\ call'[c] = q
           /\ \A d \in Everyone \ {c} : call'[d] = call[d]
BY DEF TypeOK

LEMMA GotoMoves ==
    ASSUME TypeOK, NEW c \in Everyone, NEW pc, Goto(c, pc),
           pc \in {"idle", "load", "auth", "read", "answer", "confirm", "form", "record",
                   "withdraw", "write", "reject"}
    PROVE  /\ call' \in [Everyone -> Calls]
           /\ \A d \in Everyone \ {c} : call'[d] = call[d]
           /\ call'[c].pc = pc /\ call'[c].rt = call[c].rt /\ call'[c].kind = call[c].kind
           /\ call'[c].want = call[c].want /\ call'[c].stage = call[c].stage
           /\ call'[c].sample = call[c].sample /\ call'[c].after = call[c].after
           /\ call'[c].seen = call[c].seen /\ call'[c].intent = call[c].intent
<1> DEFINE r == call[c]
           q == [r EXCEPT !.pc = pc]
<1>1. r \in Calls
  BY DEF TypeOK
<1>2. call' = [call EXCEPT ![c] = q]
  BY DEF Goto
<1> HIDE DEF r
<1>3. /\ q \in Calls
      /\ q.pc = pc /\ q.rt = r.rt /\ q.kind = r.kind /\ q.want = r.want /\ q.stage = r.stage
      /\ q.sample = r.sample /\ q.after = r.after /\ q.seen = r.seen /\ q.intent = r.intent
  BY <1>1 DEF Calls
<1> HIDE DEF q
<1>4. /\ call' \in [Everyone -> Calls] /\ call'[c] = q
      /\ \A d \in Everyone \ {c} : call'[d] = call[d]
  BY <1>2, <1>3, CallMoves
<1> QED  BY <1>3, <1>4 DEF r

LEMMA LeaveMoves ==
    ASSUME TypeOK, NEW c \in Everyone, Leave(c), Rt(c) = runtime
    PROVE  /\ call' \in [Everyone -> Calls] /\ call'[c] = Idle
           /\ \A d \in Everyone \ {c} : call'[d] = call[d]
           /\ lock' \in [Runtimes -> Everyone \union {Free}]
<1>1. Idle \in Calls
  BY IdleCall
<1> QED  BY <1>1, CallMoves DEF Leave, TypeOK

\* A call that leaves, with everybody else idle, leaves all calls sound.
LEMMA LeaveSound ==
    ASSUME TypeOK, CallsSound, NEW c \in Everyone, ~At(c, "idle"), Leave(c)
    PROVE  /\ call' \in [Everyone -> Calls]
           /\ lock' \in [Runtimes -> Everyone \union {Free}]
           /\ CallsSound'
<1>1. Rt(c) = runtime
  BY DEF CallsSound, CallSound
<1>2. /\ call' \in [Everyone -> Calls] /\ call'[c] = Idle
      /\ \A d \in Everyone \ {c} : call'[d] = call[d]
      /\ lock' \in [Runtimes -> Everyone \union {Free}]
  BY <1>1, LeaveMoves
<1>3. \A d \in Everyone \ {c} : At(d, "idle")
  BY OnlyOneCall
<1>4. CallSound(c)'
  BY <1>2, IdleCall DEF CallSound, At
<1> QED  BY <1>2, <1>3, <1>4, OneCallSound

\* The writes of open outcome stay or become fewer.
LEMMA OpenTyped ==
    ASSUME TypeOK
    PROVE  Open \subseteq 1..Len(wish) /\ Len(wish) \in Nat /\ None \notin Open
<1>1. Len(wish) \in Nat
  BY DEF TypeOK
<1> QED  BY <1>1 DEF TypeOK, Open, None

LEMMA InitInv == Init => ExportInv
<1> SUFFICES ASSUME Init PROVE ExportInv
  OBVIOUS
<1> USE ConstantsAssumption
<1>1. 1 \in Runtimes /\ None \in Requests
  BY DEF Runtimes, Requests, None
<1>2. TypeOK
  <2>1. wish \in Seq(Settings) /\ Len(wish) = 0
    BY DEF Init
  <2>2. 0 \in 0..MaxExternal /\ 0 \in 0..MaxToggles /\ 0 <= MaxIntents
    OBVIOUS
  <2>3. call \in [Everyone -> Calls]
    BY IdleCall DEF Init
  <2> QED  BY <1>1, <2>1, <2>2, <2>3 DEF Init, TypeOK
<1>3. CallsSound
  BY IdleCall DEF Init, CallsSound, CallSound, At
<1>4. LaterRuntimesEmpty /\ OpenWriteStored /\ OpenWriteKnown
  BY <1>1 DEF Init, LaterRuntimesEmpty, OpenWriteStored, OpenWriteKnown, Open
<1>5. RequestsRecorded
  BY DEF Init, RequestsRecorded, None
<1> QED  BY <1>2, <1>3, <1>4, <1>5 DEF ExportInv

-----------------------------------------------------------------------------
(* The steps *)

StatusValues == {"idle", "pending", "unconfirmed", "confirmed", "rejected"}

LEMMA TypeStays ==
    ASSUME TypeOK, UNCHANGED <<own, wish, aged, cloud, confirmed>>,
           loaded' \in [Runtimes -> BOOLEAN],
           pending' \in [Runtimes -> Requests],
           status' \in [Runtimes -> StatusValues],
           lock' \in [Runtimes -> Everyone \union {Free}],
           task' \in {"none", "start", "loop"},
           disk' \in Requests, issue' \in BOOLEAN,
           call' \in [Everyone -> Calls]
    PROVE  TypeOK'
BY DEF TypeOK, StatusValues, own, cloud

LEMMA StoreStays ==
    ASSUME ExportInv, UNCHANGED <<runtime, loaded, pending, disk, wish, inflight, confirmed>>
    PROVE  /\ LaterRuntimesEmpty' /\ RequestsRecorded' /\ OpenWriteStored' /\ OpenWriteKnown'
           /\ Open' = Open
<1>1. Open' = Open
  BY DEF Open
<1> QED  BY <1>1 DEF ExportInv, LaterRuntimesEmpty, RequestsRecorded, OpenWriteStored,
                     OpenWriteKnown

LEMMA OverdueBoolean ==
    ASSUME TypeOK, NEW r \in Runtimes, NEW p
    PROVE  Overdue(r, p) \in BOOLEAN
BY DEF Overdue, Permitted, TypeOK

LEMMA ScheduleTyped ==
    ASSUME TypeOK, NEW r, Schedule(r)
    PROVE  task' \in {"none", "start", "loop"}
BY DEF TypeOK, Schedule

LEMMA StartKeeps ==
    ASSUME ExportInv, NEW c \in Everyone, NEW kind \in {"refresh", "apply"},
           NEW want \in Settings \union {Unreadable}, kind = "apply" => want \in Settings,
           Start(c, kind, want)
    PROVE  ExportInv'
<1> DEFINE pc == IF loaded[runtime] THEN "auth" ELSE "load"
           q == [Idle EXCEPT !.pc = pc, !.rt = runtime, !.kind = kind, !.want = want]
<1>1. /\ lock[runtime] = Free /\ lock' = [lock EXCEPT ![runtime] = c]
      /\ call' = [call EXCEPT ![c] = q]
      /\ IF loaded[runtime] THEN NoticeOverdue(kind, runtime, pending[runtime])
                            ELSE UNCHANGED <<status, issue>>
      /\ UNCHANGED <<own, loaded, pending, task, disk, wish, aged, cloud, confirmed>>
  BY DEF Start, Acquire
<1>2. TypeOK /\ CallsSound /\ runtime \in Runtimes
  BY DEF ExportInv, TypeOK
<1>3. /\ q \in Calls /\ q.pc = pc /\ q.rt = runtime /\ q.stage = "gate"
      /\ q.kind = kind /\ q.want = want
  <2> DEFINE r == Idle
  <2>1. pc \in {"auth", "load"} /\ r \in Calls /\ r.stage = "gate"
    BY IdleCall DEF Idle
  <2> HIDE DEF pc, r
  <2>2. LET p == [r EXCEPT !.pc = pc, !.rt = runtime, !.kind = kind, !.want = want]
        IN  /\ p \in Calls /\ p.pc = pc /\ p.rt = runtime /\ p.stage = r.stage
            /\ p.kind = kind /\ p.want = want
    BY <1>2, <2>1 DEF Calls
  <2> QED  BY <2>1, <2>2 DEF r
<1> HIDE DEF q
<1>4. /\ call' \in [Everyone -> Calls] /\ call'[c] = q
      /\ \A d \in Everyone \ {c} : call'[d] = call[d]
  BY <1>1, <1>2, <1>3, CallMoves
<1>5. status' \in [Runtimes -> StatusValues] /\ issue' \in BOOLEAN
  <2>1. CASE UNCHANGED <<status, issue>>
    BY <1>2, <2>1 DEF TypeOK, StatusValues
  <2>2. CASE /\ status' = [status EXCEPT ![runtime] = "unconfirmed"]
             /\ issue' = Overdue(runtime, pending[runtime])
    BY <1>2, <2>2, OverdueBoolean DEF TypeOK, StatusValues
  <2> QED  BY <1>1, <2>1, <2>2 DEF NoticeOverdue
<1>6. lock' \in [Runtimes -> Everyone \union {Free}] /\ lock'[runtime] = c
  BY <1>1, <1>2 DEF TypeOK
<1>7. TypeOK'
  <2>1. /\ loaded' \in [Runtimes -> BOOLEAN] /\ pending' \in [Runtimes -> Requests]
        /\ task' \in {"none", "start", "loop"} /\ disk' \in Requests
    BY <1>1, <1>2 DEF TypeOK
  <2> QED  BY <1>1, <1>2, <1>4, <1>5, <1>6, <2>1, TypeStays
<1>8. /\ LaterRuntimesEmpty' /\ RequestsRecorded' /\ OpenWriteStored' /\ OpenWriteKnown'
      /\ runtime' = runtime
  BY <1>1, StoreStays DEF own, cloud
<1>9. CallsSound'
  <2>1. \A d \in Everyone \ {c} : At(d, "idle")
    BY <1>1, <1>2, NobodyCalls
  <2>2. CallSound(c)'
    BY <1>1, <1>3, <1>4, <1>6, <1>8 DEF CallSound, At, Rt
  <2> QED  BY <1>4, <2>1, <2>2, OneCallSound
<1> QED  BY <1>7, <1>8, <1>9 DEF ExportInv

\* What is known when c takes a step.
LEMMA StepKnows ==
    ASSUME ExportInv, NEW c \in Everyone, ~At(c, "idle")
    PROVE  /\ TypeOK /\ CallsSound /\ CallSound(c)
           /\ runtime \in Runtimes /\ Rt(c) = runtime /\ lock[runtime] = c
           /\ \A d \in Everyone \ {c} : At(d, "idle")
           /\ call[c] \in Calls
           /\ Open \subseteq 1..Len(wish) /\ Len(wish) \in Nat
<1>1. TypeOK /\ CallsSound /\ CallSound(c)
  BY DEF ExportInv, CallsSound
<1> QED  BY <1>1, OnlyOneCall, OpenTyped DEF CallSound, TypeOK

LEMMA LoadKeeps ==
    ASSUME ExportInv, NEW c \in Everyone, Load(c)
    PROVE  ExportInv'
<1>1. /\ At(c, "load") /\ Goto(c, "auth")
      /\ loaded' = [loaded EXCEPT ![Rt(c)] = TRUE]
      /\ pending' = [pending EXCEPT ![Rt(c)] = disk]
      /\ status' = [status EXCEPT ![Rt(c)] = IF disk # None THEN "unconfirmed" ELSE @]
      /\ issue' = Overdue(Rt(c), disk) \/ issue' = issue
      /\ UNCHANGED <<own, lock, task, disk, wish, aged, cloud, confirmed>>
  BY DEF Load, Restored
<1>2. /\ TypeOK /\ CallsSound /\ CallSound(c)
      /\ runtime \in Runtimes /\ Rt(c) = runtime /\ lock[runtime] = c
      /\ \A d \in Everyone \ {c} : At(d, "idle")
      /\ call[c] \in Calls
  BY <1>1, StepKnows DEF At
<1>3. /\ call' \in [Everyone -> Calls] /\ call'[c].pc = "auth" /\ call'[c].rt = call[c].rt
      /\ call'[c].stage = call[c].stage
      /\ call'[c].kind = call[c].kind /\ call'[c].want = call[c].want
      /\ \A d \in Everyone \ {c} : call'[d] = call[d]
  BY <1>1, <1>2, GotoMoves
<1>4. /\ loaded' \in [Runtimes -> BOOLEAN] /\ loaded'[runtime]
      /\ \A r \in Runtimes \ {runtime} : loaded'[r] = loaded[r]
      /\ pending' \in [Runtimes -> Requests] /\ pending'[runtime] = disk
      /\ \A r \in Runtimes \ {runtime} : pending'[r] = pending[r]
      /\ status' \in [Runtimes -> StatusValues]
  BY <1>1, <1>2 DEF TypeOK, StatusValues
<1>5. TypeOK'
  <2>1. issue' \in BOOLEAN
    BY <1>1, <1>2, OverdueBoolean DEF TypeOK
  <2>2. /\ lock' \in [Runtimes -> Everyone \union {Free}]
        /\ task' \in {"none", "start", "loop"} /\ disk' \in Requests
    BY <1>1, <1>2 DEF TypeOK
  <2> QED  BY <1>1, <1>2, <1>3, <1>4, <2>1, <2>2, TypeStays
<1>6. Open' = Open /\ runtime' = runtime
  BY <1>1 DEF Open, cloud, own
<1>7. OpenWriteStored' /\ OpenWriteKnown' /\ RequestsRecorded' /\ LaterRuntimesEmpty'
  <2>1. OpenWriteStored' /\ OpenWriteKnown'
    BY <1>1, <1>4, <1>6 DEF ExportInv, OpenWriteStored, OpenWriteKnown
  <2>2. RequestsRecorded'
    BY <1>1, <1>2, <1>4 DEF ExportInv, RequestsRecorded
  <2>3. LaterRuntimesEmpty'
    <3>1. runtime \in Int
      BY <1>2 DEF Runtimes
    <3> QED  BY <1>4, <1>6, <3>1 DEF ExportInv, LaterRuntimesEmpty
  <2> QED  BY <2>1, <2>2, <2>3
<1>8. CallSound(c)'
  BY <1>1, <1>2, <1>3, <1>4, <1>6 DEF CallSound, At, Rt
<1> QED  BY <1>2, <1>3, <1>5, <1>7, <1>8, OneCallSound DEF ExportInv

\* The Store changes only while no write is of open outcome.
StoreFree == disk' = disk \/ (Open = {} /\ disk' \in 0..Len(wish))

\* A step of c that changes no request.
LEMMA CallOnlyKeeps ==
    ASSUME ExportInv, NEW c \in Everyone, ~At(c, "idle"),
           UNCHANGED <<own, loaded, pending, wish, aged, cloud, confirmed>>, StoreFree,
           lock' \in [Runtimes -> Everyone \union {Free}],
           status' \in [Runtimes -> StatusValues],
           task' \in {"none", "start", "loop"}, issue' \in BOOLEAN,
           call' \in [Everyone -> Calls], CallsSound'
    PROVE  ExportInv'
<1>1. TypeOK
  BY DEF ExportInv
<1>2. /\ loaded' \in [Runtimes -> BOOLEAN] /\ pending' \in [Runtimes -> Requests]
  BY <1>1 DEF TypeOK
<1>3. disk' \in Requests /\ disk' <= Len(wish)
  <2>1. disk \in Requests /\ disk <= Len(wish) /\ Len(wish) \in Nat /\ Len(wish) <= MaxIntents
    BY <1>1 DEF TypeOK, ExportInv, RequestsRecorded
  <2> QED  BY <2>1, ConstantsAssumption DEF StoreFree, Requests
<1>4. TypeOK'
  BY <1>1, <1>2, <1>3, TypeStays
<1>5. Open' = Open /\ runtime' = runtime
  BY DEF Open, own, cloud
<1>6. RequestsRecorded' /\ LaterRuntimesEmpty'
  BY <1>3, <1>5 DEF RequestsRecorded, LaterRuntimesEmpty, ExportInv
<1>7. OpenWriteStored' /\ OpenWriteKnown'
  BY <1>5 DEF OpenWriteStored, OpenWriteKnown, ExportInv, StoreFree
<1> QED  BY <1>4, <1>6, <1>7 DEF ExportInv

LEMMA AuthoriseKeeps ==
    ASSUME ExportInv, NEW c \in Everyone, Authorise(c)
    PROVE  ExportInv'
<1>1. /\ At(c, "auth") /\ Goto(c, "read")
      /\ UNCHANGED <<own, memory, lock, task, disk, issue, wish, aged, cloud, confirmed>>
  BY DEF Authorise
<1>2. /\ TypeOK /\ CallSound(c) /\ Rt(c) = runtime /\ lock[runtime] = c
      /\ \A d \in Everyone \ {c} : At(d, "idle")
  BY <1>1, StepKnows DEF At
<1>3. /\ call' \in [Everyone -> Calls]
      /\ \A d \in Everyone \ {c} : call'[d] = call[d]
      /\ call'[c].pc = "read" /\ call'[c].rt = call[c].rt /\ call'[c].stage = call[c].stage
      /\ call'[c].kind = call[c].kind /\ call'[c].want = call[c].want
  BY <1>1, <1>2, GotoMoves
<1>4. CallSound(c)'
  BY <1>1, <1>2, <1>3 DEF CallSound, At, Rt, memory, own
<1>5. CallsSound'
  BY <1>2, <1>3, <1>4, OneCallSound
<1>6. /\ lock' \in [Runtimes -> Everyone \union {Free}] /\ status' \in [Runtimes -> StatusValues]
      /\ task' \in {"none", "start", "loop"} /\ issue' \in BOOLEAN
  BY <1>1, <1>2 DEF TypeOK, StatusValues, memory
<1> QED  BY <1>1, <1>3, <1>5, <1>6, CallOnlyKeeps DEF memory, At, StoreFree

LEMMA ServeKeeps ==
    ASSUME ExportInv, NEW c \in Everyone, Serve(c)
    PROVE  ExportInv'
<1>1. PICK s \in {config, Unreadable} :
        /\ At(c, "read")
        /\ call' = [call EXCEPT ![c].pc = "answer", ![c].sample = s, ![c].after = Len(wish)]
        /\ UNCHANGED <<own, memory, lock, task, disk, issue, wish, aged, cloud, confirmed>>
  BY DEF Serve
<1>2. /\ TypeOK /\ CallSound(c) /\ Rt(c) = runtime /\ lock[runtime] = c
      /\ \A d \in Everyone \ {c} : At(d, "idle")
      /\ call[c] \in Calls /\ runtime \in Runtimes
  BY <1>1, StepKnows DEF At
<1> DEFINE r == call[c]
           n == Len(wish)
           q == [r EXCEPT !.pc = "answer", !.sample = s, !.after = n]
<1>3. s \in Settings \union {Unreadable} /\ n \in Requests
  BY <1>2, ConstantsAssumption DEF TypeOK, Requests
<1>4. /\ q \in Calls /\ q.pc = "answer" /\ q.rt = r.rt /\ q.stage = r.stage /\ q.after = n
      /\ q.kind = r.kind /\ q.want = r.want
  <2>1. r \in Calls
    BY <1>2
  <2> HIDE DEF r, n
  <2> QED  BY <1>3, <2>1 DEF Calls
<1>5. call' = [call EXCEPT ![c] = q]
  BY <1>1, <1>2 DEF TypeOK
<1> HIDE DEF q
<1>6. /\ call' \in [Everyone -> Calls] /\ call'[c] = q
      /\ \A d \in Everyone \ {c} : call'[d] = call[d]
  BY <1>2, <1>4, <1>5, CallMoves
<1>7. pending[runtime] <= n
  BY <1>2 DEF ExportInv, RequestsRecorded
<1>8. CallSound(c)'
  BY <1>1, <1>2, <1>4, <1>6, <1>7 DEF CallSound, At, Rt, memory, own
<1>9. CallsSound'
  BY <1>2, <1>6, <1>8, OneCallSound
<1>10. /\ lock' \in [Runtimes -> Everyone \union {Free}]
       /\ status' \in [Runtimes -> StatusValues]
       /\ task' \in {"none", "start", "loop"} /\ issue' \in BOOLEAN
  BY <1>1, <1>2 DEF TypeOK, StatusValues, memory
<1> QED  BY <1>1, <1>6, <1>9, <1>10, CallOnlyKeeps DEF memory, At, StoreFree

LEMMA MatchKeeps ==
    ASSUME ExportInv, NEW c \in Everyone, Match(c)
    PROVE  ExportInv'
<1> DEFINE id == pending[runtime]
<1>1. At(c, "answer") /\ Goto(c, "confirm")
  BY DEF Match
<1>2. /\ TypeOK /\ CallSound(c) /\ Rt(c) = runtime /\ lock[runtime] = c
      /\ \A d \in Everyone \ {c} : At(d, "idle")
      /\ call[c] \in Calls /\ runtime \in Runtimes /\ loaded[runtime]
  BY <1>1, StepKnows DEF At, CallSound
<1>3. /\ id # None
      /\ confirmed' = confirmed \union {id}
      /\ pending' = [pending EXCEPT ![runtime] = None]
      /\ status' = [status EXCEPT ![runtime] = "confirmed"]
      /\ UNCHANGED <<own, loaded, lock, task, disk, issue, wish, aged, cloud>>
  BY <1>2 DEF Match
<1>4. /\ call' \in [Everyone -> Calls]
      /\ \A d \in Everyone \ {c} : call'[d] = call[d]
      /\ call'[c].pc = "confirm" /\ call'[c].rt = call[c].rt
      /\ call'[c].kind = call[c].kind /\ call'[c].want = call[c].want
  BY <1>1, <1>2, GotoMoves
<1>5. id \in 1..Len(wish) /\ None \in Requests /\ Len(wish) \in Nat
  BY <1>2, <1>3, ConstantsAssumption DEF TypeOK, Requests, None, ExportInv, RequestsRecorded
<1>6. /\ pending' \in [Runtimes -> Requests] /\ pending'[runtime] = None
      /\ \A r \in Runtimes : pending'[r] = None \/ pending'[r] = pending[r]
  BY <1>2, <1>3, <1>5 DEF TypeOK
<1>7. TypeOK'
  <2>1. confirmed' \subseteq 1..Len(wish)
    BY <1>2, <1>3, <1>5 DEF TypeOK
  <2>2. status' \in [Runtimes -> {"idle", "pending", "unconfirmed", "confirmed", "rejected"}]
    BY <1>2, <1>3 DEF TypeOK
  <2> QED  BY <1>2, <1>3, <1>4, <1>6, <2>1, <2>2 DEF TypeOK, own, cloud
<1>8. Open' = {} /\ runtime' = runtime
  <2>1. Open \subseteq {id}
    BY <1>2 DEF ExportInv, OpenWriteKnown
  <2>2. Open' = Open \ {id}
    BY <1>3 DEF Open, cloud
  <2> QED  BY <1>3, <2>1, <2>2 DEF own
<1>9. LaterRuntimesEmpty' /\ RequestsRecorded' /\ OpenWriteStored' /\ OpenWriteKnown'
  <2>1. RequestsRecorded'
    BY <1>3, <1>5, <1>6 DEF ExportInv, RequestsRecorded, None
  <2> QED  BY <1>3, <1>8, <2>1
           DEF ExportInv, LaterRuntimesEmpty, OpenWriteStored, OpenWriteKnown
<1>10. CallSound(c)'
  BY <1>1, <1>2, <1>3, <1>4, <1>6, <1>8 DEF CallSound, At, Rt
<1>11. CallsSound'
  BY <1>2, <1>4, <1>10, OneCallSound
<1> QED  BY <1>7, <1>9, <1>11 DEF ExportInv

\* What the caller of _read does next relies on what it knew.
LEMMA ContinueSound ==
    ASSUME TypeOK, CallsSound, NEW c \in Everyone, At(c, "answer") \/ At(c, "confirm"),
           Continue(c, pending[runtime]),
           UNCHANGED <<own, loaded, pending, cloud, confirmed>>
    PROVE  /\ call' \in [Everyone -> Calls]
           /\ lock' \in [Runtimes -> Everyone \union {Free}]
           /\ task' \in {"none", "start", "loop"}
           /\ CallsSound'
<1>1. ~At(c, "idle")
  BY DEF At
<1>2. /\ Rt(c) = runtime /\ runtime \in Runtimes /\ lock[runtime] = c /\ loaded[runtime]
      /\ CallSound(c)
  BY <1>1 DEF CallsSound, CallSound, TypeOK, At
<1>3. CASE Leave(c) /\ (UNCHANGED task \/ LoopOn(c) \/ Schedule(Rt(c)))
  <2>1. task' \in {"none", "start", "loop"}
    BY <1>3, ScheduleTyped DEF LoopOn, TypeOK
  <2> QED  BY <1>1, <1>3, <2>1, LeaveSound
<1>4. CASE /\ call[c].kind = "apply"
           /\ \/ call[c].stage = "gate" /\ pending[runtime] = None
              \/ call[c].stage = "identity"
           /\ call' = [call EXCEPT ![c].pc = "form", ![c].seen = call[c].sample]
           /\ UNCHANGED <<lock, task>>
  <2>1. pending[runtime] = None
    BY <1>2, <1>4 DEF CallSound, At
  <2> DEFINE r == call[c]
             s == r.sample
             q == [r EXCEPT !.pc = "form", !.seen = s]
  <2>2. r \in Calls /\ s \in Settings \union {Unreadable}
    BY DEF TypeOK, Calls
  <2>3. q \in Calls /\ q.pc = "form" /\ q.rt = r.rt /\ q.kind = r.kind /\ q.want = r.want
    <3> HIDE DEF r, s
    <3> QED  BY <2>2 DEF Calls
  <2>4. call' = [call EXCEPT ![c] = q]
    BY <1>4 DEF TypeOK
  <2> HIDE DEF q
  <2>5. /\ call' \in [Everyone -> Calls] /\ call'[c] = q
        /\ \A d \in Everyone \ {c} : call'[d] = call[d]
    BY <2>3, <2>4, CallMoves
  <2>6. CallSound(c)'
    BY <1>2, <1>4, <2>1, <2>3, <2>5 DEF CallSound, At, Rt, own
  <2>7. CallsSound'
    BY <1>1, <2>5, <2>6, OnlyOneCall, OneCallSound
  <2> QED  BY <1>4, <2>5, <2>7 DEF TypeOK
<1> QED  BY <1>3, <1>4 DEF Continue

LEMMA NoMatchKeeps ==
    ASSUME ExportInv, NEW c \in Everyone, NoMatch(c)
    PROVE  ExportInv'
<1>1. At(c, "answer")
  BY DEF NoMatch
<1>2. /\ TypeOK /\ CallsSound /\ CallSound(c) /\ Rt(c) = runtime /\ runtime \in Runtimes
  BY <1>1, StepKnows DEF At
<1>3. /\ status' = [status EXCEPT ![runtime] =
                      IF pending[runtime] # None /\ call[c].sample # Unreadable
                         /\ pending[runtime] \in aged
                      THEN "unconfirmed" ELSE @]
      /\ issue' = Overdue(runtime, pending[runtime])
      /\ Continue(c, pending[runtime])
      /\ UNCHANGED <<own, loaded, pending, disk, wish, aged, cloud, confirmed>>
  BY <1>2 DEF NoMatch
<1>4. /\ call' \in [Everyone -> Calls]
      /\ lock' \in [Runtimes -> Everyone \union {Free}]
      /\ task' \in {"none", "start", "loop"}
      /\ CallsSound'
  BY <1>1, <1>2, <1>3, ContinueSound
<1>5. status' \in [Runtimes -> StatusValues] /\ issue' \in BOOLEAN
  BY <1>2, <1>3, OverdueBoolean DEF TypeOK, StatusValues
<1> QED  BY <1>1, <1>3, <1>4, <1>5, CallOnlyKeeps DEF At, StoreFree

LEMMA MatchSavedKeeps ==
    ASSUME ExportInv, NEW c \in Everyone, MatchSaved(c)
    PROVE  ExportInv'
<1>1. At(c, "confirm")
  BY DEF MatchSaved
<1>2. /\ TypeOK /\ CallsSound /\ CallSound(c) /\ Rt(c) = runtime /\ runtime \in Runtimes
      /\ pending[runtime] = None /\ Open = {} /\ Len(wish) \in Nat
  BY <1>1, StepKnows DEF At, CallSound
<1>3. /\ disk' = None /\ issue' = Overdue(runtime, None)
      /\ Continue(c, pending[runtime])
      /\ UNCHANGED <<own, memory, wish, aged, cloud, confirmed>>
  BY <1>2 DEF MatchSaved
<1>4. /\ call' \in [Everyone -> Calls]
      /\ lock' \in [Runtimes -> Everyone \union {Free}]
      /\ task' \in {"none", "start", "loop"}
      /\ CallsSound'
  BY <1>1, <1>2, <1>3, ContinueSound DEF memory
<1>5. status' \in [Runtimes -> StatusValues] /\ issue' \in BOOLEAN
  BY <1>2, <1>3, OverdueBoolean DEF TypeOK, StatusValues, memory
<1>6. StoreFree
  BY <1>2, <1>3 DEF StoreFree, None
<1> QED  BY <1>1, <1>3, <1>4, <1>5, <1>6, CallOnlyKeeps DEF At, memory

LEMMA GiveUpKeeps ==
    ASSUME ExportInv, NEW c \in Everyone, ~At(c, "idle"), GiveUp(c), StoreFree
    PROVE  ExportInv'
<1>1. /\ TypeOK /\ CallsSound /\ Rt(c) = runtime /\ runtime \in Runtimes
  BY StepKnows
<1>2. /\ status' = [status EXCEPT ![runtime] =
                      IF call[c].stage = "verify" THEN "unconfirmed" ELSE @]
      /\ issue' = Overdue(runtime, pending[runtime]) \/ issue' = issue
      /\ Leave(c) /\ LoopOn(c)
      /\ UNCHANGED <<own, loaded, pending, wish, aged, cloud, confirmed>>
  BY <1>1 DEF GiveUp
<1>3. /\ call' \in [Everyone -> Calls]
      /\ lock' \in [Runtimes -> Everyone \union {Free}]
      /\ CallsSound'
  BY <1>1, <1>2, LeaveSound
<1>4. /\ status' \in [Runtimes -> StatusValues] /\ issue' \in BOOLEAN
      /\ task' \in {"none", "start", "loop"}
  BY <1>1, <1>2, OverdueBoolean DEF TypeOK, StatusValues, LoopOn
<1> QED  BY <1>2, <1>3, <1>4, CallOnlyKeeps

LEMMA MatchNotSavedKeeps ==
    ASSUME ExportInv, NEW c \in Everyone, MatchNotSaved(c)
    PROVE  ExportInv'
<1>1. At(c, "confirm") /\ disk' \in {disk, None} /\ GiveUp(c)
  BY DEF MatchNotSaved
<1>2. Open = {} /\ Len(wish) \in Nat /\ ~At(c, "idle")
  BY <1>1, StepKnows DEF At, CallSound
<1>3. StoreFree
  BY <1>1, <1>2 DEF StoreFree, None
<1> QED  BY <1>1, <1>2, <1>3, GiveUpKeeps

LEMMA CannotReadKeeps ==
    ASSUME ExportInv, NEW c \in Everyone, CannotRead(c)
    PROVE  ExportInv'
<1>1. ~At(c, "idle") /\ GiveUp(c) /\ StoreFree
  BY DEF CannotRead, At, StoreFree
<1> QED  BY <1>1, GiveUpKeeps

LEMMA NothingToApplyKeeps ==
    ASSUME ExportInv, NEW c \in Everyone, NothingToApply(c)
    PROVE  ExportInv'
<1>1. /\ At(c, "form") /\ Leave(c)
      /\ UNCHANGED <<own, memory, task, disk, issue, wish, aged, cloud, confirmed>>
  BY DEF NothingToApply
<1>2. TypeOK /\ CallsSound
  BY DEF ExportInv
<1>3. /\ call' \in [Everyone -> Calls]
      /\ lock' \in [Runtimes -> Everyone \union {Free}]
      /\ CallsSound'
  BY <1>1, <1>2, LeaveSound DEF At
<1>4. /\ status' \in [Runtimes -> StatusValues] /\ issue' \in BOOLEAN
      /\ task' \in {"none", "start", "loop"}
  BY <1>1, <1>2 DEF TypeOK, StatusValues, memory
<1> QED  BY <1>1, <1>3, <1>4, CallOnlyKeeps DEF At, memory, StoreFree

LEMMA LookAgainKeeps ==
    ASSUME ExportInv, NEW c \in Everyone, LookAgain(c)
    PROVE  ExportInv'
<1>1. /\ At(c, "form")
      /\ call' = [call EXCEPT ![c].pc = "read", ![c].stage = "identity"]
      /\ UNCHANGED <<own, memory, lock, task, disk, issue, wish, aged, cloud, confirmed>>
  BY DEF LookAgain
<1>2. /\ TypeOK /\ CallSound(c) /\ Rt(c) = runtime /\ lock[runtime] = c
      /\ \A d \in Everyone \ {c} : At(d, "idle")
      /\ call[c] \in Calls /\ runtime \in Runtimes
  BY <1>1, StepKnows DEF At
<1> DEFINE r == call[c]
           q == [r EXCEPT !.pc = "read", !.stage = "identity"]
<1>3. /\ q \in Calls /\ q.pc = "read" /\ q.rt = r.rt
      /\ q.kind = r.kind /\ q.want = r.want
  <2>1. r \in Calls
    BY <1>2
  <2> HIDE DEF r
  <2> QED  BY <2>1 DEF Calls
<1>4. call' = [call EXCEPT ![c] = q]
  BY <1>1, <1>2 DEF TypeOK
<1> HIDE DEF q
<1>5. /\ call' \in [Everyone -> Calls] /\ call'[c] = q
      /\ \A d \in Everyone \ {c} : call'[d] = call[d]
  BY <1>2, <1>3, <1>4, CallMoves
<1>6. CallSound(c)'
  BY <1>1, <1>2, <1>3, <1>5 DEF CallSound, At, Rt, memory, own
<1>7. CallsSound'
  BY <1>2, <1>5, <1>6, OneCallSound
<1>8. /\ lock' \in [Runtimes -> Everyone \union {Free}]
      /\ status' \in [Runtimes -> StatusValues]
      /\ task' \in {"none", "start", "loop"} /\ issue' \in BOOLEAN
  BY <1>1, <1>2 DEF TypeOK, StatusValues, memory
<1> QED  BY <1>1, <1>5, <1>7, <1>8, CallOnlyKeeps DEF memory, At, StoreFree

\* Nothing pending: no write of the loaded runtime is of open outcome.
LEMMA NothingOpen ==
    ASSUME ExportInv, loaded[runtime], pending[runtime] = None
    PROVE  Open = {}
<1>1. Open \subseteq {None} /\ None \notin Open
  BY OpenTyped DEF ExportInv, OpenWriteKnown
<1> QED  BY <1>1

LEMMA RecordKeeps ==
    ASSUME ExportInv, NEW c \in Everyone, Record(c)
    PROVE  ExportInv'
<1> DEFINE id == Len(wish) + 1
<1>1. At(c, "form") /\ id <= MaxIntents /\ wish' = Append(wish, call[c].want)
  BY DEF Record
<1>2. /\ TypeOK /\ CallSound(c) /\ Rt(c) = runtime /\ lock[runtime] = c
      /\ \A d \in Everyone \ {c} : At(d, "idle")
      /\ call[c] \in Calls /\ runtime \in Runtimes /\ Len(wish) \in Nat
      /\ loaded[runtime] /\ pending[runtime] = None
  BY <1>1, StepKnows DEF At, CallSound
<1>3. /\ pending' = [pending EXCEPT ![runtime] = id]
      /\ status' = [status EXCEPT ![runtime] = "pending"]
      /\ call' = [call EXCEPT ![c].pc = "record", ![c].intent = id]
      /\ UNCHANGED <<own, loaded, lock, task, disk, issue, aged, cloud, confirmed>>
  BY <1>2 DEF Record
<1>4. Open = {}
  BY <1>2, NothingOpen
<1>5. id \in Requests
  BY <1>1, <1>2, ConstantsAssumption DEF Requests
<1> DEFINE r == call[c]
           q == [r EXCEPT !.pc = "record", !.intent = id]
<1>6. /\ q \in Calls /\ q.pc = "record" /\ q.rt = r.rt /\ q.intent = id
      /\ q.kind = r.kind /\ q.want = r.want
  <2>1. r \in Calls
    BY <1>2
  <2> HIDE DEF r, id
  <2> QED  BY <1>5, <2>1 DEF Calls
<1>7. call' = [call EXCEPT ![c] = q]
  BY <1>2, <1>3 DEF TypeOK
<1> HIDE DEF q
<1>8. /\ call' \in [Everyone -> Calls] /\ call'[c] = q
      /\ \A d \in Everyone \ {c} : call'[d] = call[d]
  BY <1>2, <1>6, <1>7, CallMoves
<1>9. /\ pending' \in [Runtimes -> Requests] /\ pending'[runtime] = id
      /\ \A o \in Runtimes \ {runtime} : pending'[o] = pending[o]
  BY <1>2, <1>3, <1>5 DEF TypeOK
<1>10. TypeOK' /\ Len(wish') = id
  <2>1. call[c].want \in Settings
    BY <1>1, <1>2 DEF CallSound, At
  <2>2. wish' \in Seq(Settings) /\ Len(wish') = id /\ Len(wish') <= MaxIntents
    BY <1>1, <1>2, <2>1 DEF TypeOK
  <2>3. 1..Len(wish) \subseteq 1..Len(wish')
    BY <1>2, <2>2
  <2>4. status' \in [Runtimes -> {"idle", "pending", "unconfirmed", "confirmed", "rejected"}]
    BY <1>2, <1>3 DEF TypeOK
  <2> QED  BY <1>2, <1>3, <1>8, <1>9, <2>2, <2>3, <2>4 DEF TypeOK, own, cloud
<1>11. Open' = Open /\ runtime' = runtime
  BY <1>3 DEF Open, cloud, own
<1>12. LaterRuntimesEmpty' /\ OpenWriteStored' /\ OpenWriteKnown'
  BY <1>3, <1>4, <1>11 DEF ExportInv, LaterRuntimesEmpty, OpenWriteStored, OpenWriteKnown
<1>13. RequestsRecorded'
  <2>1. disk \in Nat /\ \A o \in Runtimes : pending[o] \in Nat
    BY <1>2 DEF TypeOK, Requests
  <2> QED  BY <1>2, <1>3, <1>9, <1>10, <2>1 DEF ExportInv, RequestsRecorded
<1>14. CallSound(c)'
  BY <1>1, <1>2, <1>3, <1>4, <1>6, <1>8, <1>9, <1>11 DEF CallSound, At, Rt, None
<1>15. CallsSound'
  BY <1>2, <1>8, <1>14, OneCallSound
<1> QED  BY <1>10, <1>12, <1>13, <1>15 DEF ExportInv

\* What a step that ends or answers c's request may rely on.
LEMMA OwnRequest ==
    ASSUME ExportInv, NEW c \in Everyone, At(c, "record") \/ At(c, "write")
    PROVE  /\ TypeOK /\ CallsSound /\ CallSound(c) /\ Rt(c) = runtime /\ lock[runtime] = c
           /\ \A d \in Everyone \ {c} : At(d, "idle")
           /\ call[c] \in Calls /\ runtime \in Runtimes /\ Len(wish) \in Nat
           /\ loaded[runtime] /\ pending[runtime] = call[c].intent
           /\ Open \subseteq {call[c].intent}
           /\ call[c].intent \in 0..Len(wish) /\ 0..Len(wish) \subseteq Requests
           /\ ~At(c, "idle")
<1>1. ~At(c, "idle")
  BY DEF At
<1>2. /\ TypeOK /\ CallsSound /\ CallSound(c) /\ Rt(c) = runtime /\ lock[runtime] = c
      /\ \A d \in Everyone \ {c} : At(d, "idle")
      /\ call[c] \in Calls /\ runtime \in Runtimes /\ Len(wish) \in Nat
      /\ loaded[runtime] /\ pending[runtime] = call[c].intent
  BY <1>1, StepKnows DEF At, CallSound
<1>3. Open \subseteq {call[c].intent}
  BY <1>2 DEF ExportInv, OpenWriteKnown
<1>4. call[c].intent \in 0..Len(wish) /\ 0..Len(wish) \subseteq Requests
  <2>1. call[c].intent \in Requests /\ call[c].intent <= Len(wish) /\ Len(wish) <= MaxIntents
    BY <1>2 DEF Calls, ExportInv, RequestsRecorded, TypeOK
  <2> QED  BY <1>2, <2>1, ConstantsAssumption DEF Requests
<1> QED  BY <1>1, <1>2, <1>3, <1>4

\* A step of c after which nothing is open or pending.
LEMMA WithdrawnKeeps ==
    ASSUME ExportInv, NEW c \in Everyone, ~At(c, "idle"),
           UNCHANGED <<own, loaded, wish, aged, config, external, confirmed>>,
           pending' = [pending EXCEPT ![runtime] = None],
           disk' \in 0..Len(wish), inflight' \subseteq inflight, Open' = {},
           lock' \in [Runtimes -> Everyone \union {Free}],
           status' \in [Runtimes -> StatusValues],
           task' \in {"none", "start", "loop"}, issue' \in BOOLEAN,
           call' \in [Everyone -> Calls], CallsSound'
    PROVE  ExportInv'
<1>1. /\ TypeOK /\ runtime \in Runtimes /\ Len(wish) \in Nat
      /\ None \in Requests /\ 0..Len(wish) \subseteq Requests
  BY StepKnows, ConstantsAssumption DEF Requests, None, TypeOK
<1>2. /\ pending' \in [Runtimes -> Requests]
      /\ \A o \in Runtimes : pending'[o] = None \/ pending'[o] = pending[o]
  BY <1>1 DEF TypeOK
<1>3. TypeOK'
  BY <1>1, <1>2 DEF TypeOK, StatusValues, own
<1>4. RequestsRecorded' /\ LaterRuntimesEmpty'
  <2>1. 0 <= Len(wish) /\ disk' <= Len(wish)
    BY <1>1
  <2> QED  BY <1>2, <2>1 DEF ExportInv, RequestsRecorded, LaterRuntimesEmpty, own, None
<1>5. OpenWriteStored' /\ OpenWriteKnown'
  BY DEF OpenWriteStored, OpenWriteKnown
<1> QED  BY <1>3, <1>4, <1>5 DEF ExportInv

LEMMA SendKeeps ==
    ASSUME ExportInv, NEW c \in Everyone, Send(c)
    PROVE  ExportInv'
<1> DEFINE id == call[c].intent
<1>1. At(c, "record")
  BY DEF Send
<1>2. /\ TypeOK /\ CallsSound /\ CallSound(c) /\ Rt(c) = runtime /\ lock[runtime] = c
      /\ \A d \in Everyone \ {c} : At(d, "idle")
      /\ call[c] \in Calls /\ runtime \in Runtimes /\ Len(wish) \in Nat
      /\ loaded[runtime] /\ pending[runtime] = id
      /\ id \in 0..Len(wish) /\ 0..Len(wish) \subseteq Requests
      /\ ~At(c, "idle") /\ Open = {}
  BY <1>1, OwnRequest DEF CallSound, At
<1>3. /\ disk' = id /\ issue' = Overdue(runtime, pending[runtime])
      /\ UNCHANGED <<own, loaded, lock, task, wish, aged, config, external, confirmed>>
  BY <1>2 DEF Send, Stored
<1>4. issue' \in BOOLEAN /\ lock' \in [Runtimes -> Everyone \union {Free}]
      /\ task' \in {"none", "start", "loop"}
  BY <1>2, <1>3, OverdueBoolean DEF TypeOK
<1>5. CASE /\ inflight' = inflight \union {id} /\ Goto(c, "write")
           /\ UNCHANGED <<pending, status>>
  <2>1. /\ call' \in [Everyone -> Calls]
        /\ \A d \in Everyone \ {c} : call'[d] = call[d]
        /\ call'[c].pc = "write" /\ call'[c].rt = call[c].rt /\ call'[c].intent = id
        /\ call'[c].kind = call[c].kind /\ call'[c].want = call[c].want
    BY <1>2, <1>5, GotoMoves
  <2>2. CallSound(c)'
    BY <1>1, <1>2, <1>3, <1>5, <2>1 DEF CallSound, At, Rt, own
  <2>3. CallsSound'
    BY <1>2, <2>1, <2>2, OneCallSound
  <2>4. Open' \subseteq {id}
    BY <1>2, <1>3, <1>5 DEF Open
  <2>5. id # None
    BY <1>1, <1>2 DEF CallSound, At
  <2>6. TypeOK'
    <3>1. inflight' \subseteq 1..Len(wish) /\ disk' \in Requests
      <4>1. inflight \subseteq 1..Len(wish)
        BY <1>2 DEF TypeOK
      <4>2. id \in 1..Len(wish) /\ id \in Requests
        BY <1>2, <2>5 DEF None
      <4> QED  BY <1>3, <1>5, <4>1, <4>2
    <3> QED  BY <1>2, <1>3, <1>4, <1>5, <2>1, <3>1 DEF TypeOK, own
  <2>7. RequestsRecorded' /\ LaterRuntimesEmpty'
    BY <1>2, <1>3, <1>5 DEF ExportInv, RequestsRecorded, LaterRuntimesEmpty, own
  <2>8. OpenWriteStored' /\ OpenWriteKnown'
    BY <1>2, <1>3, <1>5, <2>4 DEF OpenWriteStored, OpenWriteKnown, own
  <2> QED  BY <2>3, <2>6, <2>7, <2>8 DEF ExportInv
<1>6. CASE /\ pending' = [pending EXCEPT ![runtime] = None]
           /\ status' = [status EXCEPT ![runtime] = "rejected"]
           /\ Goto(c, "withdraw")
           /\ UNCHANGED inflight
  <2>1. /\ call' \in [Everyone -> Calls]
        /\ \A d \in Everyone \ {c} : call'[d] = call[d]
        /\ call'[c].pc = "withdraw" /\ call'[c].rt = call[c].rt
        /\ call'[c].kind = call[c].kind /\ call'[c].want = call[c].want
    BY <1>2, <1>6, GotoMoves
  <2>2. Open' = {} /\ pending'[runtime] = None
    BY <1>2, <1>3, <1>6 DEF Open, TypeOK
  <2>3. CallSound(c)'
    BY <1>1, <1>2, <1>3, <1>6, <2>1, <2>2 DEF CallSound, At, Rt, own
  <2>4. CallsSound'
    BY <1>2, <2>1, <2>3, OneCallSound
  <2>5. status' \in [Runtimes -> StatusValues]
    BY <1>2, <1>6 DEF TypeOK, StatusValues
  <2> QED  BY <1>2, <1>3, <1>4, <1>6, <2>1, <2>2, <2>4, <2>5, WithdrawnKeeps
<1> QED  BY <1>2, <1>5, <1>6 DEF Send

LEMMA NotRecordedKeeps ==
    ASSUME ExportInv, NEW c \in Everyone, NotRecorded(c)
    PROVE  ExportInv'
<1>1. At(c, "record")
  BY DEF NotRecorded
<1>2. /\ TypeOK /\ CallsSound /\ CallSound(c) /\ Rt(c) = runtime
      /\ runtime \in Runtimes /\ call[c].intent \in 0..Len(wish)
      /\ ~At(c, "idle") /\ Open = {} /\ Len(wish) \in Nat
  BY <1>1, OwnRequest DEF CallSound, At
<1>3. /\ disk' \in {disk, call[c].intent}
      /\ pending' = [pending EXCEPT ![runtime] = None]
      /\ status' = [status EXCEPT ![runtime] = "rejected"]
      /\ issue' = Overdue(runtime, None)
      /\ Leave(c)
      /\ UNCHANGED <<own, loaded, task, wish, aged, cloud, confirmed>>
  BY <1>2 DEF NotRecorded
<1>4. /\ call' \in [Everyone -> Calls]
      /\ lock' \in [Runtimes -> Everyone \union {Free}]
      /\ CallsSound'
  BY <1>2, <1>3, LeaveSound
<1>5. /\ status' \in [Runtimes -> StatusValues] /\ issue' \in BOOLEAN
      /\ task' \in {"none", "start", "loop"}
  BY <1>2, <1>3, OverdueBoolean DEF TypeOK, StatusValues
<1>6. disk' \in 0..Len(wish)
  BY <1>2, <1>3 DEF TypeOK, Requests, ExportInv, RequestsRecorded
<1>7. Open' = {} /\ inflight' \subseteq inflight
  BY <1>2, <1>3 DEF Open, cloud
<1> QED  BY <1>2, <1>3, <1>4, <1>5, <1>6, <1>7, WithdrawnKeeps DEF cloud

LEMMA WithdrawnIsSafe ==
    ASSUME ExportInv, NEW c \in Everyone, Withdrawn(c)
    PROVE  ExportInv'
<1>1. /\ At(c, "withdraw") \/ At(c, "reject")
      /\ disk' \in {disk, None}
      /\ issue' = Overdue(Rt(c), pending[Rt(c)]) \/ issue' = issue
      /\ Schedule(Rt(c)) \/ UNCHANGED task
      /\ Leave(c)
      /\ UNCHANGED <<own, memory, wish, aged, cloud, confirmed>>
  BY DEF Withdrawn
<1>2. ~At(c, "idle")
  BY <1>1 DEF At
<1>3. /\ TypeOK /\ CallsSound /\ Rt(c) = runtime /\ runtime \in Runtimes
      /\ Open = {} /\ Len(wish) \in Nat
  BY <1>1, <1>2, StepKnows DEF CallSound, At
<1>4. /\ call' \in [Everyone -> Calls]
      /\ lock' \in [Runtimes -> Everyone \union {Free}]
      /\ CallsSound'
  BY <1>1, <1>2, <1>3, LeaveSound
<1>5. /\ status' \in [Runtimes -> StatusValues] /\ issue' \in BOOLEAN
      /\ task' \in {"none", "start", "loop"}
  BY <1>1, <1>3, OverdueBoolean, ScheduleTyped DEF TypeOK, StatusValues, memory
<1>6. StoreFree
  BY <1>1, <1>3 DEF StoreFree, None
<1> QED  BY <1>1, <1>2, <1>4, <1>5, <1>6, CallOnlyKeeps DEF memory

LEMMA AnsweredKeeps ==
    ASSUME ExportInv, NEW c \in Everyone, Answered(c)
    PROVE  ExportInv'
<1>1. At(c, "write")
  BY DEF Answered
<1>2. /\ TypeOK /\ CallsSound /\ CallSound(c) /\ Rt(c) = runtime /\ lock[runtime] = c
      /\ \A d \in Everyone \ {c} : At(d, "idle")
      /\ call[c] \in Calls /\ runtime \in Runtimes /\ ~At(c, "idle")
  BY <1>1, OwnRequest
<1>3. /\ status' \in [Runtimes -> StatusValues]
      /\ issue' = Overdue(runtime, pending[runtime])
      /\ Schedule(runtime)
      /\ UNCHANGED <<own, loaded, pending, disk, wish, aged, cloud, confirmed>>
  BY <1>2 DEF Answered, TypeOK, StatusValues
<1>4. /\ issue' \in BOOLEAN /\ task' \in {"none", "start", "loop"} /\ StoreFree
  BY <1>2, <1>3, OverdueBoolean, ScheduleTyped DEF StoreFree
<1>5. CASE Leave(c)
  <2>1. /\ call' \in [Everyone -> Calls]
        /\ lock' \in [Runtimes -> Everyone \union {Free}]
        /\ CallsSound'
    BY <1>2, <1>5, LeaveSound
  <2> QED  BY <1>2, <1>3, <1>4, <2>1, CallOnlyKeeps
<1>6. CASE /\ call' = [call EXCEPT ![c].pc = "read", ![c].stage = "verify"]
           /\ UNCHANGED lock
  <2> DEFINE r == call[c]
             q == [r EXCEPT !.pc = "read", !.stage = "verify"]
  <2>1. /\ q \in Calls /\ q.pc = "read" /\ q.rt = r.rt /\ q.stage = "verify"
        /\ q.kind = r.kind /\ q.want = r.want
    <3>1. r \in Calls
      BY <1>2
    <3> HIDE DEF r
    <3> QED  BY <3>1 DEF Calls
  <2>2. call' = [call EXCEPT ![c] = q]
    BY <1>2, <1>6 DEF TypeOK
  <2> HIDE DEF q
  <2>3. /\ call' \in [Everyone -> Calls] /\ call'[c] = q
        /\ \A d \in Everyone \ {c} : call'[d] = call[d]
    BY <1>2, <2>1, <2>2, CallMoves
  <2>4. CallSound(c)'
    BY <1>1, <1>2, <1>3, <1>6, <2>1, <2>3 DEF CallSound, At, Rt, own
  <2>5. CallsSound'
    BY <1>2, <2>3, <2>4, OneCallSound
  <2>6. lock' \in [Runtimes -> Everyone \union {Free}]
    BY <1>2, <1>6 DEF TypeOK
  <2> QED  BY <1>2, <1>3, <1>4, <2>3, <2>5, <2>6, CallOnlyKeeps
<1> QED  BY <1>2, <1>5, <1>6 DEF Answered

LEMMA RefusedKeeps ==
    ASSUME ExportInv, NEW c \in Everyone, Refused(c)
    PROVE  ExportInv'
<1>1. At(c, "write") /\ Goto(c, "reject")
  BY DEF Refused
<1>2. /\ TypeOK /\ CallsSound /\ CallSound(c) /\ Rt(c) = runtime /\ lock[runtime] = c
      /\ \A d \in Everyone \ {c} : At(d, "idle")
      /\ call[c] \in Calls /\ runtime \in Runtimes /\ ~At(c, "idle")
      /\ Open \subseteq {call[c].intent} /\ loaded[runtime] /\ Len(wish) \in Nat
  BY <1>1, OwnRequest
<1>3. /\ inflight' = inflight \ {call[c].intent}
      /\ pending' = [pending EXCEPT ![runtime] = None]
      /\ status' = [status EXCEPT ![runtime] = "rejected"]
      /\ UNCHANGED <<own, loaded, lock, task, disk, issue, wish, aged, config,
                     external, confirmed>>
  BY <1>2 DEF Refused
<1>4. /\ call' \in [Everyone -> Calls]
      /\ \A d \in Everyone \ {c} : call'[d] = call[d]
      /\ call'[c].pc = "reject" /\ call'[c].rt = call[c].rt
      /\ call'[c].kind = call[c].kind /\ call'[c].want = call[c].want
  BY <1>1, <1>2, GotoMoves
<1>5. Open' = {} /\ inflight' \subseteq inflight /\ pending'[runtime] = None
  BY <1>2, <1>3 DEF Open, TypeOK
<1>6. CallSound(c)'
  BY <1>1, <1>2, <1>3, <1>4, <1>5 DEF CallSound, At, Rt, own
<1>7. CallsSound'
  BY <1>2, <1>4, <1>6, OneCallSound
<1>8. /\ status' \in [Runtimes -> StatusValues] /\ issue' \in BOOLEAN
      /\ task' \in {"none", "start", "loop"}
      /\ lock' \in [Runtimes -> Everyone \union {Free}]
  BY <1>2, <1>3 DEF TypeOK, StatusValues
<1>9. disk' \in 0..Len(wish)
  BY <1>2, <1>3 DEF TypeOK, Requests, ExportInv, RequestsRecorded
<1> QED  BY <1>2, <1>3, <1>4, <1>5, <1>7, <1>8, <1>9, WithdrawnKeeps

LEMMA CancelKeeps ==
    ASSUME ExportInv, NEW c \in Everyone, Cancel(c)
    PROVE  ExportInv'
<1>1. UNCHANGED <<own, loaded, wish, aged, cloud, confirmed>>
  BY DEF Cancel
<1>2. CASE /\ call[c].pc \in {"load", "auth", "read", "answer", "confirm", "form"}
           /\ disk' \in {disk} \union (IF At(c, "confirm") THEN {None} ELSE {})
           /\ Leave(c)
           /\ UNCHANGED <<pending, status, issue, task>>
  <2>1. ~At(c, "idle")
    BY <1>2 DEF At
  <2>2. /\ TypeOK /\ CallsSound /\ Len(wish) \in Nat /\ (At(c, "confirm") => Open = {})
    BY <2>1, StepKnows DEF CallSound, At
  <2>3. /\ call' \in [Everyone -> Calls]
        /\ lock' \in [Runtimes -> Everyone \union {Free}]
        /\ CallsSound'
    BY <1>2, <2>1, <2>2, LeaveSound
  <2>4. StoreFree
    BY <1>2, <2>2 DEF StoreFree, None
  <2>5. /\ status' \in [Runtimes -> StatusValues] /\ issue' \in BOOLEAN
        /\ task' \in {"none", "start", "loop"}
    BY <1>2, <2>2 DEF TypeOK, StatusValues
  <2> QED  BY <1>1, <1>2, <2>1, <2>3, <2>4, <2>5, CallOnlyKeeps
<1>3. CASE /\ At(c, "record")
           /\ disk' \in {disk, call[c].intent}
           /\ pending' = [pending EXCEPT ![Rt(c)] = None]
           /\ status' = [status EXCEPT ![Rt(c)] = "rejected"]
           /\ Goto(c, "withdraw")
           /\ UNCHANGED <<lock, issue, task>>
  <2>1. /\ TypeOK /\ CallsSound /\ CallSound(c) /\ Rt(c) = runtime /\ lock[runtime] = c
        /\ \A d \in Everyone \ {c} : At(d, "idle")
        /\ call[c] \in Calls /\ runtime \in Runtimes /\ loaded[runtime]
        /\ call[c].intent \in 0..Len(wish) /\ Len(wish) \in Nat
        /\ ~At(c, "idle") /\ Open = {}
    BY <1>3, OwnRequest DEF CallSound, At
  <2>2. /\ call' \in [Everyone -> Calls]
        /\ \A d \in Everyone \ {c} : call'[d] = call[d]
        /\ call'[c].pc = "withdraw" /\ call'[c].rt = call[c].rt
        /\ call'[c].kind = call[c].kind /\ call'[c].want = call[c].want
    BY <1>3, <2>1, GotoMoves
  <2>3. Open' = {} /\ inflight' \subseteq inflight /\ pending'[runtime] = None
    BY <1>1, <1>3, <2>1 DEF Open, TypeOK, cloud
  <2>4. CallSound(c)'
    BY <1>1, <1>3, <2>1, <2>2, <2>3 DEF CallSound, At, Rt, own
  <2>5. CallsSound'
    BY <2>1, <2>2, <2>4, OneCallSound
  <2>6. /\ status' \in [Runtimes -> StatusValues] /\ issue' \in BOOLEAN
        /\ task' \in {"none", "start", "loop"}
        /\ lock' \in [Runtimes -> Everyone \union {Free}]
    BY <1>3, <2>1 DEF TypeOK, StatusValues
  <2>7. disk' \in 0..Len(wish)
    BY <1>3, <2>1 DEF TypeOK, Requests, ExportInv, RequestsRecorded
  <2> QED  BY <1>1, <1>3, <2>1, <2>2, <2>3, <2>5, <2>6, <2>7, WithdrawnKeeps DEF cloud
<1>4. CASE /\ At(c, "write")
           /\ status' = [status EXCEPT ![Rt(c)] = "unconfirmed"]
           /\ issue' = Overdue(Rt(c), pending[Rt(c)])
           /\ Schedule(Rt(c))
           /\ Leave(c)
           /\ UNCHANGED <<disk, pending>>
  <2>1. TypeOK /\ CallsSound /\ Rt(c) = runtime /\ runtime \in Runtimes /\ ~At(c, "idle")
    BY <1>4, OwnRequest
  <2>2. /\ call' \in [Everyone -> Calls]
        /\ lock' \in [Runtimes -> Everyone \union {Free}]
        /\ CallsSound'
    BY <1>4, <2>1, LeaveSound
  <2>3. /\ status' \in [Runtimes -> StatusValues] /\ issue' \in BOOLEAN
        /\ task' \in {"none", "start", "loop"} /\ StoreFree
    BY <1>4, <2>1, OverdueBoolean, ScheduleTyped DEF TypeOK, StatusValues, StoreFree
  <2> QED  BY <1>1, <1>4, <2>1, <2>2, <2>3, CallOnlyKeeps
<1> QED  BY <1>2, <1>3, <1>4 DEF Cancel

\* A step of the cloud, the clock or the user: the calls stay, and no write opens.
LEMMA OutsideKeeps ==
    ASSUME ExportInv, TypeOK', Open' \subseteq Open,
           UNCHANGED <<runtime, loaded, pending, lock, disk, wish, call>>
    PROVE  ExportInv'
<1>1. CallsSound'
  BY DEF ExportInv, CallsSound, CallSound, At, Rt
<1>2. LaterRuntimesEmpty' /\ RequestsRecorded' /\ OpenWriteStored' /\ OpenWriteKnown'
  BY DEF ExportInv, LaterRuntimesEmpty, RequestsRecorded, OpenWriteStored, OpenWriteKnown
<1> QED  BY <1>1, <1>2 DEF ExportInv

LEMMA CarryOutKeeps ==
    ASSUME ExportInv, NEW id, CarryOut(id)
    PROVE  ExportInv'
<1>1. /\ id \in inflight /\ config' = wish[id] /\ inflight' = inflight \ {id}
      /\ UNCHANGED <<own, memory, lock, task, disk, issue, call, wish, aged, external,
                     confirmed>>
  BY DEF CarryOut
<1>2. TypeOK /\ config' \in Settings
  <2>1. TypeOK /\ id \in 1..Len(wish) /\ wish \in Seq(Settings)
    BY <1>1 DEF ExportInv, TypeOK
  <2> QED  BY <1>1, <2>1
<1>3. TypeOK' /\ Open' \subseteq Open
  BY <1>1, <1>2 DEF TypeOK, Open, own, memory
<1> QED  BY <1>1, <1>3, OutsideKeeps DEF own, memory

LEMMA ChangeKeeps ==
    ASSUME ExportInv, NEW s \in Settings, Change(s)
    PROVE  ExportInv'
<1>1. /\ external < MaxExternal /\ config' = s /\ external' = external + 1
      /\ UNCHANGED <<own, memory, lock, task, disk, issue, call, wish, aged, inflight,
                     confirmed>>
  BY DEF Change
<1>2. TypeOK /\ external' \in 0..MaxExternal
  BY <1>1, ConstantsAssumption DEF ExportInv, TypeOK
<1>3. TypeOK' /\ Open' \subseteq Open
  BY <1>1, <1>2 DEF TypeOK, Open, own, memory
<1> QED  BY <1>1, <1>3, OutsideKeeps DEF own, memory

LEMMA AgeKeeps ==
    ASSUME ExportInv, NEW id, Age(id)
    PROVE  ExportInv'
<1>1. /\ id \in 1..Len(wish) /\ aged' = aged \union {id}
      /\ UNCHANGED <<own, memory, lock, task, disk, issue, call, wish, cloud, confirmed>>
  BY DEF Age
<1>2. TypeOK' /\ Open' \subseteq Open
  BY <1>1 DEF ExportInv, TypeOK, Open, own, memory, cloud
<1> QED  BY <1>1, <1>2, OutsideKeeps DEF own, memory

LEMMA ToggleKeeps ==
    ASSUME ExportInv, Toggle
    PROVE  ExportInv'
<1>1. /\ toggles < MaxToggles /\ enabled' = ~enabled /\ toggles' = toggles + 1
      /\ UNCHANGED <<runtime, stopped, memory, lock, task, disk, issue, call, wish, aged,
                     cloud, confirmed>>
  BY DEF Toggle
<1>2. toggles' \in 0..MaxToggles /\ enabled' \in BOOLEAN
  BY <1>1, ConstantsAssumption DEF ExportInv, TypeOK
<1>3. TypeOK' /\ Open' \subseteq Open
  BY <1>1, <1>2 DEF ExportInv, TypeOK, Open, memory, cloud
<1> QED  BY <1>1, <1>3, OutsideKeeps DEF memory

LEMMA StopPollingKeeps ==
    ASSUME ExportInv, StopPolling
    PROVE  ExportInv'
<1>1. /\ task' = "none"
      /\ UNCHANGED <<own, memory, lock, disk, issue, call, wish, aged, cloud, confirmed>>
  BY DEF StopPolling
<1>2. TypeOK' /\ Open' \subseteq Open
  BY <1>1 DEF ExportInv, TypeOK, Open, own, memory, cloud
<1> QED  BY <1>1, <1>2, OutsideKeeps DEF own, memory

\* A store that is interrupted may have been done or not: either is safe.
LEMMA InterruptedIsFree ==
    ASSUME ExportInv, NEW callers \in SUBSET Everyone, disk' \in Interrupted(callers)
    PROVE  StoreFree
<1>1. TypeOK /\ Len(wish) \in Nat
  BY OpenTyped DEF ExportInv
<1>2. CASE disk' = disk
  BY <1>2 DEF StoreFree
<1>3. ASSUME NEW c \in callers, call[c].pc \in {"confirm", "withdraw", "reject"}, disk' = None
      PROVE  StoreFree
  <2>1. Open = {}
    BY <1>3, StepKnows DEF CallSound, At
  <2> QED  BY <1>1, <1>3, <2>1 DEF StoreFree, None
<1>4. ASSUME NEW c \in callers, At(c, "record"), disk' = call[c].intent
      PROVE  StoreFree
  <2>1. Open = {} /\ call[c].intent \in 0..Len(wish)
    BY <1>4, OwnRequest DEF CallSound, At
  <2> QED  BY <1>4, <2>1 DEF StoreFree
<1> QED  BY <1>2, <1>3, <1>4 DEF Interrupted

\* A new runtime with no call under way knows nothing yet.
LEMMA NewRuntimeKeeps ==
    ASSUME ExportInv, NextRuntime, StoreFree,
           stopped' \in [Runtimes -> BOOLEAN],
           lock' \in [Runtimes -> Everyone \union {Free}],
           call' \in [Everyone -> Calls], \A c \in Everyone : call'[c].pc = "idle"
    PROVE  ExportInv'
<1>1. /\ runtime < MaxRuntimes /\ runtime' = runtime + 1
      /\ task' = IF enabled THEN "start" ELSE "none"
      /\ issue' = FALSE
      /\ UNCHANGED <<enabled, toggles, memory, wish, aged, cloud, confirmed>>
  BY DEF NextRuntime
<1>2. TypeOK /\ runtime \in Nat /\ Len(wish) \in Nat
  BY OpenTyped DEF ExportInv, TypeOK, Runtimes
<1>3. runtime' \in Runtimes
  BY <1>1, <1>2, ConstantsAssumption DEF Runtimes
<1>4. disk' \in Requests /\ disk' <= Len(wish)
  <2>1. disk \in Requests /\ disk <= Len(wish) /\ Len(wish) <= MaxIntents
    BY <1>2 DEF TypeOK, ExportInv, RequestsRecorded
  <2> QED  BY <1>2, <2>1, ConstantsAssumption DEF StoreFree, Requests
<1>5. task' \in {"none", "start", "loop"} /\ issue' \in BOOLEAN
  BY <1>1
<1>6. TypeOK'
  BY <1>1, <1>2, <1>3, <1>4, <1>5 DEF TypeOK, memory, cloud
<1>7. Open' = Open
  BY <1>1 DEF Open, cloud
<1>8. ~loaded'[runtime']
  BY <1>1, <1>2, <1>3 DEF ExportInv, LaterRuntimesEmpty, memory
<1>9. LaterRuntimesEmpty'
  <2>1. \A r \in Runtimes : r \in Int
    BY DEF Runtimes
  <2> QED  BY <1>1, <1>2, <2>1 DEF ExportInv, LaterRuntimesEmpty, memory
<1>10. RequestsRecorded'
  BY <1>1, <1>4 DEF ExportInv, RequestsRecorded, memory
<1>11. OpenWriteStored' /\ OpenWriteKnown'
  BY <1>7, <1>8 DEF ExportInv, OpenWriteStored, OpenWriteKnown, StoreFree
<1>12. CallsSound'
  BY DEF CallsSound, CallSound, At
<1> QED  BY <1>6, <1>9, <1>10, <1>11, <1>12 DEF ExportInv

LEMMA ReloadKeeps ==
    ASSUME ExportInv, ~ReloadMidCall, Reload
    PROVE  ExportInv'
<1>1. /\ \A c \in Callers : At(c, "idle")
      /\ NextRuntime
      /\ stopped' = [stopped EXCEPT ![runtime] = TRUE]
      /\ disk' \in Interrupted({Poller})
      /\ call' = [call EXCEPT ![Poller] = Idle]
      /\ lock' = [lock EXCEPT ![runtime] = IF @ = Poller THEN Free ELSE @]
  BY DEF Reload
<1>2. TypeOK /\ Poller \in Everyone
  BY DEF ExportInv, Everyone
<1>3. StoreFree
  BY <1>1, <1>2, InterruptedIsFree
<1>4. /\ call' \in [Everyone -> Calls] /\ call'[Poller] = Idle
      /\ \A d \in Everyone \ {Poller} : call'[d] = call[d]
  BY <1>1, <1>2, IdleCall, CallMoves
<1>5. \A c \in Everyone : call'[c].pc = "idle"
  BY <1>1, <1>4, IdleCall DEF At, Everyone
<1>6. /\ stopped' \in [Runtimes -> BOOLEAN]
      /\ lock' \in [Runtimes -> Everyone \union {Free}]
  BY <1>1, <1>2 DEF TypeOK
<1> QED  BY <1>1, <1>3, <1>4, <1>5, <1>6, NewRuntimeKeeps

LEMMA CrashKeeps ==
    ASSUME ExportInv, Crash
    PROVE  ExportInv'
<1>1. /\ NextRuntime /\ UNCHANGED stopped
      /\ disk' \in Interrupted(Everyone)
      /\ call' = [c \in Everyone |-> Idle]
      /\ lock' = [r \in Runtimes |-> Free]
  BY DEF Crash
<1>2. StoreFree
  BY <1>1, InterruptedIsFree
<1>3. /\ call' \in [Everyone -> Calls] /\ \A c \in Everyone : call'[c].pc = "idle"
      /\ lock' \in [Runtimes -> Everyone \union {Free}]
      /\ stopped' \in [Runtimes -> BOOLEAN]
  BY <1>1, IdleCall DEF ExportInv, TypeOK
<1> QED  BY <1>1, <1>2, <1>3, NewRuntimeKeeps

LEMMA StutterKeeps ==
    ASSUME ExportInv, UNCHANGED vars
    PROVE  ExportInv'
<1>1. TypeOK' /\ Open' \subseteq Open
  BY DEF ExportInv, TypeOK, Open, vars, own, memory, cloud
<1> QED  BY <1>1, OutsideKeeps DEF vars, own, memory

-----------------------------------------------------------------------------
(* The theorems *)

LEMMA NextInv ==
    ASSUME ~ReloadMidCall, ExportInv, [Next]_vars
    PROVE  ExportInv'
<1>1. ASSUME NEW c \in Everyone, Refresh(c) PROVE ExportInv'
  BY <1>1, StartKeeps DEF Refresh
<1>2. ASSUME NEW c \in Everyone, Apply(c) PROVE ExportInv'
  BY <1>2, StartKeeps DEF Apply
<1>3. ASSUME NEW c \in Everyone, Step(c) PROVE ExportInv'
  BY <1>3, LoadKeeps, AuthoriseKeeps, ServeKeeps, MatchKeeps, NoMatchKeeps, MatchSavedKeeps,
     MatchNotSavedKeeps, CannotReadKeeps, NothingToApplyKeeps, LookAgainKeeps, RecordKeeps,
     SendKeeps, NotRecordedKeeps, WithdrawnIsSafe, AnsweredKeeps, RefusedKeeps
  DEF Step
<1>4. ASSUME NEW c \in Everyone, Cancel(c) PROVE ExportInv'
  BY <1>4, CancelKeeps
<1>5. CASE Poll
  <2>1. Poller \in Everyone
    BY DEF Everyone
  <2> QED  BY <1>5, <2>1, StartKeeps DEF Poll
<1>6. CASE StopPolling
  BY <1>6, StopPollingKeeps
<1>7. ASSUME NEW id \in 1..MaxIntents, CarryOut(id) \/ Age(id) PROVE ExportInv'
  BY <1>7, CarryOutKeeps, AgeKeeps
<1>8. ASSUME NEW s \in Settings, Change(s) PROVE ExportInv'
  BY <1>8, ChangeKeeps
<1>9. CASE Toggle \/ Reload \/ Crash
  BY <1>9, ToggleKeeps, ReloadKeeps, CrashKeeps
<1>10. CASE UNCHANGED vars
  BY <1>10, StutterKeeps
<1> QED  BY <1>1, <1>2, <1>3, <1>4, <1>5, <1>6, <1>7, <1>8, <1>9, <1>10 DEF Next

\* The inductive invariant of the export limit, while no reload overlaps a call.
THEOREM ExportInvariant == ASSUME ~ReloadMidCall PROVE Spec => []ExportInv
<1>1. Init => ExportInv
  BY InitInv
<1>2. ExportInv /\ [Next]_vars => ExportInv'
  BY NextInv
<1> QED  BY <1>1, <1>2, PTL DEF Spec

\* Every variable of the export limit keeps its type.
THEOREM Typing == ASSUME ~ReloadMidCall PROVE Spec => []TypeOK
<1>1. ExportInv => TypeOK
  BY DEF ExportInv
<1> QED  BY <1>1, ExportInvariant, PTL

\* While the outcome of a write is open the Store holds its request, whatever is
\* cancelled, fails, is reloaded or dies.
THEOREM OpenWritesAreStored == ASSUME ~ReloadMidCall PROVE Spec => []OpenWriteStored
<1>1. ExportInv => OpenWriteStored
  BY DEF ExportInv
<1> QED  BY <1>1, ExportInvariant, PTL

\* The loaded runtime knows the write whose outcome is open, and blocks others.
THEOREM OpenWritesAreKnown == ASSUME ~ReloadMidCall PROVE Spec => []OpenWriteKnown
<1>1. ExportInv => OpenWriteKnown
  BY DEF ExportInv
<1> QED  BY <1>1, ExportInvariant, PTL

\* Only a match confirms, and what it compares was read after the request.
LEMMA MatchConfirms ==
    ASSUME ExportInv, NEW c \in Everyone, Match(c), NEW id \in confirmed' \ confirmed
    PROVE  At(c, "answer") /\ call[c].sample = wish[id] /\ id <= call[c].after
<1>1. At(c, "answer")
  BY DEF Match
<1>2. Rt(c) = runtime /\ CallSound(c)
  BY <1>1, StepKnows DEF At
<1>3. id = pending[runtime] /\ call[c].sample = wish[id]
  BY <1>2 DEF Match, Matches
<1> QED  BY <1>1, <1>2, <1>3 DEF CallSound, At

\* A request is confirmed by a read of what it asks for, served after it was
\* recorded.
THEOREM ConfirmedByEvidence == ASSUME ~ReloadMidCall PROVE Spec => ConfirmedByLaterRead
<1> DEFINE Evidence(id) ==
             \E c \in Everyone : /\ At(c, "answer")
                                 /\ call[c].sample = wish[id]
                                 /\ id <= call[c].after
<1>1. ASSUME ExportInv, [Next]_vars, NEW id \in confirmed' \ confirmed
      PROVE  Evidence(id)
  <2>1. ~UNCHANGED confirmed
    BY <1>1
  <2>2. \E c \in Everyone : Match(c)
    BY <1>1, <2>1
    DEF Next, vars, Refresh, Apply, Poll, Start, Step, Cancel, StopPolling, Load, Authorise,
        Serve, NoMatch, MatchSaved, MatchNotSaved, CannotRead, GiveUp, NothingToApply,
        LookAgain, Record, Send, NotRecorded, Withdrawn, Answered, Refused, CarryOut, Age,
        Change, Toggle, Reload, Crash, NextRuntime
  <2> QED  BY <1>1, <2>2, MatchConfirms
<1>2. ExportInv /\ [Next]_vars => [\A id \in confirmed' \ confirmed : Evidence(id)]_vars
  BY <1>1
<1> QED  BY <1>2, ExportInvariant, PTL DEF Spec, ConfirmedByLaterRead
=============================================================================
