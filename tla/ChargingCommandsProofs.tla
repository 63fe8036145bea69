------------------------ MODULE ChargingCommandsProofs ------------------------
(***************************************************************************)
(* Proofs about the charging commands, for any number of calls, setters,   *)
(* restarts and intents.  The inductive invariant Inv ties a token to the  *)
(* intent it stands for: whoever still has the charger's token is for the  *)
(* newest explicit command, and so is the stored restart.                  *)
(***************************************************************************)
EXTENDS ChargingCommands, TLAPS

States == {"idle", "queued", "request", "stream", "settle", "sleep", "amps"}
Kinds == {"none", "start", "stop", "resume"}
Critical == {"request", "stream", "settle"}

Records == [pc : States, kind : Kinds, token : Int, since : Nat,
            strict : BOOLEAN, forced : BOOLEAN]

Typing ==
    /\ active \in BOOLEAN
    /\ made \in Nat
    /\ token \in 0 .. made
    /\ lock \in Processes \union {Nobody}
    /\ restart \in Restarts \union {Nobody}
    /\ desired \in {"unset", "on", "off"}
    /\ proc \in [Processes -> Records]
    /\ latest \in Nat
    /\ halted \in BOOLEAN

TokensMade == \A c \in Processes : proc[c].token <= made /\ proc[c].token # NoToken
TokensNameIntents ==
    \A c \in Processes : proc[c].token = token => proc[c].since = latest
RestartIsNewest == restart # Nobody => proc[restart].since = latest
ResumesActive ==
    \A c \in Processes : proc[c].kind = "resume" =>
        active /\ c = Resumer /\ (proc[c].pc = "request" => ~halted)
HaltedIsOff == halted => desired = "off" \/ ~active

Inv == /\ Typing /\ TokensMade /\ TokensNameIntents /\ RestartIsNewest
       /\ HolderCommands /\ ResumesActive /\ HaltedIsOff

-----------------------------------------------------------------------------
LEMMA NobodyApart == Nobody \notin Processes /\ Restarts \subseteq Processes
BY ConstantsAssumption DEF Processes

LEMMA QuietRecord ==
    /\ Quiet \in Records /\ Quiet.token = -1 /\ Quiet.since = 0
    /\ Quiet.kind = "none" /\ Quiet.pc = "idle"
BY DEF Quiet, Records, States, Kinds

\* What a command leaves of its process, and of the stored restart.
Leaves(c, p, stored, q, s) ==
    \/ q = [p EXCEPT !.pc = "sleep"] /\ s = stored
    \/ q = Quiet /\ s = IF stored = c THEN Nobody ELSE stored

LEMMA LeftRecord ==
    ASSUME NEW c \in Processes, NEW p \in Records, NEW stored, NEW q, NEW s,
           Leaves(c, p, stored, q, s)
    PROVE  /\ q \in Records
           /\ \/ q = Quiet
              \/ q.token = p.token /\ q.since = p.since /\ q.kind = p.kind /\ q.pc = "sleep"
           /\ q.pc \in {"idle", "sleep"}
           /\ s \in {stored, Nobody}
           /\ s = c => q.since = p.since
<1>1. CASE q = [p EXCEPT !.pc = "sleep"] /\ s = stored
  BY <1>1 DEF Records, States
<1>2. CASE q = Quiet /\ s = IF stored = c THEN Nobody ELSE stored
  BY <1>2, QuietRecord, NobodyApart
<1> QED
  BY <1>1, <1>2 DEF Leaves

\* What a process that gets the lock, or waits for it, does.
Outcome(c, p, rest, stored) ==
    /\ proc' \in [Processes -> Records]
    /\ \A d \in Processes : d # c => proc'[d] = rest[d]
    /\ \/ proc'[c] = Quiet
       \/ /\ proc'[c].token = p.token /\ proc'[c].since = p.since
          /\ proc'[c].kind = p.kind /\ proc'[c].pc \in {"queued", "request", "sleep"}
    /\ IF proc'[c].pc = "request" THEN lock = Nobody /\ lock' = c ELSE lock' = lock
    /\ restart' \in {stored, Nobody}
    /\ restart' = c => proc'[c].since = p.since
    /\ desired' \in {desired, "on"} /\ (desired' # desired => desired # "off")
    /\ proc'[c].pc = "request" /\ p.kind = "resume" => desired # "off"

LEMMA ReturnOutcome ==
    ASSUME NEW c \in Processes, NEW p \in Records, NEW t,
           NEW rest \in [Processes -> Records], NEW stored,
           Return(c, p, t, rest, stored)
    PROVE  Outcome(c, p, rest, stored) /\ proc'[c].pc \in {"idle", "sleep"}
<1> DEFINE q == Left(c, p, stored, FALSE)
           s == Stored(c, p, stored, FALSE)
<1>0. Leaves(c, p, stored, q, s)
  BY DEF Leaves, Left, Stored
<1>2. proc' = [rest EXCEPT ![c] = q] /\ restart' = s /\ lock' = lock
  BY DEF Return
<1> HIDE DEF q, s
<1>1. /\ q \in Records
      /\ \/ q = Quiet
         \/ q.token = p.token /\ q.since = p.since /\ q.kind = p.kind /\ q.pc = "sleep"
      /\ q.pc \in {"idle", "sleep"}
      /\ s \in {stored, Nobody}
      /\ s = c => q.since = p.since
  BY <1>0, LeftRecord
<1>3. desired' \in {desired, "on"} /\ (desired' # desired => desired # "off")
  BY DEF Return, Needless
<1>4. /\ proc' \in [Processes -> Records] /\ proc'[c] = q
      /\ \A d \in Processes : d # c => proc'[d] = rest[d]
  BY <1>1, <1>2
<1> QED
  BY <1>1, <1>2, <1>3, <1>4 DEF Outcome

LEMMA SendOutcome ==
    ASSUME NEW c \in Processes, NEW p \in Records, NEW t,
           NEW rest \in [Processes -> Records], NEW stored, lock = Nobody,
           Send(c, p, t, rest, stored)
    PROVE  Outcome(c, p, rest, stored) /\ p.token = t /\ proc'[c].pc = "request"
<1> DEFINE q == [p EXCEPT !.pc = "request"]
<1>1. /\ q \in Records /\ q.token = p.token /\ q.since = p.since /\ q.kind = p.kind
      /\ q.pc = "request"
  BY DEF Records, States
<1>2. /\ proc' = [rest EXCEPT ![c] = q] /\ restart' = stored /\ lock' = c
      /\ desired' = desired /\ p.token = t /\ (p.kind = "resume" => desired # "off")
  BY DEF Send, Obsolete
<1> HIDE DEF q
<1>3. /\ proc' \in [Processes -> Records] /\ proc'[c] = q
      /\ \A d \in Processes : d # c => proc'[d] = rest[d]
  BY <1>1, <1>2
<1> QED
  BY <1>1, <1>2, <1>3 DEF Outcome

LEMMA JoinOutcome ==
    ASSUME NEW c \in Processes, NEW p \in Records, NEW t,
           NEW rest \in [Processes -> Records], NEW stored, NEW waiting,
           Join(c, p, t, rest, stored, waiting)
    PROVE  /\ Outcome(c, p, rest, stored)
           /\ proc'[c].pc = "request" => p.token = t
<1>1. CASE Free(waiting) /\ Return(c, p, t, rest, stored)
  BY <1>1, ReturnOutcome
<1>2. CASE Free(waiting) /\ Send(c, p, t, rest, stored)
  BY <1>2, SendOutcome DEF Free
<1>3. CASE ~Free(waiting)
  <2> DEFINE q == [p EXCEPT !.pc = "queued"]
  <2>1. /\ q \in Records /\ q.token = p.token /\ q.since = p.since /\ q.kind = p.kind
        /\ q.pc = "queued"
    BY DEF Records, States
  <2>2. /\ proc' = [rest EXCEPT ![c] = q] /\ restart' = stored /\ lock' = lock
        /\ desired' = desired
    BY <1>3 DEF Join
  <2> HIDE DEF q
  <2>3. /\ proc' \in [Processes -> Records] /\ proc'[c] = q
        /\ \A d \in Processes : d # c => proc'[d] = rest[d]
    BY <2>1, <2>2
  <2> QED
    BY <2>1, <2>2, <2>3 DEF Outcome
<1> QED
  BY <1>1, <1>2, <1>3 DEF Join

-----------------------------------------------------------------------------
\* The tokens are as they were, or the charger has a new one.
TokensGrow ==
    /\ made' \in Nat /\ made <= made' /\ token' \in 0 .. made' /\ latest' \in Nat
    /\ \/ token' = token /\ latest' = latest
       \/ token' > made

\* q is a record process c may have after such a step.
Sound(c, q) ==
    /\ q.token <= made' /\ q.token # NoToken
    /\ q.token = token' => q.since = latest'
    /\ q.kind = "resume" => active /\ c = Resumer

\* rest is proc but for processes without the lock that have been cancelled.
Calm(rest) == \A d \in Processes : rest[d] = proc[d] \/ (rest[d] = Quiet /\ lock # d)

LEMMA OthersSound ==
    ASSUME Inv, TokensGrow, NEW d \in Processes, NEW rest, Calm(rest)
    PROVE  Sound(d, rest[d])
<1>1. CASE rest[d] = Quiet
  BY <1>1, QuietRecord DEF Sound, TokensGrow, NoToken
<1>2. CASE rest[d] = proc[d]
  <2>1. proc[d].token \in Int /\ proc[d].token <= made /\ proc[d].token # NoToken
    BY DEF Inv, Typing, TokensMade, Records
  <2>2. made \in Nat /\ token \in 0 .. made
    BY DEF Inv, Typing
  <2>3. proc[d].token = token' => proc[d].since = latest'
    BY <2>1, <2>2 DEF TokensGrow, Inv, TokensNameIntents
  <2>4. proc[d].kind = "resume" => active /\ d = Resumer
    BY DEF Inv, ResumesActive
  <2> QED
    BY <1>2, <2>1, <2>2, <2>3, <2>4 DEF Sound, TokensGrow
<1> QED
  BY <1>1, <1>2 DEF Calm

\* The parts of Inv that say something of each process's record.
LEMMA RecordsSound ==
    ASSUME NEW c \in Processes, active' = active,
           \A d \in Processes : Sound(d, proc'[d]),
           \A d \in Processes : proc'[d].kind = "resume" /\ proc'[d].pc = "request"
                                    => ~halted'
    PROVE  TokensMade' /\ TokensNameIntents' /\ ResumesActive'
BY DEF Sound, TokensMade, TokensNameIntents, ResumesActive, NoToken

\* Every action that takes the lock for a process or has it wait preserves Inv.
LEMMA JoinPreserves ==
    ASSUME Inv, TokensGrow,
           NEW c \in Processes, NEW p \in Records, NEW rest, NEW stored,
           Outcome(c, p, rest, stored), Calm(rest), Sound(c, p), lock # c,
           active' = active, halted' \in BOOLEAN, halted' => halted,
           stored # Nobody => stored \in Restarts,
           stored = c => p.since = latest',
           stored \notin {c, Nobody} => rest[stored].since = latest'
    PROVE  Inv'
<1> USE NobodyApart
<1>1. Typing'
  <2>1. /\ active' \in BOOLEAN /\ desired' \in {"unset", "on", "off"}
        /\ lock' \in Processes \union {Nobody}
    BY DEF Inv, Typing, Outcome
  <2>2. restart' \in Restarts \union {Nobody}
    BY DEF Outcome
  <2>3. proc' \in [Processes -> Records]
    BY DEF Outcome
  <2> QED
    BY <2>1, <2>2, <2>3 DEF Typing, TokensGrow
<1>2. TokensMade' /\ TokensNameIntents' /\ ResumesActive'
  <2>1. ASSUME NEW d \in Processes, d # c
        PROVE  /\ Sound(d, proc'[d])
               /\ proc'[d].kind = "resume" /\ proc'[d].pc = "request" => ~halted'
    <3>1. proc'[d] = rest[d] /\ Sound(d, rest[d])
      BY <2>1, OthersSound DEF Outcome
    <3>2. rest[d].kind = "resume" /\ rest[d].pc = "request" => ~halted
      BY QuietRecord DEF Calm, Inv, ResumesActive
    <3> QED
      BY <3>1, <3>2
  <2>2. Sound(c, proc'[c])
    <3>1. CASE proc'[c] = Quiet
      BY <3>1, QuietRecord DEF Sound, TokensGrow, NoToken
    <3>2. CASE proc'[c] # Quiet
      BY <3>2 DEF Sound, Outcome
    <3> QED
      BY <3>1, <3>2
  <2>3. proc'[c].kind = "resume" /\ proc'[c].pc = "request" => ~halted'
    <3>1. proc'[c].kind = "resume" => p.kind = "resume"
      BY QuietRecord DEF Outcome
    <3> QED
      BY <3>1 DEF Outcome, Sound, Inv, HaltedIsOff
  <2> QED
    BY <2>1, <2>2, <2>3, RecordsSound
<1>3. RestartIsNewest'
  BY DEF Outcome, RestartIsNewest
<1>4. HolderCommands'
  <2>1. proc[c].pc \notin Critical
    BY DEF Inv, HolderCommands, Critical
  <2>2. \A d \in Processes : rest[d].pc \in Critical <=> lock = d
    BY QuietRecord DEF Calm, Inv, HolderCommands, Critical
  <2>3. \A d \in Processes : d # c => (proc'[d].pc \in Critical <=> lock = d)
    BY <2>2 DEF Outcome
  <2>4. proc'[c].pc \in Critical <=> proc'[c].pc = "request"
    BY QuietRecord DEF Outcome, Critical
  <2> QED
    BY <2>3, <2>4 DEF Outcome, HolderCommands, Critical
<1>5. HaltedIsOff'
  BY DEF Outcome, Inv, HaltedIsOff
<1> QED
  BY <1>1, <1>2, <1>3, <1>4, <1>5 DEF Inv

\* So does every other step of one process that has the lock or leaves it.
LEMMA LocalPreserves ==
    ASSUME Inv, TokensGrow, latest' = latest,
           NEW c \in Processes, NEW q \in Records,
           proc' = [proc EXCEPT ![c] = q], Sound(c, q),
           q.kind = "resume" /\ q.pc = "request" => ~halted',
           IF q.pc \in Critical THEN lock = c /\ lock' = c ELSE lock' = Released(c),
           restart' \in {restart, Nobody}, restart' = c => q.since = latest,
           active' = active, desired' \in {"unset", "on", "off"},
           halted' \in BOOLEAN, halted' => desired' = "off" \/ ~active,
           halted' => halted \/ lock = c
    PROVE  Inv'
<1> USE NobodyApart
<1>0. proc' \in [Processes -> Records] /\ proc'[c] = q
      /\ \A d \in Processes : d # c => proc'[d] = proc[d]
  BY DEF Inv, Typing
<1>1. Typing'
  <2>1. lock' \in Processes \union {Nobody} /\ restart' \in Restarts \union {Nobody}
    BY DEF Inv, Typing, Released
  <2>2. active' \in BOOLEAN
    BY DEF Inv, Typing
  <2> QED
    BY <1>0, <2>1, <2>2 DEF Typing, TokensGrow
<1>2. TokensMade' /\ TokensNameIntents' /\ ResumesActive'
  <2>1. ASSUME NEW d \in Processes, d # c
        PROVE  /\ Sound(d, proc'[d])
               /\ proc'[d].kind = "resume" /\ proc'[d].pc = "request" => ~halted'
    <3>1. Calm(proc)
      BY DEF Calm
    <3>2. Sound(d, proc[d])
      BY <3>1, OthersSound
    <3>3. proc[d].pc = "request" => lock # c
      BY <2>1 DEF Inv, HolderCommands
    <3>4. proc[d].kind = "resume" /\ proc[d].pc = "request" => ~halted'
      BY <3>3 DEF Inv, ResumesActive
    <3> QED
      BY <1>0, <2>1, <3>2, <3>4
  <2> QED
    BY <1>0, <2>1, RecordsSound
<1>3. RestartIsNewest'
  BY <1>0 DEF Inv, Typing, RestartIsNewest
<1>4. HolderCommands'
  <2>1. \A d \in Processes : d # c => (lock' = d <=> lock = d)
    BY DEF Released, Inv, Typing
  <2>2. lock' = c <=> q.pc \in Critical
    BY DEF Released
  <2> QED
    BY <1>0, <2>1, <2>2 DEF HolderCommands, Critical, Inv
<1>5. HaltedIsOff'
  BY DEF HaltedIsOff
<1> QED
  BY <1>1, <1>2, <1>3, <1>4, <1>5 DEF Inv

-----------------------------------------------------------------------------
\* The actions, one by one.
LEMMA AdoptsCurrent ==
    ASSUME Inv, Adopt(Current), latest' = latest
    PROVE  /\ TokensGrow /\ token' = Current /\ Current # NoToken /\ Current <= made'
           /\ \A t \in Nat : t <= made /\ t # NoToken /\ t = Current => t = token
BY DEF Inv, Typing, Adopt, Current, TokensGrow, NoToken

LEMMA TokensStay ==
    ASSUME Inv, token' = token, made' = made, latest' = latest
    PROVE  TokensGrow
BY DEF Inv, Typing, TokensGrow

LEMMA OwnSound ==
    ASSUME Inv, TokensGrow, NEW c \in Processes
    PROVE  Sound(c, proc[c])
<1>1. Calm(proc)
  BY DEF Calm
<1> QED
  BY <1>1, OthersSound

LEMMA QuietSound ==
    ASSUME Inv, TokensGrow, NEW c \in Processes
    PROVE  Sound(c, Quiet)
BY QuietRecord DEF Sound, TokensGrow, NoToken

LEMMA SilencedCalm ==
    ASSUME Inv, NEW cs \in SUBSET Processes, \A d \in cs : lock # d
    PROVE  Calm(Silenced(cs)) /\ Silenced(cs) \in [Processes -> Records]
<1>1. ASSUME NEW d \in Processes
      PROVE  /\ Silenced(cs)[d] = IF d \in cs THEN Quiet ELSE proc[d]
             /\ proc[d] \in Records
  BY DEF Silenced, Inv, Typing
<1> QED
  BY <1>1, QuietRecord DEF Calm, Silenced

LEMMA CancelledFree ==
    ASSUME Inv
    PROVE  Cancelled \in SUBSET Processes /\ \A d \in Cancelled : lock # d
BY NobodyApart DEF Cancelled, Inv, Typing

LEMMA CommandStep ==
    ASSUME Inv, NEW c \in Commands, NEW kind \in {"start", "stop"}, NEW strict \in BOOLEAN,
           Command(c, kind, strict)
    PROVE  Inv' /\ (Sends(c) => proc'[c].since = latest' /\ proc'[c].kind # "resume")
                /\ \A d \in Processes : d # c => ~Sends(d)
<1>0. PICK forced \in BOOLEAN : forced = (restart # Nobody \/ lock # Nobody)
  BY Zenon
<1> DEFINE p == [Quiet EXCEPT !.kind = kind, !.token = NewIntent, !.since = latest + 1,
                              !.strict = strict, !.forced = forced]
           rest == Silenced(Cancelled)
<1>1. c \in Processes /\ proc[c].pc = "idle" /\ lock # c
  BY DEF Processes, Command, Inv, HolderCommands
<1>2. /\ TokensGrow /\ token' = NewIntent /\ NewIntent \in Nat /\ NewIntent # NoToken
      /\ NewIntent <= made' /\ latest' = latest + 1 /\ latest + 1 \in Nat
  BY DEF Command, Adopt, NewIntent, Inv, Typing, TokensGrow, NoToken
<1>3. p \in Records /\ p.token = NewIntent /\ p.since = latest' /\ p.kind = kind
  <2>1. NewIntent \in Int /\ latest + 1 \in Nat
    BY <1>2
  <2>3. p \in Records
    BY <2>1 DEF Quiet, Records, States, Kinds
  <2>4. p.token = NewIntent /\ p.since = latest + 1 /\ p.kind = kind
    BY DEF Quiet
  <2> QED
    BY <1>2, <2>3, <2>4
<1>4. Join(c, p, NewIntent, rest, Nobody, Without(Cancelled))
  BY <1>0, Zenon DEF Command
<1>5. /\ active' = active /\ active /\ halted' = (halted /\ kind # "start")
  BY DEF Command
<1>6. Calm(rest) /\ rest \in [Processes -> Records]
  BY SilencedCalm, CancelledFree
<1> HIDE DEF p, rest
<1>7. Outcome(c, p, rest, Nobody)
  BY <1>1, <1>3, <1>4, <1>6, JoinOutcome
<1>8. Sound(c, p)
  BY <1>2, <1>3 DEF Sound
<1>9. Inv'
  <2>1. halted' \in BOOLEAN /\ (halted' => halted)
    BY <1>5
  <2>2. Nobody # c
    BY <1>1, NobodyApart
  <2> QED
    BY <1>1, <1>2, <1>3, <1>5, <1>6, <1>7, <1>8, <2>1, <2>2, JoinPreserves
<1>10. Sends(c) => proc'[c].since = latest' /\ proc'[c].kind # "resume"
  BY <1>3, <1>7, QuietRecord DEF Outcome, Sends
<1>11. ASSUME NEW d \in Processes, d # c PROVE ~Sends(d)
  BY <1>6, <1>7, <1>11, QuietRecord DEF Outcome, Sends, Calm
<1> QED
  BY <1>9, <1>10, <1>11

LEMMA EnterStep ==
    ASSUME Inv, NEW c \in Processes, Enter(c)
    PROVE  Inv' /\ (Sends(c) => proc'[c].since = latest'
                                /\ (proc'[c].kind = "resume" => ~halted))
                /\ \A d \in Processes : d # c => ~Sends(d)
<1> DEFINE p == proc[c]
<1>1. p \in Records /\ proc \in [Processes -> Records] /\ lock = Nobody /\ lock # c
  BY NobodyApart DEF Enter, Inv, Typing
<1>2. /\ TokensGrow /\ latest' = latest /\ token' = token /\ active' = active
      /\ halted' = halted /\ halted \in BOOLEAN
  BY TokensStay DEF Enter, Inv, Typing
<1>3. Return(c, p, token, proc, restart) \/ Send(c, p, token, proc, restart)
  BY DEF Enter
<1>4. Outcome(c, p, proc, restart) /\ (proc'[c].pc = "request" => p.token = token)
  <2>1. CASE Return(c, p, token, proc, restart)
    BY <1>1, <2>1, ReturnOutcome
  <2>2. CASE Send(c, p, token, proc, restart)
    BY <1>1, <2>2, SendOutcome
  <2> QED
    BY <1>3, <2>1, <2>2
<1>5. Sound(c, p) /\ Calm(proc)
  BY <1>2, OwnSound DEF Calm
<1>6. /\ restart # Nobody => restart \in Restarts
      /\ restart # Nobody => proc[restart].since = latest'
  BY <1>2 DEF Inv, Typing, RestartIsNewest
<1>7. restart = c => p.since = latest'
  BY <1>6, NobodyApart
<1> HIDE DEF p
<1>8. Inv'
  BY <1>1, <1>2, <1>4, <1>5, <1>6, <1>7, JoinPreserves
<1>9. ASSUME Sends(c)
      PROVE  proc'[c].since = latest' /\ (proc'[c].kind = "resume" => ~halted)
  <2>1. proc'[c].pc = "request" /\ proc'[c].since = p.since /\ proc'[c].kind = p.kind
    BY <1>4, <1>9, QuietRecord DEF Sends, Outcome
  <2>2. p.since = latest'
    BY <1>2, <1>4, <1>5, <2>1 DEF Sound
  <2>3. p.kind = "resume" => active /\ desired # "off"
    BY <1>4, <1>5, <2>1 DEF Sound, Outcome
  <2> QED
    BY <2>1, <2>2, <2>3 DEF Inv, HaltedIsOff
<1>10. ASSUME NEW d \in Processes, d # c PROVE ~Sends(d)
  BY <1>4, <1>10 DEF Outcome, Sends
<1> QED
  BY <1>8, <1>9, <1>10

\* c's command is over, failed or not.
Ends(c) ==
    /\ lock' = Released(c)
    /\ \E q, s : /\ Leaves(c, proc[c], restart, q, s)
                 /\ proc' = [proc EXCEPT ![c] = q]
                 /\ restart' = s

LEMMA OverEnds ==
    ASSUME NEW c, NEW failed, Over(c, failed)
    PROVE  Ends(c)
<1> DEFINE q == Left(c, proc[c], restart, failed)
           s == Stored(c, proc[c], restart, failed)
<1>1. proc' = [proc EXCEPT ![c] = q] /\ restart' = s /\ lock' = Released(c)
  BY DEF Over
<1>2. Leaves(c, proc[c], restart, q, s)
  BY DEF Leaves, Left, Stored
<1> HIDE DEF q, s
<1> QED
  BY <1>1, <1>2 DEF Ends

LEMMA EndsPreserves ==
    ASSUME Inv, NEW c \in Processes, Ends(c),
           token' = token, made' = made, latest' = latest, active' = active,
           halted' = halted, desired' \in {"unset", "on", "off"},
           halted => desired' = "off" \/ ~active
    PROVE  Inv' /\ \A d \in Processes : ~Sends(d)
<1>1. PICK q, s : /\ Leaves(c, proc[c], restart, q, s)
                  /\ proc' = [proc EXCEPT ![c] = q]
                  /\ restart' = s
  BY DEF Ends
<1>2. proc[c] \in Records /\ proc \in [Processes -> Records] /\ halted \in BOOLEAN
  BY DEF Inv, Typing
<1>3. /\ q \in Records
      /\ \/ q = Quiet
         \/ q.token = proc[c].token /\ q.since = proc[c].since /\ q.kind = proc[c].kind
      /\ q.pc \in {"idle", "sleep"}
      /\ s \in {restart, Nobody}
      /\ s = c => q.since = proc[c].since
  BY <1>1, <1>2, LeftRecord
<1>4. TokensGrow
  BY TokensStay
<1>5. Sound(c, q)
  BY <1>3, <1>4, QuietSound, OwnSound DEF Sound
<1>6. q.pc \notin Critical /\ q.pc # "request" /\ lock' = Released(c)
  BY <1>3 DEF Critical, Ends
<1>7. restart' = c => q.since = latest
  BY <1>1, <1>3, NobodyApart DEF Inv, RestartIsNewest
<1>8. Inv'
  BY <1>1, <1>2, <1>3, <1>4, <1>5, <1>6, <1>7, LocalPreserves
<1>9. \A d \in Processes : ~Sends(d)
  BY <1>1, <1>2, <1>6 DEF Sends
<1> QED
  BY <1>8, <1>9

\* A step of the holder of the lock that keeps it.
LEMMA HolderPreserves ==
    ASSUME Inv, NEW c \in Processes, NEW q \in Records, proc[c].pc \in Critical,
           proc' = [proc EXCEPT ![c] = q], q.pc \in Critical,
           q.token = proc[c].token, q.since = proc[c].since, q.kind = proc[c].kind,
           q.pc = "request" => proc[c].pc = "request" /\ halted' = halted,
           token' = token, made' = made, latest' = latest, active' = active,
           lock' = lock, restart' = restart,
           desired' \in {"unset", "on", "off"}, halted' \in BOOLEAN,
           halted' => desired' = "off" \/ ~active
    PROVE  Inv'
<1>1. lock = c
  BY DEF Inv, HolderCommands, Critical
<1>2. TokensGrow /\ Sound(c, q)
  BY TokensStay, OwnSound DEF Sound
<1>3. restart' = c => q.since = latest
  BY NobodyApart DEF Inv, RestartIsNewest
<1>4. q.kind = "resume" /\ q.pc = "request" => ~halted'
  BY DEF Inv, ResumesActive
<1> QED
  BY <1>1, <1>2, <1>3, <1>4, LocalPreserves

LEMMA RecordPc ==
    ASSUME NEW p \in Records, NEW pc \in States, NEW q, q = [p EXCEPT !.pc = pc]
    PROVE  /\ q \in Records /\ q.pc = pc
           /\ q.token = p.token /\ q.since = p.since /\ q.kind = p.kind
BY DEF Records

LEMMA ServeStep ==
    ASSUME Inv, NEW c \in Processes, Serve(c)
    PROVE  Inv' /\ \A d \in Processes : ~Sends(d)
<1>1. /\ token' = token /\ made' = made /\ latest' = latest /\ active' = active
      /\ halted' = halted /\ desired' = desired /\ desired' \in {"unset", "on", "off"}
      /\ halted => desired' = "off" \/ ~active
  BY DEF Serve, Inv, Typing, HaltedIsOff
<1>2. CASE proc[c].token # token
  <2>1. Ends(c)
    BY <1>2, OverEnds DEF Serve
  <2> QED
    BY <1>1, <2>1, EndsPreserves
<1>3. CASE proc[c].token = token
  <2> DEFINE pc == IF proc[c].kind = "resume" THEN "settle" ELSE "stream"
             q == [proc[c] EXCEPT !.pc = pc]
  <2>1. proc' = [proc EXCEPT ![c] = q] /\ lock' = lock /\ restart' = restart
    BY <1>3 DEF Serve
  <2>2. pc \in {"settle", "stream"} /\ pc \in States
    BY DEF States
  <2>3. proc[c] \in Records /\ proc \in [Processes -> Records] /\ halted \in BOOLEAN
    BY DEF Inv, Typing
  <2>4. /\ q \in Records /\ q.pc = pc
        /\ q.token = proc[c].token /\ q.since = proc[c].since /\ q.kind = proc[c].kind
    BY <2>2, <2>3, RecordPc
  <2>5. proc[c].pc \in Critical /\ pc \in Critical /\ pc # "request"
    BY <2>2 DEF Serve, Critical
  <2> HIDE DEF q, pc
  <2>6. Inv'
    BY <1>1, <2>1, <2>3, <2>4, <2>5, HolderPreserves
  <2>7. \A d \in Processes : ~Sends(d)
    BY <2>1, <2>3, <2>4, <2>5 DEF Sends
  <2> QED
    BY <2>6, <2>7
<1> QED
  BY <1>2, <1>3

LEMMA NotReadyStep ==
    ASSUME Inv, NEW c \in Processes, NotReady(c)
    PROVE  Inv' /\ \A d \in Processes : ~Sends(d)
<1>1. Ends(c)
  BY OverEnds DEF NotReady
<1>2. /\ token' = token /\ made' = made /\ latest' = latest /\ active' = active
      /\ halted' = halted /\ desired' \in {desired, "off"}
  BY DEF NotReady
<1>3. desired' \in {"unset", "on", "off"} /\ (halted => desired' = "off" \/ ~active)
  BY <1>2 DEF Inv, Typing, HaltedIsOff
<1> QED
  BY <1>1, <1>2, <1>3, EndsPreserves

LEMMA FailStep ==
    ASSUME Inv, NEW c \in Processes, Fail(c)
    PROVE  Inv' /\ (Sends(c) => proc'[c].since = latest'
                                /\ (proc'[c].kind = "resume" => ~halted))
                /\ \A d \in Processes : d # c => ~Sends(d)
<1>1. /\ token' = token /\ made' = made /\ latest' = latest /\ active' = active
      /\ halted' = halted /\ desired' = desired /\ desired' \in {"unset", "on", "off"}
      /\ halted => desired' = "off" \/ ~active
  BY DEF Fail, Inv, Typing, HaltedIsOff
<1>2. CASE Over(c, TRUE)
  <2>1. Ends(c)
    BY <1>2, OverEnds
  <2> QED
    BY <1>1, <2>1, EndsPreserves
<1>3. CASE MayRetry(c) /\ proc' = [proc EXCEPT ![c].strict = TRUE]
           /\ lock' = lock /\ restart' = restart
  <2> DEFINE q == [proc[c] EXCEPT !.strict = TRUE]
  <2>1. proc' = [proc EXCEPT ![c] = q]
    BY <1>3
  <2>2. proc[c] \in Records /\ proc \in [Processes -> Records] /\ halted \in BOOLEAN
    BY DEF Inv, Typing
  <2>3. /\ q \in Records /\ q.pc = proc[c].pc
        /\ q.token = proc[c].token /\ q.since = proc[c].since /\ q.kind = proc[c].kind
    BY <2>2 DEF Records
  <2>4. proc[c].pc = "request" /\ proc[c].pc \in Critical
    BY DEF Fail, Critical
  <2> HIDE DEF q
  <2>5. Inv'
    BY <1>1, <1>3, <2>1, <2>2, <2>3, <2>4, HolderPreserves
  <2>6. proc'[c].since = latest' /\ (proc'[c].kind = "resume" => ~halted)
    BY <1>1, <1>3, <2>1, <2>2, <2>3, <2>4
       DEF MayRetry, Inv, TokensNameIntents, ResumesActive
  <2>7. \A d \in Processes : d # c => ~Sends(d)
    BY <2>1, <2>2 DEF Sends
  <2> QED
    BY <2>5, <2>6, <2>7
<1> QED
  BY <1>2, <1>3 DEF Fail

LEMMA StreamingStep ==
    ASSUME Inv, NEW c \in Processes, Streaming(c)
    PROVE  Inv' /\ \A d \in Processes : ~Sends(d)
<1>1. /\ token' = token /\ made' = made /\ latest' = latest /\ active' = active
      /\ proc[c] \in Records /\ proc \in [Processes -> Records] /\ halted \in BOOLEAN
      /\ desired \in {"unset", "on", "off"} /\ proc[c].pc = "stream"
  BY DEF Streaming, Inv, Typing
<1>2. CASE StillCurrent(c)
  <2> DEFINE q == [proc[c] EXCEPT !.pc = "settle"]
  <2>1. /\ proc' = [proc EXCEPT ![c] = q] /\ lock' = lock /\ restart' = restart
        /\ desired' = IF proc[c].kind = "stop" THEN "off" ELSE "on"
        /\ halted' = (proc[c].kind = "stop" /\ (c \in Commands \/ halted))
    BY <1>2 DEF Streaming
  <2>2. /\ q \in Records /\ q.pc = "settle"
        /\ q.token = proc[c].token /\ q.since = proc[c].since /\ q.kind = proc[c].kind
    BY <1>1 DEF Records, States
  <2>3. proc[c].pc \in Critical /\ q.pc \in Critical /\ q.pc # "request"
    BY <1>1, <2>2 DEF Critical
  <2> HIDE DEF q
  <2>4. desired' \in {"unset", "on", "off"} /\ (halted' => desired' = "off")
    BY <2>1
  <2>5. halted' \in BOOLEAN
    BY <2>1, Zenon
  <2>6. Inv'
    BY <1>1, <2>1, <2>2, <2>3, <2>4, <2>5, HolderPreserves
  <2>7. \A d \in Processes : ~Sends(d)
    BY <1>1, <2>1, <2>3 DEF Sends
  <2> QED
    BY <2>6, <2>7
<1>3. CASE ~StillCurrent(c)
  <2>1. Ends(c)
    BY <1>3, OverEnds DEF Streaming
  <2>2. halted' = halted /\ desired' = desired /\ (halted => desired' = "off" \/ ~active)
    BY <1>3 DEF Streaming, Inv, HaltedIsOff
  <2> QED
    BY <1>1, <2>1, <2>2, EndsPreserves
<1> QED
  BY <1>2, <1>3

LEMMA SettleStep ==
    ASSUME Inv, NEW c \in Processes, Settle(c)
    PROVE  Inv' /\ \A d \in Processes : ~Sends(d)
<1>1. Ends(c)
  BY OverEnds DEF Settle
<1>2. /\ token' = token /\ made' = made /\ latest' = latest /\ active' = active
      /\ halted' = halted /\ desired' = desired /\ desired' \in {"unset", "on", "off"}
      /\ halted => desired' = "off" \/ ~active
  BY DEF Settle, Inv, Typing, HaltedIsOff
<1> QED
  BY <1>1, <1>2, EndsPreserves

LEMMA AbandonStep ==
    ASSUME Inv, NEW c \in Processes, Abandon(c)
    PROVE  Inv' /\ \A d \in Processes : ~Sends(d)
<1>1. /\ token' = token /\ made' = made /\ latest' = latest /\ active' = active
      /\ halted' = halted /\ desired' = desired /\ desired' \in {"unset", "on", "off"}
      /\ halted => desired' = "off" \/ ~active
      /\ halted \in BOOLEAN /\ restart' = restart /\ lock' = Released(c)
      /\ proc' = [proc EXCEPT ![c] = Quiet]
  BY DEF Abandon, Inv, Typing, HaltedIsOff
<1>2. TokensGrow /\ Sound(c, Quiet)
  BY <1>1, TokensStay, QuietSound
<1>3. restart # c
  BY NobodyApart, ConstantsAssumption DEF Abandon, Inv, Typing
<1>4. Inv'
  <2>1. Quiet.pc \notin Critical /\ Quiet.pc # "request" /\ restart' # c
    BY <1>1, <1>3, QuietRecord DEF Critical
  <2> QED
    BY <1>1, <1>2, <2>1, QuietRecord, LocalPreserves
<1>5. \A d \in Processes : ~Sends(d)
  BY <1>1, QuietRecord DEF Sends, Inv, Typing
<1> QED
  BY <1>4, <1>5

LEMMA CaptureStep ==
    ASSUME Inv, NEW n \in Setters, Capture(n)
    PROVE  Inv' /\ \A d \in Processes : ~Sends(d)
<1> DEFINE q == [Quiet EXCEPT !.pc = "amps", !.token = Current, !.since = latest]
<1>1. /\ latest' = latest /\ active' = active /\ halted' = halted /\ halted \in BOOLEAN
      /\ desired' = desired /\ desired' \in {"unset", "on", "off"}
      /\ halted => desired' = "off" \/ ~active
      /\ restart' = restart /\ lock' = lock
      /\ proc' = [proc EXCEPT ![n] = q] /\ proc[n].pc = "idle" /\ n \in Processes
      /\ Adopt(Current)
  BY DEF Capture, Inv, Typing, HaltedIsOff, Processes
<1>2. /\ TokensGrow /\ token' = Current /\ Current # NoToken /\ Current <= made'
      /\ Current \in Int /\ latest \in Nat
  BY <1>1, AdoptsCurrent DEF Inv, Typing, TokensGrow
<1>3. /\ q \in Records /\ q.token = Current /\ q.since = latest /\ q.pc = "amps"
      /\ q.kind = "none"
  BY <1>2 DEF Quiet, Records, States, Kinds
<1> HIDE DEF q
<1>4. Sound(n, q)
  BY <1>1, <1>2, <1>3 DEF Sound
<1>5. lock # n
  BY <1>1 DEF Inv, HolderCommands
<1>6. lock' = Released(n) /\ q.pc \notin Critical /\ q.pc # "request"
  BY <1>1, <1>3, <1>5 DEF Released, Critical
<1>7. Inv'
  BY <1>1, <1>2, <1>3, <1>4, <1>6, LocalPreserves
<1>8. \A d \in Processes : ~Sends(d)
  BY <1>1, <1>6 DEF Sends, Inv, Typing
<1> QED
  BY <1>7, <1>8

LEMMA ApplyStep ==
    ASSUME Inv, NEW n \in Setters, Apply(n)
    PROVE  Inv' /\ \A d \in Processes : Sends(d) =>
                       proc'[d].since = latest' /\ proc'[d].kind # "resume"
<1>1. /\ latest' = latest /\ active' = active /\ halted' = halted /\ halted \in BOOLEAN
      /\ Adopt(Current) /\ n \in Processes /\ proc[n].pc = "amps"
      /\ proc[n] \in Records /\ proc \in [Processes -> Records]
  BY DEF Apply, Inv, Typing, Processes
<1>2. /\ TokensGrow /\ token' = Current /\ Current # NoToken /\ Current <= made'
      /\ Current \in Int
      /\ \A t \in Nat : t <= made /\ t # NoToken /\ t = Current => t = token
  BY <1>1, AdoptsCurrent DEF TokensGrow
<1>3. lock # n
  BY <1>1 DEF Inv, HolderCommands
<1>4. CASE Wanted(n)
  <2>1. proc[n].since = latest
    <3>1. proc[n].token = Current
      BY <1>4 DEF Wanted
    <3>2. Current \in Nat
      BY <1>2 DEF TokensGrow
    <3>3. proc[n].token <= made
      BY <1>1 DEF Inv, TokensMade
    <3>4. Current = token
      BY <1>2, <3>1, <3>2, <3>3
    <3> QED
      BY <1>1, <3>1, <3>4 DEF Inv, TokensNameIntents
  <2> DEFINE p == [Quiet EXCEPT !.kind = "stop", !.token = Current, !.since = proc[n].since]
             rest == Silenced(Cancelled \union {n})
  <2>2. PICK c \in Restarts : /\ proc[c].pc = "idle"
                              /\ Join(c, p, Current, rest, c, Without(Cancelled))
    BY <1>4 DEF Apply
  <2>3. p \in Records /\ p.token = Current /\ p.since = latest /\ p.kind = "stop"
    BY <1>1, <1>2, <2>1 DEF Quiet, Records, States, Kinds
  <2>4. Calm(rest) /\ rest \in [Processes -> Records]
    <3>1. /\ Cancelled \union {n} \in SUBSET Processes
          /\ \A d \in Cancelled \union {n} : lock # d
      BY <1>1, <1>3, CancelledFree
    <3> QED
      BY <3>1, SilencedCalm
  <2>5. c \in Processes /\ lock # c /\ c # Nobody
    BY <2>2, NobodyApart DEF Inv, HolderCommands
  <2>6. Sound(c, p)
    BY <1>1, <1>2, <2>3 DEF Sound
  <2> HIDE DEF p, rest
  <2>7. Outcome(c, p, rest, c)
    BY <2>2, <2>3, <2>4, <2>5, JoinOutcome
  <2>8. Inv'
    BY <1>1, <1>2, <2>2, <2>3, <2>4, <2>5, <2>6, <2>7, JoinPreserves
  <2>9. ASSUME NEW d \in Processes, Sends(d)
        PROVE  proc'[d].since = latest' /\ proc'[d].kind # "resume"
    <3>1. d = c
      BY <2>4, <2>7, <2>9, QuietRecord DEF Outcome, Sends, Calm
    <3> QED
      BY <1>1, <2>3, <2>7, <2>9, <3>1, QuietRecord DEF Outcome, Sends
  <2> QED
    BY <2>8, <2>9
<1>5. CASE ~Wanted(n)
  <2>1. /\ proc' = [proc EXCEPT ![n] = Quiet] /\ lock' = lock /\ restart' = restart
        /\ desired' = desired
    BY <1>5 DEF Apply
  <2>2. Sound(n, Quiet)
    BY <1>1, <1>2, QuietSound
  <2>3. lock' = Released(n) /\ Quiet.pc \notin Critical /\ Quiet.pc # "request"
    BY <1>3, <2>1, QuietRecord DEF Released, Critical
  <2>4. restart' # n
    BY <2>1, NobodyApart, ConstantsAssumption DEF Inv, Typing
  <2>5. desired' \in {"unset", "on", "off"} /\ (halted' => desired' = "off" \/ ~active)
    BY <1>1, <2>1 DEF Inv, Typing, HaltedIsOff
  <2>6. Inv'
    BY <1>1, <1>2, <2>1, <2>2, <2>3, <2>4, <2>5, QuietRecord, LocalPreserves
  <2>7. \A d \in Processes : ~Sends(d)
    BY <1>1, <2>1, QuietRecord DEF Sends
  <2> QED
    BY <2>6, <2>7
<1> QED
  BY <1>4, <1>5

\* A process joins for the intent it is of, the charger's token being its own now.
LEMMA JoinsCurrent ==
    ASSUME Inv, NEW c \in Processes, NEW p \in Records, NEW waiting,
           Adopt(Current), Join(c, p, Current, proc, restart, waiting),
           p.token = Current, p.since = latest, p.kind = "resume" => active /\ c = Resumer,
           lock # c, latest' = latest, active' = active, halted' = halted
    PROVE  Inv' /\ (Sends(c) => proc'[c].since = latest'
                                /\ (proc'[c].kind = "resume" => ~halted))
                /\ \A d \in Processes : d # c => ~Sends(d)
<1>1. proc \in [Processes -> Records] /\ Calm(proc) /\ halted \in BOOLEAN
  BY DEF Calm, Inv, Typing
<1>2. TokensGrow /\ Sound(c, p)
  BY AdoptsCurrent DEF Sound
<1>3. Outcome(c, p, proc, restart)
  BY <1>1, JoinOutcome
<1>4. /\ restart # Nobody => restart \in Restarts
      /\ restart # Nobody => proc[restart].since = latest'
  BY DEF Inv, Typing, RestartIsNewest
<1>5. Inv'
  BY <1>1, <1>2, <1>3, <1>4, JoinPreserves
<1>6. ASSUME Sends(c)
      PROVE  proc'[c].since = latest' /\ (proc'[c].kind = "resume" => ~halted)
  <2>1. proc'[c].pc = "request" /\ proc'[c].since = p.since /\ proc'[c].kind = p.kind
    BY <1>3, <1>6, QuietRecord DEF Sends, Outcome
  <2>2. p.kind = "resume" => active /\ desired # "off"
    BY <1>3, <2>1 DEF Outcome
  <2> QED
    BY <2>1, <2>2 DEF Inv, HaltedIsOff
<1>7. ASSUME NEW d \in Processes, d # c PROVE ~Sends(d)
  BY <1>3, <1>7 DEF Outcome, Sends
<1> QED
  BY <1>5, <1>6, <1>7

LEMMA WakeStep ==
    ASSUME Inv, NEW c \in Restarts, Wake(c)
    PROVE  Inv' /\ (Sends(c) => proc'[c].since = latest'
                                /\ (proc'[c].kind = "resume" => ~halted))
                /\ \A d \in Processes : d # c => ~Sends(d)
<1>1. /\ latest' = latest /\ active' = active /\ halted' = halted /\ halted \in BOOLEAN
      /\ c \in Processes /\ proc[c].pc = "sleep" /\ c # Nobody
      /\ proc[c] \in Records /\ proc \in [Processes -> Records]
  BY NobodyApart DEF Wake, Inv, Typing
<1>2. lock # c
  BY <1>1 DEF Inv, HolderCommands
<1> DEFINE p == [proc[c] EXCEPT !.kind = "start", !.token = Current]
<1>3. CASE /\ restart = c /\ Adopt(Current)
           /\ Join(c, p, Current, proc, restart, queue)
  <2>1. Current \in Int
    BY <1>1, <1>3, AdoptsCurrent DEF TokensGrow
  <2>2. proc[c].since = latest
    BY <1>1, <1>3 DEF Inv, RestartIsNewest
  <2>3. p \in Records /\ p.token = Current /\ p.since = latest /\ p.kind = "start"
    BY <1>1, <2>1, <2>2 DEF Records, Kinds
  <2> HIDE DEF p
  <2> QED
    BY <1>1, <1>2, <1>3, <2>3, JoinsCurrent
<1>4. CASE /\ proc' = [proc EXCEPT ![c] = Quiet]
           /\ restart' = IF restart = c THEN Nobody ELSE restart
           /\ UNCHANGED <<token, made, lock, queue, desired>>
  <2>1. TokensGrow /\ Sound(c, Quiet)
    BY <1>1, <1>4, TokensStay, QuietSound
  <2>2. lock' = Released(c) /\ Quiet.pc \notin Critical /\ Quiet.pc # "request"
    BY <1>2, <1>4, QuietRecord DEF Released, Critical
  <2>3. desired' \in {"unset", "on", "off"} /\ (halted' => desired' = "off" \/ ~active)
    BY <1>1, <1>4 DEF Inv, Typing, HaltedIsOff
  <2>4. Inv'
    BY <1>1, <1>4, <2>1, <2>2, <2>3, QuietRecord, LocalPreserves
  <2>5. \A d \in Processes : ~Sends(d)
    BY <1>1, <1>4, QuietRecord DEF Sends
  <2> QED
    BY <1>1, <2>4, <2>5
<1> QED
  BY <1>3, <1>4 DEF Wake

LEMMA PollStep ==
    ASSUME Inv, Poll
    PROVE  Inv' /\ \A d \in Processes : Sends(d) =>
                       proc'[d].since = latest' /\ (proc'[d].kind = "resume" => ~halted)
<1>1. /\ active /\ latest' = latest /\ active' = active /\ halted' = halted
      /\ halted \in BOOLEAN /\ proc \in [Processes -> Records]
  BY DEF Poll, Inv, Typing
<1>2. CASE UNCHANGED <<token, made, lock, queue, restart, proc>>
           /\ desired' \in {desired, "on", "off"} /\ (desired' # desired => desired = "unset")
  <2>1. Inv'
    <3>1. Typing' /\ TokensMade' /\ TokensNameIntents'
      BY <1>1, <1>2 DEF Inv, Typing, TokensMade, TokensNameIntents
    <3>2. RestartIsNewest' /\ HolderCommands' /\ ResumesActive'
      BY <1>1, <1>2 DEF Inv, RestartIsNewest, HolderCommands, ResumesActive
    <3>3. HaltedIsOff'
      BY <1>1, <1>2 DEF Inv, HaltedIsOff
    <3> QED
      BY <3>1, <3>2, <3>3 DEF Inv
  <2>2. \A d \in Processes : ~Sends(d)
    BY <1>2 DEF Sends
  <2> QED
    BY <2>1, <2>2
<1>3. CASE Resume
  <2> DEFINE p == [Quiet EXCEPT !.kind = "resume", !.token = Current, !.since = latest]
  <2>1. /\ Adopt(Current) /\ Join(Resumer, p, Current, proc, restart, queue)
        /\ proc[Resumer].pc = "idle" /\ Resumer \in Processes
    BY <1>3 DEF Resume, Processes
  <2>2. Current \in Int /\ latest \in Nat
    BY <1>1, <2>1, AdoptsCurrent DEF TokensGrow, Inv, Typing
  <2>3. p \in Records /\ p.token = Current /\ p.since = latest
    BY <2>2 DEF Quiet, Records, States, Kinds
  <2>4. lock # Resumer
    BY <2>1 DEF Inv, HolderCommands
  <2> HIDE DEF p
  <2> QED
    BY <1>1, <2>1, <2>3, <2>4, JoinsCurrent
<1> QED
  BY <1>2, <1>3 DEF Poll

\* Processes are cancelled and the restart is forgotten.
LEMMA DropPreserves ==
    ASSUME Inv, NEW cs \in SUBSET Processes, Drop(cs), Resumer \in cs,
           token' = NoToken, made' = made, latest' = latest,
           active' \in BOOLEAN, desired' \in {"unset", "on", "off"}, halted' \in BOOLEAN,
           halted' => desired' = "off" \/ ~active'
    PROVE  Inv' /\ \A d \in Processes : ~Sends(d)
<1>1. ASSUME NEW d \in Processes
      PROVE  /\ proc'[d] = IF d \in cs THEN Quiet ELSE proc[d]
             /\ proc[d] \in Records
  BY DEF Drop, Silenced, Inv, Typing
<1>2. proc' \in [Processes -> Records]
  BY <1>1, QuietRecord DEF Drop, Silenced
<1>3. lock' = (IF lock \in cs THEN Nobody ELSE lock) /\ restart' = Nobody
  BY DEF Drop
<1>4. Typing'
  BY <1>2, <1>3 DEF Inv, Typing, NoToken
<1>5. TokensMade' /\ TokensNameIntents'
  <2>1. \A d \in Processes : proc'[d].token <= made /\ proc'[d].token # NoToken
    BY <1>1, QuietRecord DEF Inv, Typing, TokensMade, NoToken
  <2> QED
    BY <2>1 DEF TokensMade, TokensNameIntents
<1>6. RestartIsNewest' /\ HaltedIsOff'
  BY <1>3 DEF RestartIsNewest, HaltedIsOff
<1>7. ResumesActive'
  <2>1. \A d \in Processes : proc'[d].kind # "resume"
    BY <1>1, QuietRecord DEF Inv, ResumesActive
  <2> QED
    BY <2>1 DEF ResumesActive
<1>8. HolderCommands'
  <2>1. ASSUME NEW d \in Processes
        PROVE  lock' = d <=> proc'[d].pc \in Critical
    <3>1. lock = d <=> proc[d].pc \in Critical
      BY DEF Inv, HolderCommands, Critical
    <3> QED
      BY <1>1, <1>3, <3>1, QuietRecord, NobodyApart DEF Critical
  <2> QED
    BY <2>1 DEF HolderCommands, Critical
<1>9. \A d \in Processes : ~Sends(d)
  BY <1>1, QuietRecord DEF Sends
<1> QED
  BY <1>4, <1>5, <1>6, <1>7, <1>8, <1>9 DEF Inv

LEMMA PruneStep ==
    ASSUME Inv, Prune
    PROVE  Inv' /\ \A d \in Processes : ~Sends(d)
<1>1. Cancelled \union {Resumer} \in SUBSET Processes
  BY CancelledFree DEF Processes
<1>2. /\ Drop(Cancelled \union {Resumer}) /\ token' = NoToken /\ made' = made
      /\ latest' = latest /\ active' = active /\ desired' = "unset" /\ halted' = FALSE
      /\ active' \in BOOLEAN
  BY DEF Prune, Inv, Typing
<1> QED
  BY <1>1, <1>2, DropPreserves

LEMMA RetireStep ==
    ASSUME Inv, Retire
    PROVE  Inv' /\ \A d \in Processes : ~Sends(d)
<1>1. Restarts \union {Resumer} \in SUBSET Processes
  BY DEF Processes
<1>2. /\ Drop(Restarts \union {Resumer}) /\ token' = NoToken /\ made' = made
      /\ latest' = latest /\ active' = FALSE /\ halted' = halted /\ halted \in BOOLEAN
      /\ desired' \in {"unset", "on", "off"}
  BY DEF Retire, Inv, Typing
<1> QED
  BY <1>1, <1>2, DropPreserves

-----------------------------------------------------------------------------
SendsNewest == \A c \in Processes : Sends(c) => proc'[c].since = latest'
SendsUnhalted == \A c \in Processes : Sends(c) /\ proc'[c].kind = "resume" => ~halted
RecordsNewest ==
    \A c \in Processes :
        proc[c].pc = "stream" /\ proc'[c].pc # "stream" /\ desired' \notin {desired, "unset"}
            => proc[c].since = latest

LEMMA InitInv == Init => Inv
<1> SUFFICES ASSUME Init PROVE Inv
  OBVIOUS
<1>1. proc = [c \in Processes |-> Quiet]
  BY DEF Init
<1>2. Typing
  <2>1. proc \in [Processes -> Records]
    BY <1>1, QuietRecord
  <2>2. desired \in {"unset", "on", "off"}
    BY DEF Init
  <2>3. active \in BOOLEAN /\ halted \in BOOLEAN
    BY Zenon DEF Init
  <2>4. /\ made \in Nat /\ token \in 0 .. made /\ latest \in Nat
        /\ lock = Nobody /\ restart = Nobody
    BY DEF Init, NoToken
  <2> QED
    BY <2>1, <2>2, <2>3, <2>4 DEF Typing
<1>3. HolderCommands
  BY <1>1, QuietRecord, NobodyApart DEF Init, HolderCommands
<1> QED
  BY <1>1, <1>2, <1>3, QuietRecord
     DEF Init, Inv, TokensMade, TokensNameIntents, RestartIsNewest, ResumesActive,
         HaltedIsOff, NoToken

LEMMA NextInv ==
    ASSUME Inv, Next
    PROVE  Inv' /\ SendsNewest /\ SendsUnhalted
<1> DEFINE Good == Inv' /\ SendsNewest /\ SendsUnhalted
           Kept == \A d \in Processes : Sends(d) =>
                       proc'[d].since = latest' /\ (proc'[d].kind = "resume" => ~halted)
<1>1. ASSUME Inv', Kept PROVE Good
  BY <1>1 DEF SendsNewest, SendsUnhalted
<1>2. ASSUME NEW c \in Commands, NEW kind \in {"start", "stop"}, NEW strict \in BOOLEAN,
             Command(c, kind, strict)
      PROVE  Good
  BY <1>1, <1>2, CommandStep
<1>3. ASSUME NEW c \in Processes, Enter(c) PROVE Good
  BY <1>1, <1>3, EnterStep
<1>4. ASSUME NEW c \in Processes, Proceed(c) PROVE Good
  <2>1. CASE Serve(c)
    BY <1>1, <2>1, ServeStep
  <2>2. CASE NotReady(c)
    BY <1>1, <2>2, NotReadyStep
  <2>3. CASE Fail(c)
    BY <1>1, <2>3, FailStep
  <2>4. CASE Streaming(c)
    BY <1>1, <2>4, StreamingStep
  <2>5. CASE Settle(c)
    BY <1>1, <2>5, SettleStep
  <2> QED
    BY <1>4, <2>1, <2>2, <2>3, <2>4, <2>5 DEF Proceed
<1>5. ASSUME NEW c \in Processes, Abandon(c) PROVE Good
  BY <1>1, <1>5, AbandonStep
<1>6. ASSUME NEW n \in Setters, Capture(n) PROVE Good
  BY <1>1, <1>6, CaptureStep
<1>7. ASSUME NEW n \in Setters, Apply(n) PROVE Good
  BY <1>1, <1>7, ApplyStep
<1>8. ASSUME NEW c \in Restarts, Wake(c) PROVE Good
  BY <1>1, <1>8, WakeStep
<1>9. ASSUME Poll PROVE Good
  BY <1>1, <1>9, PollStep
<1>10. ASSUME Prune PROVE Good
  BY <1>1, <1>10, PruneStep
<1>11. ASSUME Retire PROVE Good
  BY <1>1, <1>11, RetireStep
<1> QED
  BY <1>2, <1>3, <1>4, <1>5, <1>6, <1>7, <1>8, <1>9, <1>10, <1>11 DEF Next

LEMMA StutterInv ==
    ASSUME Inv, UNCHANGED vars
    PROVE  Inv' /\ SendsNewest /\ SendsUnhalted
<1>1. Typing' /\ TokensMade' /\ TokensNameIntents' /\ RestartIsNewest'
  BY DEF Inv, vars, Typing, TokensMade, TokensNameIntents, RestartIsNewest
<1>2. HolderCommands' /\ ResumesActive' /\ HaltedIsOff'
  BY DEF Inv, vars, HolderCommands, ResumesActive, HaltedIsOff
<1> QED
  BY <1>1, <1>2 DEF Inv, vars, Sends, SendsNewest, SendsUnhalted

\* Inv holds of every state of the specification.
THEOREM Invariance == Spec => []Inv
<1>1. Inv /\ [Next]_vars => Inv'
  BY NextInv, StutterInv
<1> QED
  BY InitInv, <1>1, PTL DEF Spec

\* HolderCommands, for any number of processes: the commands to one charger never
\* overlap, whoever is cancelled, forgotten or woken.
THEOREM CommandsExclude == Spec => []HolderCommands
<1>1. Inv => HolderCommands
  BY DEF Inv
<1> QED
  BY Invariance, <1>1, PTL

\* NewestIntentSends, for any number of processes: whatever a process waited for, it
\* sends its request, its retry or its delayed Start for the newest explicit command.
THEOREM NewestSends == Spec => NewestIntentSends
<1>1. Inv /\ [Next]_vars =>
          [\A c \in Processes : Sends(c) => proc'[c].since = latest']_vars
  BY NextInv DEF SendsNewest
<1> QED
  BY Invariance, <1>1, PTL DEF Spec, NewestIntentSends

\* StopHolds, for any number of processes: no automatic resume undoes a completed Stop.
THEOREM StopStays == Spec => StopHolds
<1>1. Inv /\ [Next]_vars =>
          [\A c \in Processes : Sends(c) /\ proc'[c].kind = "resume" => ~halted]_vars
  BY NextInv DEF SendsUnhalted
<1> QED
  BY Invariance, <1>1, PTL DEF Spec, StopHolds

-----------------------------------------------------------------------------
LEMMA JoinLeavesDesired ==
    ASSUME NEW c, NEW p, NEW t, NEW rest, NEW stored, NEW waiting,
           Join(c, p, t, rest, stored, waiting)
    PROVE  desired' = desired \/ lock = Nobody
BY DEF Join, Free, Return, Send

LEMMA FreeIsSilent ==
    ASSUME Inv, lock = Nobody
    PROVE  \A c \in Processes : proc[c].pc # "stream"
BY NobodyApart DEF Inv, HolderCommands

LEMMA NextRecords ==
    ASSUME Inv, Next
    PROVE  RecordsNewest
<1>1. ASSUME desired' \in {desired, "unset"} \/ lock = Nobody PROVE RecordsNewest
  BY <1>1, FreeIsSilent DEF RecordsNewest
<1>2. ASSUME NEW c \in Commands, NEW kind \in {"start", "stop"}, NEW strict \in BOOLEAN,
             Command(c, kind, strict)
      PROVE  RecordsNewest
  BY <1>1, <1>2, JoinLeavesDesired DEF Command
<1>3. ASSUME NEW c \in Processes, Enter(c) PROVE RecordsNewest
  BY <1>1, <1>3 DEF Enter
<1>4. ASSUME NEW c \in Processes, Proceed(c) PROVE RecordsNewest
  <2>1. proc \in [Processes -> Records]
    BY DEF Inv, Typing
  <2>2. CASE Serve(c) \/ Fail(c) \/ Settle(c)
    BY <1>1, <2>2 DEF Serve, Fail, Settle
  <2>3. CASE NotReady(c)
    <3>1. proc[c].pc = "request" /\ \A d \in Processes : d # c => proc'[d] = proc[d]
      BY <2>1, <2>3 DEF NotReady, Over
    <3> QED
      BY <3>1 DEF RecordsNewest
  <2>4. CASE Streaming(c)
    <3>1. \A d \in Processes : d # c => proc'[d] = proc[d]
      BY <2>1, <2>4 DEF Streaming, Over
    <3>2. desired' # desired => proc[c].since = latest
      BY <2>4 DEF Streaming, StillCurrent, Inv, TokensNameIntents
    <3> QED
      BY <3>1, <3>2 DEF RecordsNewest
  <2> QED
    BY <1>4, <2>2, <2>3, <2>4 DEF Proceed
<1>5. ASSUME NEW c \in Processes, Abandon(c) PROVE RecordsNewest
  BY <1>1, <1>5 DEF Abandon
<1>6. ASSUME NEW n \in Setters, Capture(n) \/ Apply(n) PROVE RecordsNewest
  BY <1>1, <1>6, JoinLeavesDesired DEF Capture, Apply
<1>7. ASSUME NEW c \in Restarts, Wake(c) PROVE RecordsNewest
  BY <1>1, <1>7, JoinLeavesDesired DEF Wake
<1>8. ASSUME Poll PROVE RecordsNewest
  <2>1. CASE proc' = proc
    BY <2>1 DEF RecordsNewest
  <2>2. CASE Resume
    BY <1>1, <2>2, JoinLeavesDesired DEF Resume
  <2> QED
    BY <1>8, <2>1, <2>2 DEF Poll
<1>9. ASSUME Prune PROVE RecordsNewest
  BY <1>1, <1>9 DEF Prune
<1>10. ASSUME Retire PROVE RecordsNewest
  BY <1>1, <1>10 DEF Retire
<1> QED
  BY <1>2, <1>3, <1>4, <1>5, <1>6, <1>7, <1>8, <1>9, <1>10 DEF Next

\* NewestIntentRecords, for any number of processes: a command that has been replaced
\* does not record its outcome.
THEOREM NewestRecords == Spec => NewestIntentRecords
<1>1. Inv /\ [Next]_vars =>
          [\A c \in Processes :
             proc[c].pc = "stream" /\ proc'[c].pc # "stream"
                 /\ desired' \notin {desired, "unset"} => proc[c].since = latest]_vars
  BY NextRecords DEF RecordsNewest
<1> QED
  BY Invariance, <1>1, PTL DEF Spec, NewestIntentRecords
=============================================================================
