---------------------------- MODULE RefreshProofs ----------------------------
(***************************************************************************)
(* The proofs about the coordinator's refresh: of the charger status, and  *)
(* of the session when the cloud answers with 401.                         *)
(*                                                                         *)
(* AuthRefresh, for any number of callers and any threshold above one: the *)
(* invariants about the bars and the streak are inductive together with    *)
(* the typing.  Every action but the passing of time and a reload makes    *)
(* the state what an operator on states returns (Become), so most of the   *)
(* proof is in lemmas about those operators: what they return is sound,    *)
(* and the bars running in it are those of its argument, or changed as the *)
(* history is.                                                             *)
(*                                                                         *)
(* StatusRefresh, for any bound on the restarts and each number of         *)
(* confirmations: StatusInv is inductive.  An action either ends or        *)
(* continues a refresh (RefreshMoves, AnswerKeeps), which leaves the       *)
(* health and the Store alone, or it is one of the few that change them.   *)
(***************************************************************************)
EXTENDS AuthRefresh, StatusState, TLAPS

Status == INSTANCE StatusRefresh

-----------------------------------------------------------------------------
(* The session *)

States ==
    [streak : 0..Threshold, recent : BOOLEAN, rejected : Deadlines,
     manual : Deadlines, suspended : Deadlines, blocked : Deadlines]

Sound(s) ==
    /\ s \in States
    /\ s.streak = Threshold => s.suspended # "none"
    /\ s.rejected # "none" => s.streak \in 1..Threshold - 1

Running(s) == {bar \in {"suspended", "blocked"} : s[bar] = "running"}
SameBars(s, t) ==
    /\ t.suspended = "running" <=> s.suspended = "running"
    /\ t.blocked = "running" <=> s.blocked = "running"

Others ==
    /\ asking \in BOOLEAN
    /\ call \in [Callers -> {"idle", "waiting", "granted", "denied"}]
    /\ refresh \in 0..NotRefreshing

Inv == TypeOK /\ BarsRemembered /\ StreakExplained

-----------------------------------------------------------------------------
LEMMA SoundState == Inv => Sound(state) /\ Others /\ sentence = Running(state)
BY DEF Inv, TypeOK, BarsRemembered, StreakExplained, Sound, States, Others, Running, NoBars

LEMMA Restated ==
    ASSUME NEW s, Sound(s), Become(s), sentence' = Running(s), Others'
    PROVE  Inv'
<1>1. state' = s /\ entry' = [suspended |-> s.suspended, blocked |-> s.blocked]
  BY DEF Become, Kept
<1>2. s \in States
  BY DEF Sound
<1>3. TypeOK'
  <2>1. entry' \in [suspended : Deadlines, blocked : Deadlines]
    BY <1>1, <1>2 DEF States
  <2>2. sentence' \subseteq {"suspended", "blocked"}
    BY DEF Running
  <2> QED
    BY <1>1, <1>2, <2>1, <2>2 DEF TypeOK, Others, States
<1>4. BarsRemembered'
  BY <1>1 DEF BarsRemembered, Kept, Running, NoBars
<1>5. StreakExplained'
  BY <1>1 DEF StreakExplained, Sound
<1> QED
  BY <1>3, <1>4, <1>5 DEF Inv

\* A step that keeps the bars that are running, and the history with them.
LEMMA KeptBars ==
    ASSUME NEW s, Inv, Sound(s), SameBars(state, s), Become(s), UNCHANGED sentence, Others'
    PROVE  Inv'
<1>1. sentence' = Running(s)
  BY SoundState DEF Running, SameBars
<1> QED
  BY <1>1, Restated

LEMMA NoticedBlock ==
    ASSUME NEW s, Sound(s)
    PROVE  Sound(NoticeBlock(s)) /\ SameBars(s, NoticeBlock(s))
BY DEF Sound, States, NoticeBlock, SameBars, Deadlines

LEMMA NoticedRejection ==
    ASSUME NEW s, Sound(s)
    PROVE  Sound(NoticeRejection(s)) /\ SameBars(s, NoticeRejection(s))
BY DEF Sound, States, NoticeRejection, SameBars, Deadlines

LEMMA NoticedManual ==
    ASSUME NEW s, Sound(s)
    PROVE  Sound(NoticeManual(s)) /\ SameBars(s, NoticeManual(s))
BY DEF Sound, States, NoticeManual, SameBars, Deadlines

LEMMA Thresholds ==
    /\ Threshold \in Nat /\ Threshold > 1 /\ NotRefreshing \in Nat
    /\ 0 \in 0..Threshold /\ Threshold \in 0..Threshold
BY ConstantsAssumption DEF NotRefreshing

LEMMA Forgave ==
    ASSUME NEW s, Sound(s)
    PROVE  /\ Sound(Forgiven(s)) /\ SameBars(s, Forgiven(s))
           /\ Forgiven(s) \in States /\ Forgiven(s).streak = 0
           /\ Forgiven(s).rejected = "none" /\ Forgiven(s).suspended = s.suspended
           /\ Forgiven(s).blocked = s.blocked
<1>1. Forgiven(s) = [s EXCEPT !.streak = 0, !.rejected = "none"]
  BY DEF Forgiven
<1>2. s \in States
  BY DEF Sound
<1>3. /\ Forgiven(s) \in States
      /\ Forgiven(s).suspended = s.suspended /\ Forgiven(s).blocked = s.blocked
      /\ Forgiven(s).streak = 0 /\ Forgiven(s).rejected = "none"
  BY <1>1, <1>2, Thresholds DEF States, Deadlines
<1>4. 0 # Threshold
  BY Thresholds
<1> QED
  BY <1>3, <1>4 DEF Sound, SameBars

LEMMA NoticedSuspension ==
    ASSUME NEW s, Sound(s)
    PROVE  Sound(NoticeSuspension(s)) /\ SameBars(s, NoticeSuspension(s))
<1>1. CASE s.suspended # "over"
  BY <1>1 DEF NoticeSuspension, SameBars
<1>2. CASE s.suspended = "over"
  <2>1. NoticeSuspension(s) = [Forgiven(s) EXCEPT !.suspended = "none"]
    BY <1>2 DEF NoticeSuspension
  <2>2. /\ Forgiven(s) \in States /\ Forgiven(s).streak = 0
        /\ Forgiven(s).rejected = "none" /\ Forgiven(s).blocked = s.blocked
    BY Forgave
  <2>3. /\ NoticeSuspension(s) \in States
        /\ NoticeSuspension(s).suspended = "none" /\ NoticeSuspension(s).blocked = s.blocked
        /\ NoticeSuspension(s).streak = 0 /\ NoticeSuspension(s).rejected = "none"
    BY <2>1, <2>2 DEF States, Deadlines
  <2>4. 0 # Threshold
    BY Thresholds
  <2> QED
    BY <1>2, <2>3, <2>4 DEF Sound, SameBars
<1> QED
  BY <1>1, <1>2

LEMMA Rejection ==
    ASSUME NEW s, Sound(s)
    PROVE  /\ Sound(Rejected(s))
           /\ Rejected(s).blocked = s.blocked
           /\ Rejected(s).suspended = IF s.streak + 1 >= Threshold THEN "running" ELSE s.suspended
<1>1. s \in States
  BY DEF Sound
<1> DEFINE n == IF s.streak < Threshold THEN s.streak + 1 ELSE Threshold
           m == [s EXCEPT !.streak = n, !.recent = FALSE]
<1>2. n \in 1..Threshold /\ (n = Threshold <=> s.streak + 1 >= Threshold)
  BY <1>1, Thresholds DEF States
<1>3. n \in 0..Threshold
  BY <1>2, Thresholds
<1>4. Rejected(s) = IF n = Threshold THEN [m EXCEPT !.rejected = "none", !.suspended = "running"]
                    ELSE [m EXCEPT !.rejected = "running"]
  BY DEF Rejected
<1> HIDE DEF n
<1>5. /\ m \in States /\ m.streak = n /\ m.suspended = s.suspended /\ m.blocked = s.blocked
  BY <1>1, <1>3 DEF States
<1> HIDE DEF m
<1>6. CASE n = Threshold
  <2>1. /\ Rejected(s) \in States /\ Rejected(s).streak = n /\ Rejected(s).blocked = s.blocked
        /\ Rejected(s).suspended = "running" /\ Rejected(s).rejected = "none"
    BY <1>4, <1>5, <1>6 DEF States, Deadlines
  <2> QED
    BY <2>1, <1>2, <1>6 DEF Sound
<1>7. CASE n # Threshold
  <2>1. /\ Rejected(s) \in States /\ Rejected(s).streak = n /\ Rejected(s).blocked = s.blocked
        /\ Rejected(s).suspended = s.suspended /\ Rejected(s).rejected = "running"
    BY <1>4, <1>5, <1>7 DEF States, Deadlines
  <2>2. n \in 1..Threshold - 1
    BY <1>2, <1>7, Thresholds
  <2> QED
    BY <2>1, <2>2, <1>2, <1>7 DEF Sound
<1> QED
  BY <1>6, <1>7

LEMMA Blockade ==
    ASSUME NEW s, Sound(s)
    PROVE  /\ Sound(Blocked(s)) /\ Blocked(s).blocked = "running"
           /\ Blocked(s).suspended = s.suspended
BY DEF Sound, States, Blocked, Deadlines

\* Writing the other deadlines or the reuse window touches no bar.
LEMMA OtherField ==
    ASSUME NEW s, Sound(s), NEW d \in Deadlines, NEW b \in BOOLEAN
    PROVE  /\ Sound([s EXCEPT !.manual = d]) /\ SameBars(s, [s EXCEPT !.manual = d])
           /\ Sound([s EXCEPT !.recent = b]) /\ SameBars(s, [s EXCEPT !.recent = b])
           /\ s.rejected = "running" => /\ Sound([s EXCEPT !.rejected = "over"])
                                        /\ SameBars(s, [s EXCEPT !.rejected = "over"])
BY DEF Sound, States, SameBars, Deadlines

LEMMA Anew ==
    ASSUME NEW k \in [suspended : Deadlines, blocked : Deadlines]
    PROVE  /\ Sound(Restored(k))
           /\ Restored(k).suspended = k.suspended /\ Restored(k).blocked = k.blocked
           /\ Sound([Restored(k) EXCEPT !.recent = TRUE])
           /\ [Restored(k) EXCEPT !.recent = TRUE].suspended = k.suspended
           /\ [Restored(k) EXCEPT !.recent = TRUE].blocked = k.blocked
<1>1. 0 # Threshold /\ "none" \in Deadlines /\ 0 \in 0..Threshold
  BY Thresholds DEF Deadlines
<1>2. /\ Restored(k) \in States /\ Restored(k).streak = 0 /\ Restored(k).rejected = "none"
      /\ Restored(k).suspended = k.suspended /\ Restored(k).blocked = k.blocked
  BY <1>1 DEF Restored, States
<1> DEFINE r == [Restored(k) EXCEPT !.recent = TRUE]
<1>3. /\ r \in States /\ r.streak = 0 /\ r.rejected = "none"
      /\ r.suspended = k.suspended /\ r.blocked = k.blocked
  BY <1>2 DEF States
<1> QED
  BY <1>1, <1>2, <1>3 DEF Sound

LEMMA Bars ==
    ASSUME NEW s, NEW t, NEW u, SameBars(s, t), SameBars(t, u)
    PROVE  SameBars(s, u)
BY DEF SameBars

-----------------------------------------------------------------------------
\* What the parts of the steps do to the callers.
LEMMA Joined ==
    ASSUME NEW c \in Callers, Others, AskOrJoin(c), UNCHANGED refresh
    PROVE  Others'
BY DEF Others, AskOrJoin

LEMMA Ended ==
    ASSUME NEW granted \in BOOLEAN, Others, Done(granted)
    PROVE  Others'
<1>1. call' \in [Callers -> {"idle", "waiting", "granted", "denied"}]
  BY DEF Others, Done
<1> QED
  BY <1>1 DEF Others, Done

\* The state an automatic or a manual attempt reaches before it decides.
LEMMA AutomaticView ==
    ASSUME NEW s, Sound(s)
    PROVE  LET s1 == NoticeBlock(s)
               s2 == IF s1.blocked = "running" THEN s1 ELSE NoticeSuspension(s1)
               s3 == NoticeRejection(s2)
           IN  /\ Sound(s2) /\ SameBars(s, s2)
               /\ Sound(s3) /\ SameBars(s, s3)
<1> DEFINE s1 == NoticeBlock(s)
           s2 == IF s1.blocked = "running" THEN s1 ELSE NoticeSuspension(s1)
           s3 == NoticeRejection(s2)
<1>1. Sound(s1) /\ SameBars(s, s1)
  BY NoticedBlock
<1>2. Sound(s2) /\ SameBars(s, s2)
  <2> HIDE DEF s1
  <2>1. SameBars(s1, s1)
    BY DEF SameBars
  <2>2. Sound(NoticeSuspension(s1)) /\ SameBars(s1, NoticeSuspension(s1))
    BY <1>1, NoticedSuspension
  <2>3. Sound(s2) /\ SameBars(s1, s2)
    BY <1>1, <2>1, <2>2
  <2> HIDE DEF s2
  <2> QED
    BY <1>1, <2>3, Bars
<1> HIDE DEF s2
<1>3. Sound(s3) /\ SameBars(s, s3)
  BY <1>2, NoticedRejection, Bars
<1> HIDE DEF s3
<1> QED
  BY <1>2, <1>3 DEF s1, s2, s3

LEMMA ManualView ==
    ASSUME NEW s, Sound(s)
    PROVE  LET s1 == NoticeManual(s)
               s2 == IF s1.recent THEN NoticeBlock(s1) ELSE s1
               s3 == IF s1.recent /\ s2.blocked = "none" THEN NoticeSuspension(s2) ELSE s2
           IN  /\ Sound(s1) /\ SameBars(s, s1)
               /\ Sound(s3) /\ SameBars(s, s3)
<1> DEFINE s1 == NoticeManual(s)
           s2 == IF s1.recent THEN NoticeBlock(s1) ELSE s1
           s3 == IF s1.recent /\ s2.blocked = "none" THEN NoticeSuspension(s2) ELSE s2
<1>1. Sound(s1) /\ SameBars(s, s1)
  BY NoticedManual
<1> HIDE DEF s1
<1>2. Sound(s2) /\ SameBars(s, s2)
  <2>1. SameBars(s1, s1)
    BY DEF SameBars
  <2>2. Sound(NoticeBlock(s1)) /\ SameBars(s1, NoticeBlock(s1))
    BY <1>1, NoticedBlock
  <2>3. Sound(s2) /\ SameBars(s1, s2)
    BY <1>1, <2>1, <2>2
  <2> HIDE DEF s2
  <2> QED
    BY <1>1, <2>3, Bars
<1> HIDE DEF s2
<1>3. Sound(s3) /\ SameBars(s, s3)
  <2>1. SameBars(s2, s2)
    BY DEF SameBars
  <2>2. Sound(NoticeSuspension(s2)) /\ SameBars(s2, NoticeSuspension(s2))
    BY <1>2, NoticedSuspension
  <2>3. Sound(s3) /\ SameBars(s2, s3)
    BY <1>2, <2>1, <2>2
  <2> HIDE DEF s3
  <2> QED
    BY <1>2, <2>3, Bars
<1> HIDE DEF s3
<1> QED
  BY <1>1, <1>3 DEF s1, s2, s3

LEMMA AutomaticStep ==
    ASSUME NEW c \in Automatic, Inv, AutomaticAttempt(c)
    PROVE  Inv'
<1> DEFINE s1 == NoticeBlock(state)
           s2 == IF s1.blocked = "running" THEN s1 ELSE NoticeSuspension(s1)
           s3 == NoticeRejection(s2)
<1>1. Sound(state) /\ Others
  BY SoundState
<1>2. /\ Sound(s2) /\ SameBars(state, s2)
      /\ Sound(s3) /\ SameBars(state, s3)
  BY <1>1, AutomaticView
<1>3. /\ Become(s2) \/ Become(s3)
      /\ UNCHANGED <<asking, call>> \/ AskOrJoin(c)
      /\ UNCHANGED <<refresh, sentence>>
  BY DEF AutomaticAttempt
<1> HIDE DEF s2, s3
<1>4. Others'
  <2>1. ASSUME UNCHANGED <<asking, call>> PROVE Others'
    BY <2>1, <1>1, <1>3 DEF Others
  <2> QED
    BY <2>1, <1>1, <1>3, Joined DEF Callers
<1>5. ASSUME Become(s2) PROVE Inv'
  BY <1>2, <1>3, <1>4, <1>5, KeptBars
<1>6. ASSUME Become(s3) PROVE Inv'
  BY <1>2, <1>3, <1>4, <1>6, KeptBars
<1> QED
  BY <1>3, <1>5, <1>6

LEMMA ManualStep ==
    ASSUME NEW c \in Manual, NEW hems \in BOOLEAN, Inv, ManualAttempt(c, hems)
    PROVE  Inv'
<1> DEFINE s1 == NoticeManual(state)
           s2 == IF s1.recent THEN NoticeBlock(s1) ELSE s1
           s3 == IF s1.recent /\ s2.blocked = "none" THEN NoticeSuspension(s2) ELSE s2
<1>1. Sound(state) /\ Others
  BY SoundState
<1>2. /\ Sound(s1) /\ SameBars(state, s1)
      /\ Sound(s3) /\ SameBars(state, s3)
  BY <1>1, ManualView
<1>3. /\ Become(s1) \/ Become(s3) \/ Become(Forgiven(s3))
      /\ UNCHANGED <<asking, call>> \/ AskOrJoin(c)
      /\ UNCHANGED <<refresh, sentence>>
  BY DEF ManualAttempt
<1> HIDE DEF s1, s3
<1>4. Others'
  <2>1. ASSUME UNCHANGED <<asking, call>> PROVE Others'
    BY <2>1, <1>1, <1>3 DEF Others
  <2> QED
    BY <2>1, <1>1, <1>3, Joined DEF Callers
<1>5. ASSUME Become(s1) PROVE Inv'
  BY <1>2, <1>3, <1>4, <1>5, KeptBars
<1>6. ASSUME Become(s3) PROVE Inv'
  BY <1>2, <1>3, <1>4, <1>6, KeptBars
<1>7. ASSUME Become(Forgiven(s3)) PROVE Inv'
  <2>1. Sound(Forgiven(s3)) /\ SameBars(state, Forgiven(s3))
    BY <1>2, Forgave, Bars
  <2> QED
    BY <2>1, <1>3, <1>4, <1>7, KeptBars
<1> QED
  BY <1>3, <1>5, <1>6, <1>7

LEMMA SucceedStep ==
    ASSUME Inv, LoginSucceeds
    PROVE  Inv'
<1> DEFINE s == [Restored(NoBars) EXCEPT !.recent = TRUE]
<1>1. NoBars \in [suspended : Deadlines, blocked : Deadlines]
  BY DEF NoBars, Deadlines
<1>2. Sound(s) /\ s.suspended = "none" /\ s.blocked = "none"
  BY <1>1, Anew DEF NoBars
<1>3. Become(s) /\ sentence' = {} /\ Done(TRUE)
  BY DEF LoginSucceeds
<1> HIDE DEF s
<1>4. Running(s) = {}
  BY <1>2 DEF Running
<1>5. Others'
  BY <1>3, SoundState, Ended
<1> QED
  BY <1>2, <1>3, <1>4, <1>5, Restated

LEMMA RejectStep ==
    ASSUME Inv, LoginRejected
    PROVE  Inv'
<1> DEFINE s == Rejected(state)
           suspends == state.streak + 1 >= Threshold
<1>1. Sound(state) /\ sentence = Running(state) /\ Others
  BY SoundState
<1>2. /\ Sound(s) /\ s.blocked = state.blocked
      /\ s.suspended = IF suspends THEN "running" ELSE state.suspended
  BY <1>1, Rejection
<1>3. /\ Become(s) /\ Done(FALSE)
      /\ sentence' = IF suspends THEN sentence \union {"suspended"} ELSE sentence
  BY DEF LoginRejected
<1> HIDE DEF s, suspends
<1>4. sentence' = Running(s)
  BY <1>1, <1>2, <1>3 DEF Running
<1>5. Others'
  BY <1>1, <1>3, Ended
<1> QED
  BY <1>2, <1>3, <1>4, <1>5, Restated

\* A block is put up, and the history with it.
LEMMA BlockStep ==
    ASSUME NEW s, Inv, Sound(s), SameBars(state, s), Become(Blocked(s)),
           sentence' = sentence \union {"blocked"}, Others'
    PROVE  Inv'
<1>1. Sound(Blocked(s)) /\ Blocked(s).blocked = "running" /\ Blocked(s).suspended = s.suspended
  BY Blockade
<1>2. sentence' = Running(Blocked(s))
  BY <1>1, SoundState DEF Running, SameBars
<1> QED
  BY <1>1, <1>2, Restated

LEMMA SessionsStep ==
    ASSUME Inv, TooManySessions
    PROVE  Inv'
<1>1. Sound(state) /\ SameBars(state, state) /\ Others
  BY SoundState DEF SameBars
<1>2. Others'
  BY <1>1, Ended DEF TooManySessions
<1> QED
  BY <1>1, <1>2, BlockStep DEF TooManySessions

\* Steps that leave the state, the entry and the history alone.
LEMMA SameState ==
    ASSUME Inv, UNCHANGED <<state, entry, sentence>>, Others'
    PROVE  Inv'
BY DEF Inv, TypeOK, BarsRemembered, StreakExplained, Others, Kept

LEMMA FailStep ==
    ASSUME Inv, LoginFails
    PROVE  Inv'
BY SoundState, Ended, SameState DEF LoginFails

LEMMA ReturnStep ==
    ASSUME NEW c \in Callers, Inv, Return(c)
    PROVE  Inv'
<1> DEFINE d == IF call[c] = "granted" THEN "none" ELSE "running"
           m == [state EXCEPT !.manual = d]
<1>1. Sound(state) /\ SameBars(state, state) /\ Others
  BY SoundState DEF SameBars
<1>2. Sound(m) /\ SameBars(state, m)
  <2>1. d \in Deadlines
    BY DEF Deadlines
  <2> HIDE DEF d
  <2> QED
    BY <1>1, <2>1, OtherField
<1>3. Sound(NoticeBlock(state)) /\ SameBars(state, NoticeBlock(state))
  BY <1>1, NoticedBlock
<1>4. Become(m) \/ Become(state) \/ Become(NoticeBlock(state))
  BY DEF Return
<1> HIDE DEF m
<1>5. Others' /\ UNCHANGED sentence
  BY <1>1 DEF Return, Others
<1>6. ASSUME Become(m) PROVE Inv'
  BY <1>2, <1>5, <1>6, KeptBars
<1>7. ASSUME Become(state) PROVE Inv'
  BY <1>1, <1>5, <1>7, KeptBars
<1>8. ASSUME Become(NoticeBlock(state)) PROVE Inv'
  BY <1>3, <1>5, <1>8, KeptBars
<1> QED
  BY <1>4, <1>6, <1>7, <1>8

LEMMA CancelStep ==
    ASSUME NEW c \in Callers, Inv, Cancel(c)
    PROVE  Inv'
<1>1. Others'
  BY SoundState DEF Cancel, Others
<1> QED
  BY <1>1, SameState DEF Cancel

LEMMA WallStep ==
    ASSUME Inv, LoginWall
    PROVE  Inv'
<1> DEFINE s1 == NoticeRejection(state)
           s2 == NoticeBlock(s1)
<1>1. Sound(state) /\ Others
  BY SoundState
<1>2. Sound(s1) /\ SameBars(state, s1)
  BY <1>1, NoticedRejection
<1>3. Sound(s2) /\ SameBars(state, s2)
  <2> HIDE DEF s1
  <2> QED
    BY <1>2, NoticedBlock, Bars
<1>4. \/ Become(Blocked(s2)) /\ sentence' = sentence \union {"blocked"}
      \/ (Become(s2) \/ Become(s1)) /\ UNCHANGED sentence
  BY DEF LoginWall
<1> HIDE DEF s1, s2
<1>5. Others'
  BY <1>1 DEF LoginWall, Others
<1>6. ASSUME Become(Blocked(s2)), sentence' = sentence \union {"blocked"} PROVE Inv'
  BY <1>3, <1>5, <1>6, BlockStep
<1>7. ASSUME Become(s1), UNCHANGED sentence PROVE Inv'
  BY <1>2, <1>5, <1>7, KeptBars
<1>8. ASSUME Become(s2), UNCHANGED sentence PROVE Inv'
  BY <1>3, <1>5, <1>8, KeptBars
<1> QED
  BY <1>4, <1>6, <1>7, <1>8

LEMMA StartStep ==
    ASSUME Inv, StartRefresh
    PROVE  Inv'
<1>1. Sound(state) /\ Others
  BY SoundState
<1>2. Sound(NoticeBlock(state)) /\ SameBars(state, NoticeBlock(state))
  BY <1>1, NoticedBlock
<1>3. state.streak \in 0..NotRefreshing
  BY <1>1, Thresholds DEF Sound, States, NotRefreshing
<1>4. Others'
  BY <1>1, <1>3 DEF StartRefresh, Others
<1> QED
  BY <1>2, <1>4, KeptBars DEF StartRefresh

LEMMA FinishStep ==
    ASSUME NEW succeeds \in BOOLEAN, Inv, FinishRefresh(succeeds)
    PROVE  Inv'
<1> DEFINE s == NoticeSuspension(state)
<1>1. Sound(state) /\ SameBars(state, state) /\ Others
  BY SoundState DEF SameBars
<1>2. Sound(s) /\ SameBars(state, s)
  BY <1>1, NoticedSuspension
<1>3. Become(state) \/ Become(s) \/ Become(Forgiven(s))
  BY DEF FinishRefresh
<1> HIDE DEF s
<1>4. Sound(Forgiven(s)) /\ SameBars(state, Forgiven(s))
  BY <1>2, Forgave, Bars
<1>5. Others' /\ UNCHANGED sentence
  BY <1>1, Thresholds DEF FinishRefresh, Others
<1>6. ASSUME Become(state) PROVE Inv'
  BY <1>1, <1>5, <1>6, KeptBars
<1>7. ASSUME Become(s) PROVE Inv'
  BY <1>2, <1>5, <1>7, KeptBars
<1>8. ASSUME Become(Forgiven(s)) PROVE Inv'
  BY <1>4, <1>5, <1>8, KeptBars
<1> QED
  BY <1>3, <1>6, <1>7, <1>8

LEMMA ReloadStep ==
    ASSUME Inv, Reload
    PROVE  Inv'
<1>1. Sound(state) /\ sentence = Running(state) /\ Others
  BY SoundState
<1>2. /\ entry \in [suspended : Deadlines, blocked : Deadlines]
      /\ entry.suspended = state.suspended /\ entry.blocked = state.blocked
  BY DEF Inv, TypeOK, BarsRemembered, Kept
<1>3. /\ Sound(Restored(entry)) /\ Restored(entry).suspended = entry.suspended
      /\ Restored(entry).blocked = entry.blocked
  BY <1>2, Anew
<1>4. entry = Kept(Restored(entry))
  BY <1>2, <1>3 DEF Kept
<1>5. Become(Restored(entry))
  BY <1>4 DEF Reload, Become
<1>6. SameBars(state, Restored(entry))
  BY <1>2, <1>3 DEF SameBars
<1>7. Others'
  <2>1. NotRefreshing \in 0..NotRefreshing
    BY Thresholds
  <2> QED
    BY <1>1, <2>1 DEF Reload, Others
<1> QED
  BY <1>3, <1>5, <1>6, <1>7, KeptBars DEF Reload

LEMMA LapseBarStep ==
    ASSUME NEW bar \in {"suspended", "blocked"}, Inv, LapseBar(bar)
    PROVE  Inv'
<1> DEFINE s == [state EXCEPT ![bar] = IF @ = "running" THEN "over" ELSE @]
<1>1. Sound(state) /\ sentence = Running(state) /\ Others /\ entry = Kept(state)
  BY SoundState DEF Inv, BarsRemembered
<1>2. Sound(s)
  BY <1>1 DEF Sound, States, Deadlines
<1>3. entry' = Kept(s)
  <2> DEFINE over(d) == IF d = "running" THEN "over" ELSE d
  <2>1. entry = [suspended |-> state.suspended, blocked |-> state.blocked]
    BY <1>1 DEF Kept
  <2>2. entry' = [entry EXCEPT ![bar] = over(entry[bar])]
    BY DEF LapseBar
  <2>3. s = [state EXCEPT ![bar] = over(state[bar])] /\ state \in States
    BY <1>1 DEF Sound
  <2> HIDE DEF over, s
  <2>4. CASE bar = "suspended"
    BY <2>1, <2>2, <2>3, <2>4 DEF Kept, States
  <2>5. CASE bar = "blocked"
    BY <2>1, <2>2, <2>3, <2>5 DEF Kept, States
  <2> QED
    BY <2>4, <2>5
<1>4. Become(s)
  BY <1>3 DEF LapseBar, Become
<1>5. Running(s) = Running(state) \ {bar}
  BY <1>1 DEF Running, Sound, States
<1> HIDE DEF s
<1>6. Others' /\ sentence' = Running(s)
  BY <1>1, <1>5 DEF LapseBar, Others
<1> QED
  BY <1>2, <1>4, <1>6, Restated

LEMMA LapseStep ==
    ASSUME Inv, Lapse
    PROVE  Inv'
<1>1. Sound(state) /\ Others /\ entry = Kept(state)
  BY SoundState DEF Inv, BarsRemembered
<1>2. \/ state.rejected = "running" /\ state' = [state EXCEPT !.rejected = "over"]
      \/ state' = [state EXCEPT !.manual = "over"]
      \/ state' = [state EXCEPT !.recent = FALSE]
  BY DEF Lapse
<1>3. Sound(state') /\ SameBars(state, state')
  BY <1>1, <1>2, OtherField DEF Deadlines
<1>4. Kept(state') = Kept(state)
  BY <1>1, <1>2 DEF Kept, Sound, States
<1>5. Become(state')
  BY <1>1, <1>4 DEF Lapse, Become
<1>6. Others' /\ UNCHANGED sentence
  BY <1>1 DEF Lapse, Others
<1> QED
  BY <1>3, <1>5, <1>6, KeptBars

-----------------------------------------------------------------------------
LEMMA InitInv == Init => Inv
<1> SUFFICES ASSUME Init PROVE Inv
  OBVIOUS
<1>1. NoBars \in [suspended : Deadlines, blocked : Deadlines]
  BY DEF NoBars, Deadlines
<1>2. /\ Sound(state) /\ state.suspended = "none" /\ state.blocked = "none"
  BY <1>1, Anew DEF Init, NoBars
<1>3. entry = Kept(state)
  BY <1>2 DEF Init, NoBars, Kept
<1>4. refresh \in 0..NotRefreshing
  BY Thresholds DEF Init
<1>5. TypeOK
  BY <1>1, <1>2, <1>4 DEF TypeOK, Init, Sound, States
<1>6. BarsRemembered
  BY <1>2, <1>3 DEF BarsRemembered, Init, NoBars
<1>7. StreakExplained
  BY <1>2 DEF StreakExplained, Sound
<1> QED
  BY <1>5, <1>6, <1>7 DEF Inv

LEMMA InductiveStep ==
    ASSUME Inv, [Next]_vars
    PROVE  Inv'
<1>1. CASE Next
  <2>1. ASSUME NEW c \in Automatic, AutomaticAttempt(c) PROVE Inv'
    BY <2>1, AutomaticStep
  <2>2. ASSUME NEW c \in Manual, NEW hems \in BOOLEAN, ManualAttempt(c, hems) PROVE Inv'
    BY <2>2, ManualStep
  <2>3. CASE LoginSucceeds \/ LoginRejected \/ TooManySessions \/ LoginFails
    BY <2>3, SucceedStep, RejectStep, SessionsStep, FailStep
  <2>4. ASSUME NEW c \in Callers, Return(c) \/ Cancel(c) PROVE Inv'
    BY <2>4, ReturnStep, CancelStep
  <2>5. CASE LoginWall \/ StartRefresh \/ Reload \/ Lapse
    BY <2>5, WallStep, StartStep, ReloadStep, LapseStep
  <2>6. ASSUME NEW succeeds \in BOOLEAN, FinishRefresh(succeeds) PROVE Inv'
    BY <2>6, FinishStep
  <2>7. ASSUME NEW bar \in DOMAIN NoBars, LapseBar(bar) PROVE Inv'
    BY <2>7, LapseBarStep DEF NoBars
  <2> QED
    BY <1>1, <2>1, <2>2, <2>3, <2>4, <2>5, <2>6, <2>7 DEF Next
<1>2. CASE UNCHANGED vars
  <2>1. Others'
    BY <1>2, SoundState DEF vars, Others
  <2> QED
    BY <1>2, <2>1, SameState DEF vars
<1> QED
  BY <1>1, <1>2

\* The typing and both invariants hold in every state, for any number of
\* callers and any threshold above one.
THEOREM Invariance == Spec => []Inv
<1>1. Inv /\ [Next]_vars => Inv'
  BY InductiveStep
<1> QED
  BY InitInv, <1>1, PTL DEF Spec

\* Every state is well typed; the streak stays within its range.
THEOREM TypeCorrectness == Spec => []TypeOK
<1>1. Inv => TypeOK
  BY DEF Inv
<1> QED
  BY <1>1, Invariance, PTL

\* A suspension or a block is in force for its whole time and is what a restart
\* would find.
THEOREM BarsAlwaysRemembered == Spec => []BarsRemembered
<1>1. Inv => BarsRemembered
  BY DEF Inv
<1> QED
  BY <1>1, Invariance, PTL

\* The streak of rejections agrees with the suspension and the cooldown.
THEOREM StreakAlwaysExplained == Spec => []StreakExplained
<1>1. Inv => StreakExplained
  BY DEF Inv
<1> QED
  BY <1>1, Invariance, PTL

-----------------------------------------------------------------------------
\* An automatic attempt that starts waiting saw no bar, hence there was none.
LEMMA AutomaticWaits ==
    ASSUME NEW c \in Automatic, Inv, AutomaticAttempt(c), call' # call
    PROVE  sentence = {}
<1> DEFINE s1 == NoticeBlock(state)
           s2 == IF s1.blocked = "running" THEN s1 ELSE NoticeSuspension(s1)
<1>1. Sound(state) /\ sentence = Running(state)
  BY SoundState
<1>2. SameBars(state, s2)
  BY <1>1, AutomaticView
<1>3. ~Barred(s2)
  BY DEF AutomaticAttempt
<1> HIDE DEF s2
<1> QED
  BY <1>1, <1>2, <1>3 DEF Barred, SameBars, Running

\* Nothing but its own attempt makes an automatic caller wait.
LEMMA OnlyItsAttempt ==
    ASSUME NEW c \in Automatic, Inv, [Next]_vars, call[c] = "idle", call'[c] = "waiting"
    PROVE  \E d \in Automatic : AutomaticAttempt(d) /\ call' # call
<1>1. call \in [Callers -> {"idle", "waiting", "granted", "denied"}] /\ c \in Callers
  BY DEF Inv, TypeOK, Callers
<1>2. call' # call
  BY <1>1
<1>3. ASSUME NEW d \in Manual, NEW hems \in BOOLEAN, ManualAttempt(d, hems) PROVE FALSE
  <2>1. c # d
    BY ConstantsAssumption
  <2>2. UNCHANGED call \/ call' = [call EXCEPT ![d] = "waiting"]
    BY <1>3 DEF ManualAttempt, AskOrJoin
  <2> QED
    BY <1>1, <2>1, <2>2
<1>4. ASSUME NEW granted \in BOOLEAN, Done(granted) PROVE FALSE
  BY <1>1, <1>4 DEF Done
<1>5. ASSUME NEW d \in Callers, call' = [call EXCEPT ![d] = "idle"] PROVE FALSE
  BY <1>1, <1>5
<1>6. ~Reload
  BY <1>1 DEF Reload
<1>7. CASE UNCHANGED vars
  BY <1>2, <1>7 DEF vars
<1> QED
  BY <1>2, <1>3, <1>4, <1>5, <1>6, <1>7
     DEF Next, LoginSucceeds, LoginRejected, TooManySessions, LoginFails, Return, Cancel,
         LoginWall, StartRefresh, FinishRefresh, LapseBar, Lapse

\* No automatic login starts during a suspension or a block.
THEOREM NoBarredLogin == Spec => AutomaticLoginBarred
<1> DEFINE A == \A c \in Automatic :
                  call[c] = "idle" /\ call'[c] = "waiting" /\ ~asking => sentence = {}
<1>1. Inv /\ [Next]_vars => A
  BY OnlyItsAttempt, AutomaticWaits
<1>2. Inv /\ [Next]_vars => [A]_vars
  BY <1>1
<1> QED
  BY <1>2, Invariance, PTL DEF Spec, AutomaticLoginBarred

-----------------------------------------------------------------------------
(* The charger status *)

Refreshes ==
    [pc : {"idle", "asking", "failing", "siblings", "enriching", "recovering"},
     data : {"charger", "none"}, fresh : BOOLEAN]
Counts == [network : 0..3, dns : 0..3, payload : 0..3, rate : 0..3]
Runs == {"network", "invalid", "other"} \X (0..3)
Published == [data : {"charger", "none"}, recent : BOOLEAN, first : BOOLEAN,
              cache : {"nothing", "bare", "charger"}]
Absences == [count : 0..Confirmations, status : {"charger", "none", "unknown"}]
Healths == [available : BOOLEAN, cooldown : BOOLEAN]
Writes == [0..MaxRestarts -> {"no", "ahead", "over", "none"}]
Issues == {"network", "dns", "cloud", "rate", "status"}

\* TypeOK, with a name for each set of records.
StatusTypes ==
    /\ active \in BOOLEAN /\ backoff \in BOOLEAN /\ outage \in BOOLEAN
    /\ unheard \in BOOLEAN /\ late \in Writes
    /\ poll \in Refreshes /\ errors \in Counts /\ run \in Runs
    /\ published \in Published /\ absence \in Absences /\ health \in Healths
    /\ saved \in Status!Saved /\ issues \in SUBSET Issues
    /\ inventory \in Status!Buckets /\ restarts \in 0..MaxRestarts

\* TypeOK is StatusTypes, now and after a step.
LEMMA StatusTyped == (Status!TypeOK <=> StatusTypes) /\ (Status!TypeOK <=> StatusTypes)'
<1>1. Status!Seen = {"charger", "none"} /\ Status!Longest = 3
      /\ Status!Seen \union {"unknown"} = {"charger", "none", "unknown"}
      /\ Status!Saved \union {"none"} = {"no", "ahead", "over", "none"}
  BY DEF Status!Seen, Status!Longest, Status!Saved
<1>2. (Status!TypeOK <=> StatusTypes)
  BY <1>1 DEF Status!TypeOK, StatusTypes, Refreshes, Counts, Runs, Published, Absences,
              Healths, Writes, Issues
<1>3. (Status!TypeOK <=> StatusTypes)'
  BY <1>1 DEF Status!TypeOK, StatusTypes, Refreshes, Counts, Runs, Published, Absences,
              Healths, Writes, Issues
<1> QED  BY <1>2, <1>3

\* A new runtime's state.
LEMMA NewRuntime ==
    /\ Status!Idle \in Refreshes /\ Status!Idle.pc = "idle"
    /\ Status!Nothing \in Published /\ Status!Unknown \in Absences
    /\ Status!NoErrors \in Counts /\ Status!NoErrors.network = 0
    /\ Status!NoErrors.payload = 0
    /\ <<"other", 0>> \in Runs
    /\ Status!NoSaves \in Writes
BY StatusAssumption DEF Status!NoSaves, Writes, Status!Idle, Status!Nothing,
       Status!Unknown, Status!NoErrors, Refreshes, Published, Absences, Counts, Runs

\* A refresh that has begun awaits where it says.
LEMMA Awaiting ==
    \A pc \in {"asking", "failing", "siblings"} :
        [Status!Idle EXCEPT !.pc = pc] \in Refreshes /\ [Status!Idle EXCEPT !.pc = pc].pc = pc
BY DEF Status!Idle, Refreshes

\* The first runtime starts with the invariant.
LEMMA StatusInitInv == Status!Init => Status!StatusInv
<1> SUFFICES ASSUME Status!Init PROVE Status!StatusInv
  OBVIOUS
<1>1. Status!TypeOK
  <2>1. health \in Healths /\ saved \in Status!Saved /\ inventory \in Status!Buckets
        /\ restarts \in 0..MaxRestarts /\ issues \in SUBSET Issues
    BY StatusAssumption DEF Status!Init, Healths, Status!Saved, Status!Buckets
  <2> QED  BY <2>1, NewRuntime, StatusTyped DEF StatusTypes, Status!Init
<1>2. /\ Status!StoppedIsReplaced /\ Status!OutageUnavailable
      /\ Status!RecoveringIsFresh /\ Status!DeadlineTimed
  BY NewRuntime DEF Status!Init, Status!StoppedIsReplaced, Status!OutageUnavailable,
               Status!RecoveringIsFresh, Status!DeadlineTimed
<1>3. Status!StreaksCounted
  BY NewRuntime DEF Status!Init, Status!StreaksCounted
<1> QED  BY <1>1, <1>2, <1>3 DEF Status!StatusInv

\* The counts after an update of two of them.
LEMMA Recounted ==
    ASSUME NEW counts \in Counts, NEW n \in 0..3, NEW p \in 0..3
    PROVE  [counts EXCEPT !.network = n, !.payload = p] \in Counts
BY DEF Counts

\* The counts after an answer that is not valid.
LEMMA InvalidCounts ==
    ASSUME errors \in Counts, NEW p, p = Status!Up(errors.payload, 2)
    PROVE  LET failed == [errors EXCEPT !.network = 0, !.payload = p]
           IN  /\ failed \in Counts /\ failed.network = 0 /\ failed.payload = p
               /\ errors.payload \in 0..3
<1>1. errors.payload \in 0..3 /\ 0 \in 0..3
  BY DEF Counts
<1>2. p \in 0..3
  BY <1>1 DEF Status!Up
<1>3. [errors EXCEPT !.network = 0, !.payload = p] \in Counts
  BY <1>1, <1>2, Recounted
<1>4. /\ [errors EXCEPT !.network = 0, !.payload = p].network = 0
      /\ [errors EXCEPT !.network = 0, !.payload = p].payload = p
  BY DEF Counts
<1> QED  BY <1>1, <1>3, <1>4

\* A run goes on or begins.
LEMMA RanOn ==
    ASSUME Status!TypeOK, NEW kind \in {"network", "invalid", "other"}, Status!Ran(kind)
    PROVE  /\ run' \in Runs /\ run'[1] = kind /\ run'[2] >= 1
           /\ run[1] = kind => run'[2] = Status!Up(run[2], 3) /\ run[2] \in 0..3
<1>1. run \in Runs
  BY StatusTyped DEF StatusTypes
<1>2. PICK k \in {"network", "invalid", "other"}, n \in 0..3 : run = <<k, n>>
  BY <1>1 DEF Runs
<1>3. Status!Up(n, 3) \in 1..3
  BY DEF Status!Up
<1>4. run' = IF k = kind THEN <<kind, Status!Up(n, 3)>> ELSE <<kind, 1>>
  BY <1>2 DEF Status!Ran, Status!Longest
<1> QED  BY <1>2, <1>3, <1>4 DEF Runs

\* What an answer that is no server error leaves: the refresh goes on or is over.
LEMMA AnswerKeeps ==
    ASSUME Status!StatusInv, Status!Answer, Status!Alone, outage' = outage,
           poll' \in Refreshes, poll'.pc \in {"idle", "enriching"},
           errors' \in Counts, run' \in Runs, Status!StreaksCounted',
           issues' \in SUBSET Issues, backoff' \in BOOLEAN,
           published' \in Published, absence' \in Absences
    PROVE  Status!StatusInv'
<1>1. Status!TypeOK'
  BY StatusTyped DEF StatusTypes, Status!StatusInv, Status!Alone, Status!lifecycle, Status!store
<1>2. /\ Status!StoppedIsReplaced' /\ Status!OutageUnavailable'
      /\ Status!RecoveringIsFresh' /\ Status!DeadlineTimed'
  BY DEF Status!StatusInv, Status!Answer, Status!Alone, Status!lifecycle, Status!store,
         Status!StoppedIsReplaced, Status!OutageUnavailable,
         Status!RecoveringIsFresh, Status!DeadlineTimed
<1> QED  BY <1>1, <1>2 DEF Status!StatusInv

\* A refresh that goes on.
LEMMA SucceededMoves ==
    ASSUME NEW failed, NEW open, NEW data \in {"charger", "none"}, NEW fresh \in BOOLEAN,
           Status!Succeeded(failed, open, data, fresh)
    PROVE  /\ poll' \in Refreshes /\ poll'.pc = "enriching" /\ poll'.fresh = fresh
           /\ errors' = failed /\ issues' = open /\ backoff' \in BOOLEAN
BY DEF Status!Succeeded, Refreshes

\* A refresh that an error ends.
LEMMA FailedMoves ==
    ASSUME NEW failed, NEW open, Status!Failed(failed, open)
    PROVE  /\ poll' \in Refreshes /\ poll'.pc = "idle"
           /\ errors' = failed /\ issues' = open /\ backoff' \in BOOLEAN
BY NewRuntime DEF Status!Failed

\* The cached status is a status.
LEMMA CachedSeen == Status!Cached \in {"charger", "none"}
BY DEF Status!Cached

\* Once all is forgiven no streak is counted.
LEMMA NoStreak ==
    ASSUME errors' = Status!NoErrors
    PROVE  errors' \in Counts /\ Status!StreaksCounted'
BY NewRuntime DEF Status!StreaksCounted

\* A success closes issues and opens none.
LEMMA StillIssues ==
    ASSUME Status!TypeOK, NEW network, NEW dns
    PROVE  Status!StillOpen(network, dns) \in SUBSET Issues
           /\ Status!StillOpen(network, dns) \subseteq issues
BY StatusTyped DEF StatusTypes, Status!StillOpen

\* What a refresh concludes of the charger's absence.
LEMMA ConcludedTyped ==
    ASSUME NEW n \in 0..Confirmations, NEW status \in {"charger", "none", "unknown"},
           Status!Concluded(n, status)
    PROVE  absence' \in Absences
BY DEF Status!Concluded, Absences

\* An answer that names the charger keeps the invariant.
LEMMA ListedKeeps ==
    ASSUME Status!StatusInv, NEW status \in {"charger", "unknown"},
           NEW data \in {"charger", "none"}, Status!Listed(status, data)
    PROVE  Status!StatusInv'
<1>1. Status!TypeOK
  BY DEF Status!StatusInv
<1>2. poll' \in Refreshes /\ poll'.pc = "enriching" /\ backoff' \in BOOLEAN
      /\ errors' = Status!NoErrors /\ issues' = Status!StillOpen(FALSE, FALSE)
  BY SucceededMoves DEF Status!Listed
<1>3. published' \in Published
  <2>1. published \in Published
    BY <1>1, StatusTyped DEF StatusTypes
  <2> QED  BY <2>1 DEF Status!Listed, Published
<1>4. absence' \in Absences
  BY ConcludedTyped, StatusAssumption DEF Status!Listed
<1>5. run' \in Runs
  BY <1>1, RanOn DEF Status!Listed
<1> QED
  BY <1>1, <1>2, <1>3, <1>4, <1>5, StillIssues, NoStreak, AnswerKeeps DEF Status!Listed

\* So does a list without chargers, believed or not,
LEMMA EmptyKeeps ==
    ASSUME Status!StatusInv, Status!AnswerEmpty
    PROVE  Status!StatusInv'
<1> DEFINE count == Status!Up(absence.count, Confirmations)
           kept == Status!Preserved(count)
           last == IF "charger" \in {published.cache, published.data} THEN "charger" ELSE "none"
<1>1. Status!TypeOK
  BY DEF Status!StatusInv
<1>2. /\ Status!Answer /\ Status!Alone /\ UNCHANGED outage
      /\ Status!Succeeded(Status!NoErrors, Status!StillOpen(FALSE, FALSE),
                          IF kept THEN last ELSE "none", ~kept)
      /\ Status!Concluded(count, IF kept THEN "unknown" ELSE "none")
      /\ published' = IF kept THEN published
                      ELSE [published EXCEPT !.cache = "bare", !.recent = TRUE]
      /\ Status!Ran("other")
  BY DEF Status!AnswerEmpty
<1>3. kept \in BOOLEAN
  BY DEF Status!Preserved
<1>4. count \in 0..Confirmations
  <2>1. absence.count \in 0..Confirmations
    BY <1>1, StatusTyped DEF StatusTypes, Absences
  <2> QED  BY <2>1, StatusAssumption DEF Status!Up
<1> HIDE DEF kept, count
<1>5. poll' \in Refreshes /\ poll'.pc = "enriching" /\ backoff' \in BOOLEAN
      /\ errors' = Status!NoErrors /\ issues' = Status!StillOpen(FALSE, FALSE)
  <2>1. (IF kept THEN last ELSE "none") \in {"charger", "none"}
    OBVIOUS
  <2> HIDE DEF last
  <2> QED  BY <1>2, <1>3, <2>1, SucceededMoves
<1>6. published' \in Published
  <2>1. published \in Published
    BY <1>1, StatusTyped DEF StatusTypes
  <2> QED  BY <1>2, <2>1 DEF Published
<1>7. absence' \in Absences
  <2>1. (IF kept THEN "unknown" ELSE "none") \in {"charger", "none", "unknown"}
    OBVIOUS
  <2> QED  BY <1>2, <1>4, <2>1, ConcludedTyped
<1>8. run' \in Runs
  BY <1>1, <1>2, RanOn
<1> QED
  BY <1>1, <1>2, <1>5, <1>6, <1>7, <1>8, StillIssues, NoStreak, AnswerKeeps

\* and an answer that the endpoint is not available.
LEMMA UnavailableKeeps ==
    ASSUME Status!StatusInv, Status!AnswerUnavailable
    PROVE  Status!StatusInv'
<1>1. Status!TypeOK /\ published' \in Published
  BY StatusTyped DEF StatusTypes, Status!StatusInv, Status!AnswerUnavailable
<1>2. poll' \in Refreshes /\ poll'.pc = "enriching" /\ backoff' \in BOOLEAN
      /\ errors' = Status!NoErrors /\ issues' = Status!StillOpen(FALSE, FALSE)
  BY SucceededMoves, CachedSeen DEF Status!AnswerUnavailable
<1>3. absence' \in Absences
  BY ConcludedTyped, StatusAssumption DEF Status!AnswerUnavailable
<1>4. run' \in Runs
  BY <1>1, RanOn DEF Status!AnswerUnavailable
<1> QED
  BY <1>1, <1>2, <1>3, <1>4, StillIssues, NoStreak, AnswerKeeps DEF Status!AnswerUnavailable

\* An answer that is not valid keeps the invariant, and raises the cloud's issue only at the
\* second in a row.
LEMMA InvalidKeeps ==
    ASSUME Status!StatusInv, Status!AnswerInvalid
    PROVE  /\ Status!StatusInv'
           /\ "network" \notin issues' \ issues
           /\ "cloud" \in issues' \ issues => run'[1] = "invalid" /\ run'[2] >= 2
<1> DEFINE failed == [errors EXCEPT !.network = 0,
                                    !.payload = Status!Up(@, Status!OtherLimit)]
           open == issues \union (IF failed.payload >= 2 THEN {"cloud"} ELSE {})
<1>1. Status!TypeOK /\ Status!StreaksCounted /\ errors \in Counts /\ issues \in SUBSET Issues
      /\ run \in Runs
  BY StatusTyped DEF StatusTypes, Status!StatusInv
<1>2. /\ Status!Answer /\ Status!Alone /\ UNCHANGED <<published, outage>>
      /\ Status!Concluded(0, "unknown") /\ Status!Ran("invalid")
      /\ \/ Status!Succeeded(Status!NoErrors, Status!StillOpen(FALSE, FALSE),
                             Status!Cached, FALSE)
         \/ Status!Failed(failed, open)
  BY DEF Status!AnswerInvalid
<1>3. /\ failed \in Counts /\ failed.network = 0
      /\ failed.payload = Status!Up(errors.payload, 2)
      /\ errors.payload \in 0..3
  <2>1. failed = [errors EXCEPT !.network = 0, !.payload = Status!Up(errors.payload, 2)]
    BY DEF Status!OtherLimit
  <2> HIDE DEF failed
  <2> QED  BY <1>1, <2>1, InvalidCounts
<1>4. open \in SUBSET Issues /\ "network" \notin open \ issues
      /\ ("cloud" \in open \ issues => failed.payload >= 2)
  BY <1>1 DEF Issues
<1> HIDE DEF failed, open
<1>5. run' \in Runs /\ run'[1] = "invalid" /\ run'[2] >= 1 /\ run'[2] \in 0..3
      /\ (run[1] = "invalid" => run'[2] = Status!Up(run[2], 3) /\ run[2] \in 0..3)
  BY <1>1, <1>2, RanOn DEF Runs
<1>6. absence' \in Absences /\ published' \in Published
  BY <1>1, <1>2, ConcludedTyped, StatusTyped, StatusAssumption DEF StatusTypes
<1>7. failed.payload <= run'[2]
  <2>1. CASE errors.payload = 0
    BY <1>3, <1>5, <2>1 DEF Status!Up
  <2>2. CASE errors.payload > 0
    BY <1>1, <1>3, <1>5, <2>2 DEF Status!Up, Status!StreaksCounted
  <2> QED  BY <1>3, <2>1, <2>2
<1>8. CASE Status!Failed(failed, open)
  <2>1. poll' \in Refreshes /\ poll'.pc = "idle" /\ errors' = failed /\ issues' = open
        /\ backoff' \in BOOLEAN
    BY <1>8, FailedMoves
  <2>2. Status!StreaksCounted'
    BY <1>3, <1>5, <1>7, <2>1 DEF Status!StreaksCounted
  <2>3. Status!StatusInv'
    BY <1>2, <1>3, <1>4, <1>5, <1>6, <2>1, <2>2, AnswerKeeps
  <2> QED  BY <1>3, <1>4, <1>5, <1>7, <2>1, <2>3 DEF Counts
<1>9. CASE Status!Succeeded(Status!NoErrors, Status!StillOpen(FALSE, FALSE),
                            Status!Cached, FALSE)
  <2>1. poll' \in Refreshes /\ poll'.pc = "enriching" /\ backoff' \in BOOLEAN
        /\ errors' = Status!NoErrors /\ issues' = Status!StillOpen(FALSE, FALSE)
    BY <1>9, SucceededMoves, CachedSeen
  <2>2. Status!StatusInv'
    BY <1>1, <1>2, <1>5, <1>6, <2>1, StillIssues, NoStreak, AnswerKeeps
  <2> QED  BY <1>1, <2>1, <2>2, StillIssues
<1> QED  BY <1>2, <1>8, <1>9

\* The counts after an update of three of them.
LEMMA RecountedAll ==
    ASSUME NEW counts \in Counts, NEW n \in 0..3, NEW p \in 0..3, NEW d \in 0..3
    PROVE  [counts EXCEPT !.network = n, !.payload = p, !.dns = d] \in Counts
BY DEF Counts

\* The counts after a failed connection.
LEMMA NoConnectionCounts ==
    ASSUME errors \in Counts, NEW n, n = Status!Up(errors.network, 3), NEW d \in 0..3
    PROVE  LET failed == [errors EXCEPT !.network = n, !.payload = 0, !.dns = d]
           IN  /\ failed \in Counts /\ failed.network = n /\ failed.payload = 0
               /\ errors.network \in 0..3 /\ n \in 1..3
<1>1. errors.network \in 0..3 /\ 0 \in 0..3
  BY DEF Counts
<1>2. n \in 0..3 /\ n \in 1..3
  BY <1>1 DEF Status!Up
<1>3. [errors EXCEPT !.network = n, !.payload = 0, !.dns = d] \in Counts
  BY <1>1, <1>2, RecountedAll
<1>4. /\ [errors EXCEPT !.network = n, !.payload = 0, !.dns = d].network = n
      /\ [errors EXCEPT !.network = n, !.payload = 0, !.dns = d].payload = 0
  BY DEF Counts
<1> QED  BY <1>1, <1>2, <1>3, <1>4

\* The counts after a failed connection that the cached status hides.
LEMMA ClearedCounts ==
    ASSUME NEW failed \in Counts, NEW hidden \in BOOLEAN
    PROVE  /\ Status!Cleared(failed, TRUE, hidden) \in Counts
           /\ Status!Cleared(failed, TRUE, hidden).network = failed.network
           /\ Status!Cleared(failed, TRUE, hidden).payload = 0
BY DEF Status!Cleared, Counts

\* A failed connection keeps the invariant, and raises the connection's issue only at the
\* third in a row.
LEMMA NoConnectionKeeps ==
    ASSUME Status!StatusInv, NEW dns \in BOOLEAN, Status!AnswerNoConnection(dns)
    PROVE  /\ Status!StatusInv'
           /\ "network" \in issues' \ issues => run' = <<"network", 3>>
           /\ "cloud" \notin issues' \ issues
<1> DEFINE failed == [errors EXCEPT !.network = Status!Up(@, Status!NetworkLimit),
                                    !.payload = 0,
                                    !.dns = IF dns THEN Status!Up(@, Status!OtherLimit) ELSE @]
           unresolved == IF dns /\ failed.dns >= 2 THEN {"dns"} ELSE {}
           hidden == dns \/ failed.dns > 0 \/ "dns" \in issues
           unreachable == IF failed.network >= 3 THEN {"network"} ELSE {}
<1>1. Status!TypeOK /\ Status!StreaksCounted /\ errors \in Counts /\ issues \in SUBSET Issues
      /\ run \in Runs
  BY StatusTyped DEF Status!StatusInv, StatusTypes
<1>2. /\ Status!Answer /\ Status!Alone /\ UNCHANGED <<published, outage>>
      /\ Status!Concluded(0, "unknown") /\ Status!Ran("network")
      /\ \/ Status!Succeeded(Status!Cleared(failed, TRUE, hidden),
                             Status!StillOpen(TRUE, hidden) \union unresolved,
                             Status!Cached, FALSE)
         \/ Status!Failed(failed, issues \union unresolved \union unreachable)
  BY DEF Status!AnswerNoConnection
<1>3. /\ failed \in Counts /\ failed.payload = 0 /\ errors.network \in 0..3
      /\ failed.network = Status!Up(errors.network, 3) /\ failed.network \in 1..3
  <2> DEFINE n == Status!Up(errors.network, 3)
             d == IF dns THEN Status!Up(errors.dns, 2) ELSE errors.dns
  <2>1. failed = [errors EXCEPT !.network = n, !.payload = 0, !.dns = d]
    BY DEF Status!OtherLimit, Status!NetworkLimit
  <2>2. n = Status!Up(errors.network, 3) /\ d \in 0..3
    BY <1>1 DEF Counts, Status!Up
  <2> HIDE DEF failed, n, d
  <2>3. /\ [errors EXCEPT !.network = n, !.payload = 0, !.dns = d] \in Counts
        /\ [errors EXCEPT !.network = n, !.payload = 0, !.dns = d].network = n
        /\ [errors EXCEPT !.network = n, !.payload = 0, !.dns = d].payload = 0
        /\ errors.network \in 0..3 /\ n \in 1..3
    BY <1>1, <2>2, NoConnectionCounts
  <2> QED  BY <2>1, <2>2, <2>3
<1>4. hidden \in BOOLEAN /\ unresolved \in {{}, {"dns"}}
      /\ (failed.network >= 3 \/ unreachable = {}) /\ unreachable \subseteq {"network"}
  OBVIOUS
<1> HIDE DEF failed, unresolved, hidden, unreachable
<1>5. run' \in Runs /\ run'[1] = "network" /\ run'[2] >= 1 /\ run'[2] \in 0..3
      /\ (run[1] = "network" => run'[2] = Status!Up(run[2], 3) /\ run[2] \in 0..3)
  BY <1>1, <1>2, RanOn DEF Runs
<1>6. absence' \in Absences /\ published' \in Published
  BY <1>1, <1>2, ConcludedTyped, StatusTyped, StatusAssumption DEF StatusTypes
<1>7. failed.network <= run'[2]
  <2>1. CASE errors.network = 0
    BY <1>3, <1>5, <2>1 DEF Status!Up
  <2>2. CASE errors.network > 0
    BY <1>1, <1>3, <1>5, <2>2 DEF Status!Up, Status!StreaksCounted
  <2> QED  BY <1>3, <2>1, <2>2
<1>8. CASE Status!Failed(failed, issues \union unresolved \union unreachable)
  <2>1. poll' \in Refreshes /\ poll'.pc = "idle" /\ errors' = failed
        /\ issues' = issues \union unresolved \union unreachable /\ backoff' \in BOOLEAN
    BY <1>8, FailedMoves
  <2>2. Status!StreaksCounted'
    BY <1>3, <1>5, <1>7, <2>1 DEF Status!StreaksCounted
  <2>3. issues' \in SUBSET Issues
    BY <1>1, <1>4, <2>1 DEF Issues
  <2>4. Status!StatusInv'
    BY <1>2, <1>3, <1>5, <1>6, <2>1, <2>2, <2>3, AnswerKeeps
  <2>5. "network" \in issues' \ issues => failed.network >= 3
    BY <1>4, <2>1
  <2>6. run'[2] >= 3 => run' = <<"network", 3>>
    BY <1>5 DEF Runs
  <2>7. "cloud" \notin issues' \ issues
    BY <1>4, <2>1
  <2> QED  BY <1>3, <1>5, <1>7, <2>4, <2>5, <2>6, <2>7
<1>9. CASE Status!Succeeded(Status!Cleared(failed, TRUE, hidden),
                            Status!StillOpen(TRUE, hidden) \union unresolved,
                            Status!Cached, FALSE)
  <2>1. poll' \in Refreshes /\ poll'.pc = "enriching" /\ backoff' \in BOOLEAN
        /\ errors' = Status!Cleared(failed, TRUE, hidden)
        /\ issues' = Status!StillOpen(TRUE, hidden) \union unresolved
    BY <1>9, SucceededMoves, CachedSeen
  <2>2. errors' \in Counts /\ errors'.network = failed.network /\ errors'.payload = 0
    BY <1>3, <1>4, <2>1, ClearedCounts
  <2>3. Status!StreaksCounted'
    BY <1>3, <1>5, <1>7, <2>2 DEF Status!StreaksCounted
  <2>4. issues' \in SUBSET Issues /\ issues' \ issues \subseteq {"dns"}
    BY <1>1, <1>4, <2>1, StillIssues DEF Issues
  <2>5. Status!StatusInv'
    BY <1>2, <1>5, <1>6, <2>1, <2>2, <2>3, <2>4, AnswerKeeps
  <2> QED  BY <2>4, <2>5
<1> QED  BY <1>2, <1>8, <1>9

\* No streak, no issue about one.
Unreported == "network" \notin issues' \ issues /\ "cloud" \notin issues' \ issues

\* The counts after an answer that breaks both streaks.
LEMMA BrokenCounts ==
    ASSUME errors \in Counts
    PROVE  LET broken == [errors EXCEPT !.network = 0, !.payload = 0]
           IN  broken \in Counts /\ broken.network = 0 /\ broken.payload = 0
<1>1. 0 \in 0..3
  OBVIOUS
<1>2. [errors EXCEPT !.network = 0, !.payload = 0] \in Counts
  BY <1>1, Recounted
<1>3. /\ [errors EXCEPT !.network = 0, !.payload = 0].network = 0
      /\ [errors EXCEPT !.network = 0, !.payload = 0].payload = 0
  BY DEF Counts
<1> QED  BY <1>2, <1>3

\* Another refusal leaves the two streaks alone.
LEMMA RefusedCounts ==
    ASSUME NEW counts \in Counts
    PROVE  LET failed == [counts EXCEPT !.rate = Status!Up(@, Status!OtherLimit)]
           IN  /\ failed \in Counts /\ failed.network = counts.network
               /\ failed.payload = counts.payload
<1> DEFINE r == Status!Up(counts.rate, Status!OtherLimit)
<1>1. r \in 0..3
  BY DEF Counts, Status!Up, Status!OtherLimit
<1> HIDE DEF r
<1>2. [counts EXCEPT !.rate = r] \in Counts
  BY <1>1 DEF Counts
<1>3. /\ [counts EXCEPT !.rate = r].network = counts.network
      /\ [counts EXCEPT !.rate = r].payload = counts.payload
  BY DEF Counts
<1> QED  BY <1>2, <1>3 DEF r

\* A refusal keeps the invariant and raises neither issue.
LEMMA RefusedKeeps ==
    ASSUME Status!StatusInv, NEW limited \in BOOLEAN, Status!AnswerRefused(limited)
    PROVE  Status!StatusInv' /\ Unreported
<1> DEFINE broken == [errors EXCEPT !.network = 0, !.payload = 0]
           failed == IF limited
                     THEN [broken EXCEPT !.rate = Status!Up(@, Status!OtherLimit)] ELSE broken
           open == IF ~limited THEN issues \ {"cloud"}
                   ELSE IF failed.rate >= 2 THEN issues \union {"rate"} ELSE issues
<1>1. Status!TypeOK /\ errors \in Counts /\ issues \in SUBSET Issues
  BY StatusTyped DEF Status!StatusInv, StatusTypes
<1>2. /\ Status!Answer /\ Status!Alone /\ UNCHANGED <<published, outage>>
      /\ Status!Concluded(0, "unknown") /\ Status!Ran("other") /\ Status!Failed(failed, open)
  BY DEF Status!AnswerRefused
<1>3. broken \in Counts /\ broken.network = 0 /\ broken.payload = 0
  BY <1>1, BrokenCounts
<1>4. failed \in Counts /\ failed.network = 0 /\ failed.payload = 0
  <2> HIDE DEF broken
  <2>1. CASE limited
    BY <1>3, <2>1, RefusedCounts
  <2>2. CASE ~limited
    BY <1>3, <2>2
  <2> QED  BY <2>1, <2>2
<1>5. open \in SUBSET Issues /\ open \subseteq issues \union {"rate"}
  BY <1>1 DEF Issues
<1> HIDE DEF failed, open
<1>6. poll' \in Refreshes /\ poll'.pc = "idle" /\ errors' = failed /\ issues' = open
      /\ backoff' \in BOOLEAN
  BY <1>2, FailedMoves
<1>7. absence' \in Absences /\ published' \in Published
  BY <1>1, <1>2, ConcludedTyped, StatusTyped, StatusAssumption DEF StatusTypes
<1>8. run' \in Runs
  BY <1>1, <1>2, RanOn
<1>9. Status!StreaksCounted'
  BY <1>4, <1>6 DEF Status!StreaksCounted
<1>10. Status!StatusInv'
  BY <1>2, <1>4, <1>5, <1>6, <1>7, <1>8, <1>9, AnswerKeeps
<1> QED  BY <1>5, <1>6, <1>10 DEF Unreported

\* So does an answer that is handled elsewhere,
LEMMA ElsewhereKeeps ==
    ASSUME Status!StatusInv, Status!AnswerElsewhere
    PROVE  Status!StatusInv' /\ Unreported
<1>1. Status!TypeOK /\ StatusTypes
  BY StatusTyped DEF Status!StatusInv
<1>2. poll' \in Refreshes /\ poll'.pc = "idle"
  BY NewRuntime DEF Status!AnswerElsewhere
<1>3. absence' \in Absences
  BY ConcludedTyped, StatusAssumption DEF Status!AnswerElsewhere
<1>4. Status!StreaksCounted'
  BY DEF Status!StatusInv, Status!StreaksCounted, Status!AnswerElsewhere
<1>5. Status!StatusInv'
  BY <1>1, <1>2, <1>3, <1>4, AnswerKeeps DEF Status!AnswerElsewhere, StatusTypes
<1> QED  BY <1>5 DEF Unreported, Status!AnswerElsewhere

\* and a server error, with which an outage begins: the charger is not available at once.
LEMMA ServerErrorKeeps ==
    ASSUME Status!StatusInv, Status!AnswerServerError
    PROVE  Status!StatusInv' /\ Unreported
<1>1. Status!TypeOK /\ StatusTypes
  BY StatusTyped DEF Status!StatusInv
<1>2. errors' \in Counts /\ errors'.network = 0 /\ errors'.payload = 0
  BY <1>1, BrokenCounts DEF Status!AnswerServerError, StatusTypes
<1>3. run' \in Runs
  BY <1>1, RanOn DEF Status!AnswerServerError
<1>4. /\ poll' \in Refreshes /\ poll'.pc \in {"idle", "failing"} /\ health' \in Healths
      /\ absence' \in Absences /\ outage' \in BOOLEAN
      /\ \/ UNCHANGED <<outage, health>>
         \/ health' = [available |-> FALSE, cooldown |-> TRUE]
  <2>1. CASE active
    <3>1. poll' \in Refreshes /\ poll'.pc = "failing"
      BY <2>1, Awaiting DEF Status!AnswerServerError
    <3>2. health' = [available |-> FALSE, cooldown |-> TRUE] /\ outage' = TRUE
          /\ absence' = absence
      BY <2>1 DEF Status!AnswerServerError
    <3> QED  BY <1>1, <3>1, <3>2 DEF StatusTypes, Healths
  <2>2. CASE ~active
    BY <1>1, <2>2, NewRuntime, ConcludedTyped, StatusAssumption
    DEF Status!AnswerServerError, StatusTypes
  <2> QED  BY <2>1, <2>2
<1>5. Status!TypeOK'
  BY <1>1, <1>2, <1>3, <1>4, StatusTyped
  DEF Status!AnswerServerError, StatusTypes, Status!lifecycle, Status!store
<1>6. /\ Status!StoppedIsReplaced' /\ Status!OutageUnavailable'
      /\ Status!RecoveringIsFresh' /\ Status!DeadlineTimed'
  BY <1>4 DEF Status!StatusInv, Status!AnswerServerError, Status!lifecycle, Status!store,
              Status!StoppedIsReplaced, Status!OutageUnavailable,
              Status!RecoveringIsFresh, Status!DeadlineTimed
<1>7. Status!StreaksCounted'
  BY <1>2 DEF Status!StreaksCounted
<1> QED  BY <1>5, <1>6, <1>7 DEF Status!StatusInv, Unreported, Status!AnswerServerError

\* Actions that leave the health, its record and the counts alone.
LEMMA RefreshMoves ==
    ASSUME Status!StatusInv, UNCHANGED <<health, saved, unheard, errors, run, outage, inventory>>,
           poll' \in Refreshes,
           poll'.pc \in {"asking", "enriching", "recovering"} => ~health.cooldown,
           poll'.pc = "recovering" => poll'.fresh,
           backoff' \in BOOLEAN, issues' \subseteq issues \union {"status"},
           published' \in Published, absence' \in Absences, UNCHANGED Status!lifecycle
    PROVE  Status!StatusInv' /\ Unreported
<1>1. Status!TypeOK /\ StatusTypes
  BY StatusTyped DEF Status!StatusInv
<1>2. Status!TypeOK'
  BY <1>1, StatusTyped DEF StatusTypes, Issues, Status!lifecycle, Status!store
<1>3. /\ Status!StoppedIsReplaced' /\ Status!OutageUnavailable'
      /\ Status!RecoveringIsFresh' /\ Status!DeadlineTimed' /\ Status!StreaksCounted'
  BY DEF Status!StatusInv, Status!lifecycle, Status!store,
         Status!StoppedIsReplaced, Status!OutageUnavailable,
         Status!RecoveringIsFresh, Status!DeadlineTimed, Status!StreaksCounted
<1> QED  BY <1>2, <1>3 DEF Status!StatusInv, Unreported

\* What the start of the site-only pipeline leaves.
LEMMA SiteOnlyTyped ==
    ASSUME Status!TypeOK, Status!SiteOnly
    PROVE  /\ poll' \in Refreshes /\ poll'.pc = "siblings"
           /\ published' \in Published /\ absence' \in Absences
<1>1. poll' \in Refreshes /\ poll'.pc = "siblings"
  BY Awaiting DEF Status!SiteOnly
<1>2. published' \in Published
  BY StatusTyped DEF Status!SiteOnly, StatusTypes, Published
<1>3. absence' \in Absences
  BY ConcludedTyped, StatusAssumption DEF Status!SiteOnly
<1> QED  BY <1>1, <1>2, <1>3

\* The start of a refresh keeps the invariant: it asks only with no timer set.
LEMMA PollKeeps ==
    ASSUME Status!StatusInv, Status!Poll \/ Status!PollDegraded
    PROVE  Status!StatusInv' /\ Unreported
<1>1. Status!TypeOK /\ StatusTypes
  BY StatusTyped DEF Status!StatusInv
<1>2. CASE Status!Poll
  <2>1. poll' \in Refreshes /\ poll'.pc = "asking"
    BY <1>2, Awaiting DEF Status!Poll
  <2> QED
    BY <1>1, <1>2, <2>1, RefreshMoves DEF Status!Poll, StatusTypes, Status!around,
       Status!lifecycle, Status!store
<1>3. CASE Status!PollDegraded
  <2>1. poll' \in Refreshes /\ poll'.pc = "siblings" /\ published' \in Published
        /\ absence' \in Absences
    BY <1>1, <1>3, SiteOnlyTyped DEF Status!PollDegraded
  <2> QED
    BY <1>1, <1>3, <2>1, RefreshMoves DEF Status!PollDegraded, StatusTypes, Status!around,
       Status!lifecycle, Status!store
<1> QED  BY <1>2, <1>3

\* So does the end of the site-only pipeline.
LEMMA SiblingsKeep ==
    ASSUME Status!StatusInv, Status!SiblingsRead
    PROVE  Status!StatusInv' /\ Unreported
<1>1. Status!TypeOK /\ StatusTypes
  BY StatusTyped DEF Status!StatusInv
<1>2. poll' \in Refreshes /\ poll'.pc = "idle"
  BY NewRuntime DEF Status!SiblingsRead
<1> QED
  BY <1>1, <1>2, RefreshMoves DEF Status!SiblingsRead, StatusTypes, Status!around,
     Status!lifecycle, Status!store

\* The failure's save: the deadline is ahead only while its timer runs.
LEMMA FailureSavedKeeps ==
    ASSUME Status!StatusInv, Status!FailureSaved
    PROVE  Status!StatusInv' /\ Unreported
<1>1. Status!TypeOK /\ StatusTypes
  BY StatusTyped DEF Status!StatusInv
<1>2. /\ poll' \in Refreshes /\ poll'.pc \in {"idle", "siblings"}
      /\ published' \in Published /\ absence' \in Absences
      /\ issues' \in SUBSET Issues /\ issues' \subseteq issues \union {"status"}
  <2>1. CASE active
    <3>1. Status!SiteOnly /\ issues' = issues \union {"status"}
      BY <2>1 DEF Status!FailureSaved
    <3> QED  BY <1>1, <3>1, SiteOnlyTyped DEF StatusTypes, Issues
  <2>2. CASE ~active
    <3>1. poll' = Status!Idle /\ Status!Concluded(0, "unknown")
          /\ UNCHANGED <<published, issues>>
      BY <2>2 DEF Status!FailureSaved
    <3> QED  BY <1>1, <3>1, NewRuntime, ConcludedTyped, StatusAssumption DEF StatusTypes
  <2> QED  BY <1>1, <2>1, <2>2 DEF StatusTypes
<1>3. /\ saved' \in Status!Saved /\ unheard' \in BOOLEAN
      /\ saved' = "ahead" => health.cooldown \/ unheard'
  <2>1. CASE saved' = Status!Pending /\ unheard' = FALSE
    BY <2>1 DEF Status!FailureSaved, Status!Saved, Status!Pending, Status!Deadline
  <2>2. CASE UNCHANGED <<saved, unheard>>
    BY <1>1, <2>2 DEF StatusTypes, Status!StatusInv, Status!DeadlineTimed
  <2> QED  BY <2>1, <2>2 DEF Status!FailureSaved, Status!store
<1>4. Status!TypeOK'
  BY <1>1, <1>2, <1>3, StatusTyped
  DEF Status!FailureSaved, StatusTypes, Status!lifecycle, Status!store
<1>5. /\ Status!StoppedIsReplaced' /\ Status!OutageUnavailable'
      /\ Status!RecoveringIsFresh' /\ Status!DeadlineTimed' /\ Status!StreaksCounted'
  BY <1>2, <1>3 DEF Status!FailureSaved, Status!StatusInv, Status!lifecycle, Status!store,
         Status!StoppedIsReplaced, Status!OutageUnavailable,
         Status!RecoveringIsFresh, Status!DeadlineTimed, Status!StreaksCounted
<1> QED  BY <1>2, <1>4, <1>5 DEF Status!StatusInv, Unreported

\* What a refresh that is over has published.
LEMMA PublishedTyped ==
    ASSUME Status!TypeOK,
           Status!Publish \/ published' = [published EXCEPT !.first = FALSE]
    PROVE  published' \in Published
BY StatusTyped DEF StatusTypes, Status!Publish, Published, Refreshes

\* The end of a refresh with a status: only fresh data go on to recover.
LEMMA EnrichedKeeps ==
    ASSUME Status!StatusInv, Status!Enriched
    PROVE  Status!StatusInv' /\ Unreported
<1>1. Status!TypeOK /\ StatusTypes
  BY StatusTyped DEF Status!StatusInv
<1>2. poll.pc = "enriching" /\ ~health.cooldown /\ (saved = "ahead" => unheard)
  BY DEF Status!Enriched, Status!StatusInv, Status!DeadlineTimed
<1>3. /\ UNCHANGED <<active, restarts, late, inventory, absence, saved, unheard>>
      /\ UNCHANGED <<backoff, errors, run>>
  BY DEF Status!Enriched, Status!lifecycle, Status!store
<1>4. CASE active /\ poll.fresh /\ ~health.available
  <2>1. /\ poll' = [poll EXCEPT !.pc = "recovering"]
        /\ health' = [health EXCEPT !.cooldown = FALSE]
        /\ UNCHANGED <<published, outage, issues>>
    BY <1>4 DEF Status!Enriched, Status!Recovering
  <2>2. poll' \in Refreshes /\ poll'.pc = "recovering" /\ poll'.fresh
    BY <1>1, <1>4, <2>1 DEF StatusTypes, Refreshes
  <2>3. health' \in Healths /\ health'.available = health.available /\ ~health'.cooldown
    BY <1>1, <2>1 DEF StatusTypes, Healths
  <2>4. Status!TypeOK'
    BY <1>1, <1>3, <2>1, <2>2, <2>3, StatusTyped DEF StatusTypes
  <2>5. /\ Status!StoppedIsReplaced' /\ Status!OutageUnavailable'
        /\ Status!RecoveringIsFresh' /\ Status!DeadlineTimed' /\ Status!StreaksCounted'
    BY <1>2, <1>3, <2>1, <2>2, <2>3 DEF Status!StatusInv, Status!StoppedIsReplaced,
       Status!OutageUnavailable, Status!RecoveringIsFresh, Status!DeadlineTimed,
       Status!StreaksCounted
  <2> QED  BY <2>1, <2>4, <2>5 DEF Status!StatusInv, Unreported
<1>5. CASE ~(active /\ poll.fresh /\ ~health.available)
  <2>1. /\ poll' = Status!Idle /\ UNCHANGED health
        /\ issues' \in {issues, issues \ {"status"}}
        /\ Status!Publish \/ published' = [published EXCEPT !.first = FALSE]
        /\ outage' \in {outage, outage /\ ~poll.fresh}
    <3>1. CASE active
      BY <1>5, <3>1 DEF Status!Enriched, Status!Publish
    <3>2. CASE ~active
      BY <1>5, <3>2 DEF Status!Enriched
    <3> QED  BY <3>1, <3>2
  <2>2. published' \in Published
    BY <1>1, <2>1, PublishedTyped
  <2>3. poll' \in Refreshes /\ poll'.pc = "idle"
    BY <2>1, NewRuntime
  <2>4. outage' \in BOOLEAN /\ (outage' => outage)
    BY <1>1, <2>1 DEF StatusTypes
  <2>5. Status!TypeOK'
    BY <1>1, <1>3, <2>1, <2>2, <2>3, <2>4, StatusTyped DEF StatusTypes
  <2>6. /\ Status!StoppedIsReplaced' /\ Status!OutageUnavailable'
        /\ Status!RecoveringIsFresh' /\ Status!DeadlineTimed' /\ Status!StreaksCounted'
    BY <1>2, <1>3, <2>1, <2>3, <2>4 DEF Status!StatusInv, Status!StoppedIsReplaced,
       Status!OutageUnavailable, Status!RecoveringIsFresh, Status!DeadlineTimed,
       Status!StreaksCounted
  <2> QED  BY <2>1, <2>5, <2>6 DEF Status!StatusInv, Unreported
<1> QED  BY <1>4, <1>5

\* The end of a recovery: the charger is available with the data that are published.
LEMMA RecoverySavedKeeps ==
    ASSUME Status!StatusInv, Status!RecoverySaved
    PROVE  Status!StatusInv' /\ Unreported
<1>1. Status!TypeOK /\ StatusTypes
  BY StatusTyped DEF Status!StatusInv
<1>2. poll.pc = "recovering" /\ poll.fresh /\ (saved = "ahead" => unheard)
  BY DEF Status!RecoverySaved, Status!StatusInv, Status!DeadlineTimed,
         Status!RecoveringIsFresh
<1>3. /\ UNCHANGED <<active, restarts, late, inventory, absence, backoff, errors, run>>
      /\ poll' = Status!Idle
      /\ (saved' = "no" /\ unheard' = FALSE) \/ UNCHANGED <<saved, unheard>>
  BY DEF Status!RecoverySaved, Status!lifecycle, Status!store, Status!Pending
<1>4. poll' \in Refreshes /\ poll'.pc = "idle"
  BY <1>3, NewRuntime
<1>5. /\ issues' \in {issues, issues \ {"status"}}
      /\ Status!Publish \/ published' = [published EXCEPT !.first = FALSE]
      /\ \/ health' = [health EXCEPT !.available = TRUE] /\ outage' = FALSE
         \/ UNCHANGED <<health, outage>>
  <2>1. CASE active
    BY <1>2, <2>1 DEF Status!RecoverySaved, Status!Publish
  <2>2. CASE ~active
    BY <2>2 DEF Status!RecoverySaved
  <2> QED  BY <2>1, <2>2
<1>6. published' \in Published
  BY <1>1, <1>5, PublishedTyped
<1>7. /\ health' \in Healths /\ health'.cooldown = health.cooldown /\ outage' \in BOOLEAN
      /\ outage' => outage /\ health'.available = health.available
  <2>1. CASE health' = [health EXCEPT !.available = TRUE] /\ outage' = FALSE
    <3>1. [health EXCEPT !.available = TRUE] \in Healths
          /\ [health EXCEPT !.available = TRUE].cooldown = health.cooldown
      BY <1>1 DEF StatusTypes, Healths
    <3> QED  BY <2>1, <3>1
  <2>2. CASE UNCHANGED <<health, outage>>
    BY <1>1, <2>2 DEF StatusTypes
  <2> QED  BY <1>5, <2>1, <2>2
<1>8. saved' \in Status!Saved /\ unheard' \in BOOLEAN /\ (saved' = "ahead" => unheard')
  BY <1>1, <1>2, <1>3 DEF StatusTypes, Status!Saved
<1>9. Status!TypeOK'
  BY <1>1, <1>3, <1>4, <1>5, <1>6, <1>7, <1>8, StatusTyped DEF StatusTypes
<1>10. /\ Status!StoppedIsReplaced' /\ Status!OutageUnavailable'
       /\ Status!RecoveringIsFresh' /\ Status!DeadlineTimed' /\ Status!StreaksCounted'
  BY <1>3, <1>4, <1>7, <1>8 DEF Status!StatusInv, Status!StoppedIsReplaced,
     Status!OutageUnavailable, Status!RecoveringIsFresh, Status!DeadlineTimed,
     Status!StreaksCounted
<1> QED  BY <1>5, <1>9, <1>10 DEF Status!StatusInv, Unreported

\* What happens around the refreshes.
LEMMA AroundKeeps ==
    ASSUME Status!StatusInv,
           \/ Status!BackoffEnds \/ Status!CooldownEnds \/ Status!StatusAges
           \/ Status!InventoryRead \/ Status!Stop
    PROVE  Status!StatusInv' /\ Unreported
<1>1. Status!TypeOK /\ StatusTypes
  BY StatusTyped DEF Status!StatusInv
<1>2. CASE Status!BackoffEnds
  BY <1>1, <1>2, RefreshMoves DEF Status!BackoffEnds, StatusTypes, Status!around,
     Status!lifecycle, Status!store, Status!StatusInv, Status!DeadlineTimed,
     Status!RecoveringIsFresh
<1>3. CASE Status!StatusAges
  <2>1. published' \in Published
    BY <1>1, <1>3 DEF Status!StatusAges, StatusTypes, Published
  <2> QED
    BY <1>1, <1>3, <2>1, RefreshMoves DEF Status!StatusAges, StatusTypes, Status!around,
       Status!lifecycle, Status!store, Status!StatusInv, Status!DeadlineTimed,
     Status!RecoveringIsFresh
<1>4. CASE Status!CooldownEnds
  <2>1. /\ health' \in Healths /\ health'.available = health.available /\ ~health'.cooldown
    BY <1>1, <1>4 DEF Status!CooldownEnds, StatusTypes, Healths
  <2>2. saved' \in Status!Saved /\ (saved' = "ahead" => unheard)
    BY <1>1, <1>4 DEF Status!CooldownEnds, StatusTypes, Status!Saved
  <2>3. UNCHANGED <<active, poll, published, absence, backoff, errors, issues, inventory,
                    restarts, late, run, outage, unheard>>
    BY <1>4 DEF Status!CooldownEnds, Status!around
  <2>4. Status!TypeOK'
    BY <1>1, <2>1, <2>2, <2>3, StatusTyped DEF StatusTypes
  <2>5. /\ Status!StoppedIsReplaced' /\ Status!OutageUnavailable'
        /\ Status!RecoveringIsFresh' /\ Status!DeadlineTimed' /\ Status!StreaksCounted'
    BY <2>1, <2>2, <2>3 DEF Status!StatusInv, Status!StoppedIsReplaced,
       Status!OutageUnavailable, Status!RecoveringIsFresh, Status!DeadlineTimed,
       Status!StreaksCounted
  <2> QED  BY <2>3, <2>4, <2>5 DEF Status!StatusInv, Unreported
<1>5. CASE Status!InventoryRead \/ Status!Stop
  <2>1. /\ UNCHANGED <<poll, published, absence, health, saved, backoff, errors, issues,
                       restarts, late, run, outage, unheard>>
        /\ active' \in BOOLEAN /\ (~active' => restarts < MaxRestarts)
    BY <1>1, <1>5 DEF Status!InventoryRead, Status!Stop, Status!around,
       Status!lifecycle, Status!store,
       StatusTypes, Status!StatusInv, Status!StoppedIsReplaced
  <2>2. inventory' \in Status!Buckets
    BY <1>1, <1>5 DEF Status!InventoryRead, Status!Stop, Status!around, StatusTypes,
       Status!Buckets, Status!Kept
  <2>3. Status!TypeOK'
    BY <1>1, <2>1, <2>2, StatusTyped DEF StatusTypes
  <2>4. /\ Status!StoppedIsReplaced' /\ Status!OutageUnavailable'
        /\ Status!RecoveringIsFresh' /\ Status!DeadlineTimed' /\ Status!StreaksCounted'
    BY <2>1 DEF Status!StatusInv, Status!StoppedIsReplaced,
       Status!OutageUnavailable, Status!RecoveringIsFresh, Status!DeadlineTimed,
       Status!StreaksCounted
  <2> QED  BY <2>1, <2>3, <2>4 DEF Status!StatusInv, Unreported
<1> QED  BY <1>2, <1>3, <1>4, <1>5

\* The Store and the late saves keep their types, and a deadline that is ahead is known to
\* the runtime only with its timer.
StoreKept ==
    /\ late' \in Writes
    /\ saved' \in Status!Saved /\ unheard' \in BOOLEAN
    /\ saved' = "ahead" => health.cooldown \/ unheard'

\* What happens to a deadline, and to a save, that is not this runtime's.
LEMMA LateKeeps ==
    ASSUME Status!StatusInv,
           \/ Status!DeadlinePasses
           \/ \E n \in 0..MaxRestarts : Status!LatePasses(n) \/ Status!LateSaved(n)
    PROVE  Status!StatusInv' /\ Unreported
<1>1. Status!TypeOK /\ StatusTypes
  BY StatusTyped DEF Status!StatusInv
<1>2. UNCHANGED <<active, poll, published, absence, health, backoff, errors, issues,
                  inventory, restarts, run, outage>>
  BY DEF Status!DeadlinePasses, Status!LatePasses, Status!LateSaved, Status!around
<1>3. StoreKept
  <2>1. CASE Status!DeadlinePasses
    BY <1>1, <2>1 DEF StoreKept, Status!DeadlinePasses, Status!around, StatusTypes, Status!Saved
  <2>2. ASSUME NEW n \in 0..MaxRestarts, Status!LatePasses(n)
        PROVE  StoreKept
    <3>1. late' \in Writes
      BY <1>1, <2>2 DEF Status!LatePasses, StatusTypes, Writes
    <3> QED
      BY <1>1, <2>2, <3>1 DEF StoreKept, Status!LatePasses, Status!store, StatusTypes,
         Status!StatusInv, Status!DeadlineTimed
  <2>3. ASSUME NEW n \in 0..MaxRestarts, Status!LateSaved(n)
        PROVE  StoreKept
    <3>1. late' \in Writes /\ late[n] \in Status!Saved
      BY <1>1, <2>3 DEF Status!LateSaved, StatusTypes, Writes, Status!Saved
    <3>2. CASE saved' = late[n] /\ unheard' = (late[n] = "ahead")
      BY <3>1, <3>2 DEF StoreKept
    <3>3. CASE UNCHANGED <<saved, unheard>>
      BY <1>1, <3>1, <3>3 DEF StoreKept, StatusTypes, Status!StatusInv,
         Status!DeadlineTimed
    <3> QED  BY <2>3, <3>2, <3>3 DEF Status!LateSaved, Status!store
  <2> QED  BY <2>1, <2>2, <2>3
<1>4. Status!TypeOK'
  BY <1>1, <1>2, <1>3, StatusTyped DEF StoreKept, StatusTypes
<1>5. /\ Status!StoppedIsReplaced' /\ Status!OutageUnavailable'
      /\ Status!RecoveringIsFresh' /\ Status!DeadlineTimed' /\ Status!StreaksCounted'
  BY <1>2, <1>3 DEF StoreKept, Status!StatusInv, Status!StoppedIsReplaced,
     Status!OutageUnavailable, Status!RecoveringIsFresh, Status!DeadlineTimed,
     Status!StreaksCounted
<1> QED  BY <1>2, <1>4, <1>5 DEF Status!StatusInv, Unreported

\* A new runtime: an outage it is told of, and a deadline it knows, are in the Store it reads.
LEMMA StartKeeps ==
    ASSUME Status!StatusInv, restarts < MaxRestarts, NEW carried \in BOOLEAN,
           NEW read \in BOOLEAN, Status!Start(carried, read), issues' \subseteq issues,
           late' \in Writes
    PROVE  Status!StatusInv' /\ Unreported
<1>1. Status!TypeOK /\ StatusTypes
  BY StatusTyped DEF Status!StatusInv
<1>2. /\ restarts' = restarts + 1 /\ active' = TRUE /\ poll' = Status!Idle
      /\ absence' = Status!Unknown /\ backoff' = FALSE /\ errors' = Status!NoErrors
      /\ inventory' = "unready" /\ run' = <<"other", 0>> /\ saved' = saved
      /\ outage' = (carried /\ outage /\ read /\ saved # "no")
      /\ unheard' = (~read /\ saved = "ahead")
      /\ health' = [available |-> ~read \/ saved = "no",
                    cooldown |-> read /\ saved = "ahead"]
  BY DEF Status!Start, Status!Restored
<1>3. published' \in Published
  <2>1. published.data \in {"charger", "none"}
    BY <1>1 DEF StatusTypes, Published
  <2>2. [Status!Nothing EXCEPT !.data = published.data, !.first = FALSE] \in Published
    BY <2>1 DEF Status!Nothing, Published
  <2> QED  BY <2>2, NewRuntime DEF Status!Start
<1>4. restarts' \in 0..MaxRestarts
  BY <1>1, <1>2, StatusAssumption DEF StatusTypes
<1>5. inventory' \in Status!Buckets /\ health' \in Healths /\ outage' \in BOOLEAN
      /\ unheard' \in BOOLEAN /\ issues' \in SUBSET Issues
  BY <1>1, <1>2 DEF StatusTypes, Status!Buckets, Healths
<1>6. Status!TypeOK'
  BY <1>1, <1>2, <1>3, <1>4, <1>5, NewRuntime, StatusTyped DEF StatusTypes
<1>7. /\ Status!StoppedIsReplaced' /\ Status!RecoveringIsFresh' /\ Status!StreaksCounted'
  BY <1>2, NewRuntime DEF Status!StoppedIsReplaced, Status!RecoveringIsFresh,
     Status!StreaksCounted
<1>8. Status!OutageUnavailable' /\ Status!DeadlineTimed'
  BY <1>2, NewRuntime DEF Status!OutageUnavailable, Status!DeadlineTimed
<1> QED  BY <1>6, <1>7, <1>8 DEF Status!StatusInv, Unreported

\* A reload and a crash keep the invariant.
LEMMA RestartKeeps ==
    ASSUME Status!StatusInv, Status!Reload \/ Status!Crash
    PROVE  Status!StatusInv' /\ Unreported
<1>1. Status!TypeOK /\ StatusTypes
  BY StatusTyped DEF Status!StatusInv
<1>2. restarts < MaxRestarts
  BY DEF Status!Reload, Status!Crash, Status!StatusInv, Status!StoppedIsReplaced
<1>3. late' \in Writes
  <2>1. Status!Pending \in {"no", "ahead", "over", "none"}
    BY DEF Status!Pending, Status!Deadline
  <2>2. CASE late' = [late EXCEPT ![restarts] = Status!Pending]
    BY <1>1, <2>1, <2>2 DEF StatusTypes, Writes
  <2> QED  BY <2>2, NewRuntime DEF Status!Reload, Status!Crash
<1>4. /\ issues' \subseteq issues
      /\ \E carried, read \in BOOLEAN : Status!Start(carried, read)
  BY DEF Status!Reload, Status!Crash
<1> QED  BY <1>2, <1>3, <1>4, StartKeeps

\* Every step keeps the invariant, and raises an issue only from an unbroken streak.
LEMMA StatusNext ==
    ASSUME Status!StatusInv, [Status!Next]_(Status!vars)
    PROVE  /\ Status!StatusInv'
           /\ "network" \in issues' \ issues => run' = <<"network", 3>>
           /\ "cloud" \in issues' \ issues => run'[1] = "invalid" /\ run'[2] >= 2
<1>1. CASE Status!AnswerListed \/ Status!AnswerMalformed \/ Status!AnswerEmpty
           \/ Status!AnswerUnavailable
  <2>1. Status!StatusInv'
    BY <1>1, ListedKeeps, EmptyKeeps, UnavailableKeeps
    DEF Status!AnswerListed, Status!AnswerMalformed, Status!Seen
  <2>2. Unreported
    BY <1>1, StillIssues DEF Status!AnswerListed, Status!AnswerMalformed, Status!Listed,
       Status!AnswerEmpty, Status!AnswerUnavailable, Status!Succeeded, Unreported,
       Status!StatusInv
  <2> QED  BY <2>1, <2>2 DEF Unreported
<1>2. CASE Status!AnswerInvalid
  BY <1>2, InvalidKeeps
<1>3. CASE \E dns \in BOOLEAN : Status!AnswerNoConnection(dns)
  BY <1>3, NoConnectionKeeps
<1>4. CASE \/ \E limited \in BOOLEAN : Status!AnswerRefused(limited)
           \/ Status!AnswerElsewhere \/ Status!AnswerServerError
  BY <1>4, RefusedKeeps, ElsewhereKeeps, ServerErrorKeeps DEF Unreported
<1>5. CASE \/ Status!FailureSaved \/ Status!SiblingsRead \/ Status!Enriched
           \/ Status!RecoverySaved
  BY <1>5, FailureSavedKeeps, SiblingsKeep, EnrichedKeeps, RecoverySavedKeeps DEF Unreported
<1>6. CASE Status!Poll \/ Status!PollDegraded
  BY <1>6, PollKeeps DEF Unreported
<1>7. CASE \/ Status!BackoffEnds \/ Status!CooldownEnds \/ Status!StatusAges
           \/ Status!InventoryRead \/ Status!Stop
  BY <1>7, AroundKeeps DEF Unreported
<1>8. CASE Status!Reload \/ Status!Crash
  BY <1>8, RestartKeeps DEF Unreported
<1>9. CASE \/ Status!DeadlinePasses
           \/ \E n \in 0..MaxRestarts : Status!LatePasses(n) \/ Status!LateSaved(n)
  BY <1>9, LateKeeps DEF Unreported
<1>10. CASE UNCHANGED Status!vars
  <2>1. Status!TypeOK /\ StatusTypes
    BY StatusTyped DEF Status!StatusInv
  <2>2. Status!TypeOK'
    BY <1>10, <2>1, StatusTyped DEF StatusTypes, Status!vars, Status!around
  <2> QED
    BY <1>10, <2>2 DEF Status!vars, Status!around, Status!StatusInv,
       Status!StoppedIsReplaced, Status!OutageUnavailable, Status!RecoveringIsFresh,
       Status!DeadlineTimed, Status!StreaksCounted
<1> QED
  BY <1>1, <1>2, <1>3, <1>4, <1>5, <1>6, <1>7, <1>8, <1>9, <1>10
  DEF Status!Next, Status!Progress, Status!Answered

-----------------------------------------------------------------------------
\* What every reachable state of the refreshes satisfies: the typing and the conjuncts
\* from which the promises follow.
THEOREM StatusInvariant == Status!Spec => []Status!StatusInv
<1>1. Status!Init => Status!StatusInv
  BY StatusInitInv
<1>2. Status!StatusInv /\ [Status!Next]_(Status!vars) => Status!StatusInv'
  BY StatusNext
<1> QED  BY <1>1, <1>2, PTL DEF Status!Spec

\* Every reachable state of the refreshes is well typed.
THEOREM StatusTyping == Status!Spec => []Status!TypeOK
<1>1. Status!StatusInv => Status!TypeOK
  BY DEF Status!StatusInv
<1> QED  BY <1>1, StatusInvariant, PTL

\* A charger that is available is not published with data from before a server error that
\* its runtime has met, or has read of in the Store.
THEOREM OutagesEndWithFreshData ==
    Status!Spec => []OutageEndsWithFreshData
<1>1. Status!StatusInv => OutageEndsWithFreshData
  BY DEF Status!StatusInv, Status!OutageUnavailable, OutageEndsWithFreshData
<1> QED  BY <1>1, StatusInvariant, PTL

\* The endpoint is not asked while the Store has a deadline that is ahead and that the
\* runtime wrote or read, whatever was stopped, reloaded or killed since it was saved.
THEOREM DeadlinesSurvive ==
    Status!Spec => []DeadlineSurvives
<1>1. Status!StatusInv => DeadlineSurvives
  BY DEF Status!StatusInv, Status!DeadlineTimed, DeadlineSurvives
<1> QED  BY <1>1, StatusInvariant, PTL

\* The issues about the connection and about the answers are raised by streaks that
\* no answer the refresh counts has broken.
THEOREM StreaksReported ==
    Status!Spec => StreakReported
<1>1. Status!StatusInv /\ [Status!Next]_(Status!vars)
      => [/\ "network" \in issues' \ issues => run' = <<"network", Longest>>
          /\ "cloud" \in issues' \ issues => run'[1] = "invalid" /\ run'[2] >= 2]_(Status!vars)
  BY StatusNext DEF Longest
<1>2. [/\ "network" \in issues' \ issues => run' = <<"network", Longest>>
       /\ "cloud" \in issues' \ issues => run'[1] = "invalid" /\ run'[2] >= 2]_(Status!vars)
      => [/\ "network" \in issues' \ issues => run' = <<"network", Longest>>
          /\ "cloud" \in issues' \ issues => run'[1] = "invalid" /\ run'[2] >= 2]_<<issues, run>>
  BY DEF Status!vars
<1> QED  BY <1>1, <1>2, StatusInvariant, PTL DEF Status!Spec, StreakReported
=============================================================================
