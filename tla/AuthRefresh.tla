----------------------------- MODULE AuthRefresh -----------------------------
(***************************************************************************)
(* Renewing the Enlighten session with the stored password                 *)
(* (auth_refresh_runtime.py and the coordinator's authentication state).   *)
(* A request that is answered with 401 or the login wall calls             *)
(* attempt_auto_refresh, the user's service call attempt_manual_refresh;   *)
(* all of them share one login task, which they await shielded.  What the  *)
(* provider answers decides what comes next: rejected logins start a       *)
(* cooldown and, after a number in a row, a suspension; too many sessions, *)
(* or a login wall during the cooldown, start a block.  Suspension and     *)
(* block are kept in the config entry and survive a restart.               *)
(*                                                                         *)
(* A deadline is "none", "running" or "over": the clock is abstracted, any *)
(* running deadline may pass, and one that has passed stays set until the  *)
(* code looks at it.  The password is stored throughout: without it every  *)
(* call returns at once.  Calls of a runtime that was unloaded end with it.*)
(***************************************************************************)
EXTENDS Naturals

CONSTANTS
    Automatic,   \* concurrent calls of attempt_auto_refresh
    Manual,      \* concurrent calls of attempt_manual_refresh
    Threshold    \* AUTH_REFRESH_REJECTED_SUSPEND_THRESHOLD

ASSUME ConstantsAssumption ==
    /\ Automatic \intersect Manual = {}
    /\ Threshold \in Nat \ {0, 1}

Callers == Automatic \union Manual
Deadlines == {"none", "running", "over"}

VARIABLES
    state,     \* AuthRefreshState: the streak of rejections, the deadlines, and
               \* whether a login succeeded within the reuse window (recent)
    entry,     \* the deadlines the config entry keeps
    asking,    \* _auth_refresh_task is set and not done: a login is in flight
    call,      \* what each caller is doing
    refresh,   \* the streak when the refresh pipeline under way started
    sentence   \* history: the bars the provider's answers have put up, until
               \* their time is over or a login succeeds

vars == <<state, entry, asking, call, refresh, sentence>>

-----------------------------------------------------------------------------
\* The streak is capped at Threshold: it is compared with Threshold, and with an
\* earlier streak only when no suspension is set.
NoBars == [suspended |-> "none", blocked |-> "none"]
NotRefreshing == Threshold + 1

\* Mutant of Restored: the block is not read.
RestoredUnblocked(kept) ==
    [streak |-> 0, rejected |-> "none", manual |-> "none", recent |-> FALSE,
     suspended |-> kept.suspended, blocked |-> "none"]

\* A new coordinator, with what the config entry kept.
Restored(kept) ==
    [streak |-> 0, rejected |-> "none", manual |-> "none", recent |-> FALSE,
     suspended |-> kept.suspended, blocked |-> kept.blocked]

\* What persisting writes.
Kept(s) == [suspended |-> s.suspended, blocked |-> s.blocked]

Forgiven(s) == [s EXCEPT !.streak = 0, !.rejected = "none"]

\* Looking at a deadline that is over clears it, and what goes with it.
NoticeBlock(s) == IF s.blocked = "over" THEN [s EXCEPT !.blocked = "none"] ELSE s
NoticeRejection(s) == IF s.rejected = "over" THEN [s EXCEPT !.rejected = "none"] ELSE s
NoticeManual(s) == IF s.manual = "over" THEN [s EXCEPT !.manual = "none"] ELSE s

\* Mutant of NoticeSuspension: the streak stays.
NoticeSuspensionOnly(s) ==
    IF s.suspended = "over" THEN [s EXCEPT !.suspended = "none"] ELSE s
NoticeSuspension(s) ==
    IF s.suspended = "over" THEN [Forgiven(s) EXCEPT !.suspended = "none"] ELSE s

Init ==
    /\ entry = NoBars
    /\ state = Restored(NoBars)
    /\ asking = FALSE
    /\ call = [c \in Callers |-> "idle"]
    /\ refresh = NotRefreshing
    /\ sentence = {}

-----------------------------------------------------------------------------
\* Changes of the state are persisted in the step that makes them.
Become(s) == state' = s /\ entry' = Kept(s)

\* Mutant of AskOrJoin: it awaits a task that is done.
AskOrJoinDone(c) ==
    /\ asking' = asking
    /\ call' = [call EXCEPT ![c] = "waiting"]

\* The caller awaits the login in flight, or starts one.
AskOrJoin(c) ==
    /\ asking' = TRUE
    /\ call' = [call EXCEPT ![c] = "waiting"]

\* Mutant of Barred: only the block counts.
BarredByBlock(s) == s.blocked = "running"
Barred(s) == "running" \in {s.blocked, s.suspended}

\* attempt_auto_refresh: it looks at the block, the suspension, the reuse window
\* and the cooldown in this order, and returns at the first that decides.
AutomaticAttempt(c) ==
    LET s1 == NoticeBlock(state)
        s2 == IF s1.blocked = "running" THEN s1 ELSE NoticeSuspension(s1)
        s3 == NoticeRejection(s2)
        decided == Barred(s2) \/ s2.recent
    IN  /\ call[c] = "idle"
        /\ IF decided THEN Become(s2) ELSE Become(s3)
        /\ IF decided \/ s3.rejected = "running" THEN UNCHANGED <<asking, call>>
           ELSE AskOrJoin(c)
        /\ UNCHANGED <<refresh, sentence>>

\* attempt_manual_refresh: only its own cooldown stops it, and a recent success
\* is enough while nothing is barred, the heat pump service (hems) included.
ManualAttempt(c, hems) ==
    LET s1 == NoticeManual(state)
        s2 == IF s1.recent THEN NoticeBlock(s1) ELSE s1
        s3 == IF s1.recent /\ s2.blocked = "none" THEN NoticeSuspension(s2) ELSE s2
    IN  /\ call[c] = "idle"
        /\ \/ /\ s1.manual = "running"
              /\ Become(s1)
              /\ UNCHANGED <<asking, call>>
           \/ /\ s1.manual = "none" /\ s3.recent /\ ~Barred(s3) /\ ~hems
              /\ Become(Forgiven(s3))
              /\ UNCHANGED <<asking, call>>
           \/ /\ s1.manual = "none" /\ (~s3.recent \/ Barred(s3) \/ hems)
              /\ Become(s3)
              /\ AskOrJoin(c)
        /\ UNCHANGED <<refresh, sentence>>

\* note_auth_refresh_rejected: a cooldown, or the suspension.
Rejected(s) ==
    LET streak == IF s.streak < Threshold THEN s.streak + 1 ELSE Threshold
        next == [s EXCEPT !.streak = streak, !.recent = FALSE]
    IN  IF streak = Threshold
        THEN [next EXCEPT !.rejected = "none", !.suspended = "running"]
        ELSE [next EXCEPT !.rejected = "running"]

\* The task is done; its waiters are woken in the same turn of the event loop,
\* so none of an earlier login is left.
Done(granted) ==
    /\ asking
    /\ \A c \in Callers : call[c] \in {"idle", "waiting"}
    /\ asking' = FALSE
    /\ call' = [c \in Callers |->
                  IF call[c] # "waiting" THEN call[c]
                  ELSE IF granted THEN "granted" ELSE "denied"]
    /\ UNCHANGED refresh

LoginSucceeds ==
    /\ Done(TRUE)
    /\ Become([Restored(NoBars) EXCEPT !.recent = TRUE])
    /\ sentence' = {}

\* Invalid credentials, or a second factor is needed.
LoginRejected ==
    /\ Done(FALSE)
    /\ Become(Rejected(state))
    /\ sentence' = IF state.streak + 1 >= Threshold THEN sentence \union {"suspended"}
                   ELSE sentence

Blocked(s) == [s EXCEPT !.blocked = "running"]

TooManySessions ==
    /\ Done(FALSE)
    /\ Become(Blocked(state))
    /\ sentence' = sentence \union {"blocked"}

\* The service is unavailable, or something unexpected happened.
LoginFails ==
    /\ Done(FALSE)
    /\ UNCHANGED <<state, entry, sentence>>

\* A waiter goes on: _await_manual_refresh_task, or _handle_client_unauthorized
\* back in the request that was answered with 401.
Return(c) ==
    /\ call[c] \in {"granted", "denied"}
    /\ call' = [call EXCEPT ![c] = "idle"]
    /\ Become(IF c \in Manual
              THEN [state EXCEPT !.manual = IF call[c] = "granted" THEN "none" ELSE "running"]
              ELSE IF call[c] = "granted" THEN state ELSE NoticeBlock(state))
    /\ UNCHANGED <<asking, refresh, sentence>>

\* A waiter is cancelled; the login is shielded.
Cancel(c) ==
    /\ call[c] # "idle"
    /\ call' = [call EXCEPT ![c] = "idle"]
    /\ UNCHANGED <<state, entry, asking, refresh, sentence>>

\* A login wall while the cooldown of a rejection lasts: _activate_auth_block_
\* from_login_wall.
LoginWall ==
    LET s1 == NoticeRejection(state)
        s2 == NoticeBlock(s1)
    IN  /\ IF s1.rejected = "running" /\ s2.blocked = "none"
           THEN Become(Blocked(s2)) /\ sentence' = sentence \union {"blocked"}
           ELSE Become(IF s1.rejected = "running" THEN s2 ELSE s1) /\ UNCHANGED sentence
        /\ UNCHANGED <<asking, call, refresh>>

\* The refresh pipeline: nothing is requested during a block; a refresh that
\* succeeds forgives the rejections, unless their number has changed.
StartRefresh ==
    /\ refresh = NotRefreshing
    /\ Become(NoticeBlock(state))
    /\ refresh' = IF state.blocked = "running" THEN refresh ELSE state.streak
    /\ UNCHANGED <<asking, call, sentence>>

FinishRefresh(succeeds) ==
    LET s == NoticeSuspension(state)
    IN  /\ refresh # NotRefreshing
        /\ Become(IF ~succeeds THEN state
                  ELSE IF s.suspended = "none" /\ s.streak = refresh THEN Forgiven(s)
                  ELSE s)
        /\ refresh' = NotRefreshing
        /\ UNCHANGED <<asking, call, sentence>>

\* Unload and setup: the task is cancelled, the state starts anew.
Reload ==
    /\ state' = Restored(entry)
    /\ asking' = FALSE
    /\ call' = [c \in Callers |-> "idle"]
    /\ refresh' = NotRefreshing
    /\ UNCHANGED <<entry, sentence>>

\* Time passes.
LapseBar(bar) ==
    /\ entry[bar] = "running" \/ state[bar] = "running"
    /\ entry' = [entry EXCEPT ![bar] = IF @ = "running" THEN "over" ELSE @]
    /\ state' = [state EXCEPT ![bar] = IF @ = "running" THEN "over" ELSE @]
    /\ sentence' = sentence \ {bar}
    /\ UNCHANGED <<asking, call, refresh>>

Lapse ==
    /\ \/ state.rejected = "running" /\ state' = [state EXCEPT !.rejected = "over"]
       \/ state.manual = "running" /\ state' = [state EXCEPT !.manual = "over"]
       \/ state.recent /\ state' = [state EXCEPT !.recent = FALSE]
    /\ UNCHANGED <<entry, asking, call, refresh, sentence>>

Next ==
    \/ \E c \in Automatic : AutomaticAttempt(c)
    \/ \E c \in Manual, hems \in BOOLEAN : ManualAttempt(c, hems)
    \/ LoginSucceeds \/ LoginRejected \/ TooManySessions \/ LoginFails
    \/ \E c \in Callers : Return(c) \/ Cancel(c)
    \/ LoginWall
    \/ StartRefresh
    \/ \E succeeds \in BOOLEAN : FinishRefresh(succeeds)
    \/ Reload
    \/ \E bar \in DOMAIN NoBars : LapseBar(bar)
    \/ Lapse

Spec == Init /\ [][Next]_vars

\* A login ends (its requests are bounded by timeouts) and a woken caller runs.
Fairness ==
    /\ WF_vars(LoginSucceeds \/ LoginRejected \/ TooManySessions \/ LoginFails)
    /\ \A c \in Callers : WF_vars(Return(c))

FairSpec == Spec /\ Fairness

-----------------------------------------------------------------------------
TypeOK ==
    /\ state \in [streak : 0..Threshold, recent : BOOLEAN, rejected : Deadlines,
                  manual : Deadlines, suspended : Deadlines, blocked : Deadlines]
    /\ entry \in [suspended : Deadlines, blocked : Deadlines]
    /\ asking \in BOOLEAN
    /\ call \in [Callers -> {"idle", "waiting", "granted", "denied"}]
    /\ refresh \in 0..NotRefreshing
    /\ sentence \subseteq {"suspended", "blocked"}

\* A suspension or a block the provider's answers have caused is in force for its
\* whole time, through reloads, through refreshes and manual logins that do not
\* succeed; and what is in force is what a restart would find in the entry.
BarsRemembered ==
    /\ entry = Kept(state)
    /\ sentence = {bar \in DOMAIN NoBars : state[bar] = "running"}

\* The streak of rejections agrees with its consequences, through the lazy
\* clearing of deadlines: the last rejection of a streak suspends, the earlier
\* ones cool down, and no cooldown outlives the streak.
StreakExplained ==
    /\ state.streak = Threshold => state.suspended # "none"
    /\ state.rejected # "none" => state.streak \in 1..Threshold - 1

\* No automatic login starts during a suspension or a block; only the user's may.
AutomaticLoginBarred ==
    [][\A c \in Automatic :
          call[c] = "idle" /\ call'[c] = "waiting" /\ ~asking => sentence = {}]_vars

\* Every call returns, although others are cancelled and the login is shared.
CallsReturn == \A c \in Callers : call[c] # "idle" ~> call[c] = "idle"
=============================================================================
