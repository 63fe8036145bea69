---------------------------- MODULE BatteryProfile ----------------------------
(***************************************************************************)
(* The battery profile and its reserve (battery_runtime.py).  A write the  *)
(* cloud has accepted makes a request pending and starts a new generation  *)
(* of reads: what older reads still answer is dropped.  Three endpoints    *)
(* are read concurrently with the writes: the configured profile, the      *)
(* settings, and the status, whose live profile comes from the hardware.   *)
(* A profile stuck between configured and live is recovered by a nudge of  *)
(* the reserve, undone by a task after a delay; a lasting disagreement     *)
(* raises a repair whose dialogue writes the live profile once more; an    *)
(* overdue request raises one whose dialogue cancels the request.          *)
(*                                                                         *)
(* The sub-type of the savings profiles is read, compared and restored     *)
(* wherever the reserve is, and left out.  Ages are flags that time sets.  *)
(***************************************************************************)
EXTENDS Integers, FiniteSets

CONSTANTS
    Profiles,        \* keys of the system profiles
    FullBackup,      \* the profile whose reserve is fixed
    Reserves,        \* backup percentages
    Full,            \* 100
    Reads,           \* reads that may be in flight together
    None,            \* an absent value
    MaxWrites,       \* bound: accepted writes
    MaxMismatches    \* bound: disagreements reported

ASSUME ProfilesAssumption ==
    /\ FullBackup \in Profiles
    /\ Full \in Reserves
    /\ None \notin Profiles \union Reserves
    /\ MaxWrites \in Nat
    /\ MaxMismatches \in Nat

\* user: the tracked commands of the group battery_profile, of which one is
\* submitting at a time (ControlUpdates); repair: the dialogue that cancels a
\* request; restore: the task that undoes a nudge.
Callers == {"user", "repair", "restore"}
Requests == [id : 1..MaxWrites, profile : Profiles, reserve : Reserves, exact : BOOLEAN]

ASSUME NoneAssumption == None \notin Requests \union Callers \union (0..MaxWrites)

VARIABLES
    running,     \* coord.runtime_active
    profile,     \* _battery_profile, the configured one
    reserve,     \* _battery_backup_percentage
    live,        \* _battery_live_profile
    liveSince,   \* ... sampled since the pending request
    fresh,       \* a profile read was accepted within the cache's lifetime
    seenSince,   \* ... or since the pending request
    pending,     \* _battery_pending_*
    aged,        \* the request is BATTERY_PROFILE_PENDING_TIMEOUT_S old
    optimistic,  \* _battery_optimistic_profile, until it expires
    generation,  \* _battery_profile_read_generation
    issue,       \* the repair for an overdue request is raised
    lock,        \* holder of _battery_profile_write_lock
    mismatch,    \* identity of the reported disagreement, 0 if there is none
    identities,  \* identities handed out
    call,        \* what each caller is doing
    read,        \* the generation each read in flight has noted
    shown        \* history: a read begun since the request reported its profile

readback == <<profile, reserve, live, liveSince, fresh, seenSince>>
request == <<pending, aged, optimistic, issue>>
vars == <<running, readback, request, generation, lock, mismatch,
          identities, call, read, shown>>

-----------------------------------------------------------------------------
\* op: profile or reserve (the endpoint written), retry, cancel; restore: the
\* reserve to go back to after a nudge; expect: the request, or the
\* disagreement, a dialogue was opened for.
Idle == [pc |-> "idle", op |-> "profile", profile |-> FullBackup, reserve |-> Full,
         exact |-> FALSE, restore |-> None, expect |-> 0]

\* normalize_battery_reserve_for_profile
Normalized(p, r) == IF p = FullBackup THEN Full ELSE r

\* effective_profile_matches_pending
EffectiveMatches(q, p, r, l) ==
    /\ q.profile \in {p, l}
    /\ q.exact => r = q.reserve

\* Mutant of Received: a profile the reads showed before will do.
ReceivedEver(q, p, l, lSince, sSince) == q.profile \in {p, l}
\* _pending_authoritative_confirmation_received
Received(q, p, l, lSince, sSince) ==
    \/ l = q.profile /\ lSince
    \/ p = q.profile /\ sSince

-----------------------------------------------------------------------------
Init ==
    /\ running = TRUE
    /\ profile = None /\ reserve = None /\ live = None
    /\ liveSince = FALSE /\ fresh = FALSE /\ seenSince = FALSE
    /\ pending = None /\ aged = FALSE /\ optimistic = None /\ issue = FALSE
    /\ generation = 0
    /\ lock = None
    /\ mismatch = 0
    /\ identities = 0
    /\ call = [c \in Callers |-> Idle]
    /\ read = [x \in Reads |-> None]
    /\ shown = FALSE

\* clear_battery_pending
ClearPending ==
    /\ pending' = None
    /\ optimistic' = None
    /\ aged' = FALSE
    /\ issue' = FALSE
    /\ liveSince' = FALSE
    /\ seenSince' = FALSE

\* set_battery_pending
SetPending(p, r, exact) ==
    /\ generation' = generation + 1
    /\ pending' = [id |-> generation + 1, profile |-> p, reserve |-> r, exact |-> exact]
    /\ optimistic' = p
    /\ aged' = FALSE
    /\ issue' = FALSE
    /\ liveSince' = FALSE
    /\ seenSince' = FALSE
    /\ mismatch' = 0
    /\ shown' = FALSE

\* The end of every parse: with p, r, l and their flags read, the request is
\* confirmed (confirm_battery_pending), or stays as it is.
Settle(p, r, l, lSince, sSince) ==
    /\ live' = l
    /\ IF /\ pending # None
          /\ EffectiveMatches(pending, p, r, l)
          /\ Received(pending, p, l, lSince, sSince)
       THEN /\ profile' = pending.profile
            /\ reserve' = pending.reserve
            /\ ClearPending
       ELSE /\ profile' = p
            /\ reserve' = r
            /\ liveSince' = (lSince /\ pending # None)
            /\ seenSince' = (sSince /\ pending # None)
            /\ UNCHANGED request

-----------------------------------------------------------------------------
(* Reads *)

\* The three refreshes note the generation before their first await.  Which of
\* the three a read is shows when it is answered.
BeginRead(x) ==
    /\ running
    /\ read[x] = None
    /\ read' = [read EXCEPT ![x] = generation]
    /\ UNCHANGED <<running, readback, request, generation, lock, mismatch, identities,
                   call, shown>>

\* The answer is not older than the last accepted write.
Current(x) == read[x] = generation

\* History: a read young enough reports the requested profile.
Witness(x, p) ==
    shown' = (shown \/ (pending # None /\ p = pending.profile /\ read[x] = generation))

EndRead(x) ==
    /\ read[x] # None
    /\ read' = [read EXCEPT ![x] = None]
    /\ UNCHANGED <<running, generation, lock, mismatch, identities, call>>

\* The read fails, or its answer is too old.
DropRead(x) ==
    /\ EndRead(x)
    /\ UNCHANGED <<readback, request, shown>>

\* Mutant of StaleAfterWrite: another profile than the requested one is taken.
NeverStaleAfterWrite(p) == FALSE
\* _read_profile_is_stale_after_write
StaleAfterWrite(p) == optimistic # None /\ p # None /\ p # optimistic

\* parse_battery_profile_payload; p or r may be missing.
ReadProfile(x, p, r) ==
    LET taken == p # None /\ ~StaleAfterWrite(p)
        newProfile == IF taken THEN p ELSE profile
    IN  /\ EndRead(x)
        /\ Current(x)
        /\ fresh' = (fresh \/ taken)
        /\ Settle(newProfile,
                  IF r = None \/ StaleAfterWrite(p) THEN reserve
                  ELSE IF newProfile = None THEN r ELSE Normalized(newProfile, r),
                  live, liveSince, seenSince \/ taken)
        /\ Witness(x, p)

\* The settings' profile is not believed while a request is pending, nor when
\* it contradicts a recent read of the profile.
StaleSettings(p) ==
    \/ pending # None
    \/ fresh /\ profile # None /\ p \notin {None, profile}

\* parse_battery_settings_payload
ReadSettings(x, p, r) ==
    LET taken == p # None /\ ~StaleSettings(p) /\ ~fresh
        newProfile == IF taken THEN p ELSE profile
        ownProfile == IF p # None THEN p ELSE newProfile
    IN  /\ EndRead(x)
        /\ Current(x)
        /\ Settle(newProfile,
                  IF r = None \/ StaleSettings(p) THEN reserve
                  ELSE IF ownProfile = None THEN r ELSE Normalized(ownProfile, r),
                  live, liveSince, seenSince)
        /\ UNCHANGED fresh
        /\ Witness(x, p)

\* parse_battery_status_payload; l is None when no battery names a mode.
ReadStatus(x, l) ==
    /\ EndRead(x)
    /\ Current(x)
    /\ Settle(profile, reserve, l, l # None, seenSince)
    /\ UNCHANGED fresh
    /\ Witness(x, l)

-----------------------------------------------------------------------------
(* Writes *)

\* Mutant of WriteAllowed: another write under way does not matter.
WriteAllowedUnlocked == TRUE
\* assert_battery_profile_write_allowed.  Its debounce after the last write only
\* refuses more writes: Refuse stands for it.
WriteAllowed == lock = None

Return(c) == call' = [call EXCEPT ![c] = Idle]
Start(c, pc, settings) ==
    /\ call[c].pc = "idle"
    /\ call' = [call EXCEPT ![c] = [settings EXCEPT !.pc = pc]]
    /\ UNCHANGED <<running, readback, request, generation, lock, mismatch, identities,
                   read, shown>>

\* async_recover_split_battery_profile: the profile asked for is configured but
\* not live, and its reserve can be moved.
Split(p) == live \notin {None, p} /\ profile = p /\ p # FullBackup

\* async_set_system_profile, with the profile's remembered reserve.
SetProfile(p, r) ==
    /\ WriteAllowed
    /\ generation < MaxWrites
    /\ \/ /\ Split(p)
          /\ \E nudge \in Reserves \ {r} :
                Start("user", "allowed",
                      [Idle EXCEPT !.op = "reserve", !.profile = p, !.reserve = nudge,
                                   !.restore = r])
       \/ /\ ~Split(p) \/ Reserves = {r}
          /\ Start("user", "allowed",
                   [Idle EXCEPT !.profile = p, !.reserve = Normalized(p, r)])

\* async_set_battery_reserve, for the selected profile.
SetReserve(r) ==
    LET selected == IF pending # None THEN pending.profile
                    ELSE IF profile # None THEN profile ELSE live
    IN  /\ WriteAllowed
        /\ generation < MaxWrites
        /\ selected \notin {None, FullBackup}
        /\ Start("user", "allowed",
                 [Idle EXCEPT !.op = "reserve", !.profile = selected, !.reserve = r,
                              !.exact = TRUE])

\* The dialogue of the mismatch repair, for the live profile.
RetryProfile(r) ==
    /\ WriteAllowed
    /\ generation < MaxWrites
    /\ mismatch # 0
    /\ live # None
    /\ Start("user", "allowed",
             [Idle EXCEPT !.op = "retry", !.profile = live,
                          !.reserve = Normalized(live, r), !.expect = mismatch])

\* The dialogue of the repair for an overdue request; nothing to write when
\* nothing is pending.
CancelPending ==
    /\ pending # None
    /\ WriteAllowed
    /\ Start("repair", "allowed", [Idle EXCEPT !.op = "cancel", !.expect = pending.id])

\* The delay of the restore is over.
Wake ==
    /\ call["restore"].pc = "sleeping"
    /\ generation < MaxWrites
    /\ call' = [call EXCEPT !["restore"] =
                  IF WriteAllowed THEN [@ EXCEPT !.pc = "allowed"] ELSE Idle]
    /\ UNCHANGED <<running, readback, request, generation, lock, mismatch, identities,
                   read, shown>>

\* Mutant of StillWanted: what the dialogue was opened for is not looked at again.
AssumedWanted(c) == TRUE
\* What a dialogue writes for is still there once the lock is held:
\* require_current, and the check of expected_requested_at.
StillWanted(c) ==
    /\ call[c].op = "retry" => running /\ mismatch = call[c].expect
    /\ call[c].op = "cancel" =>
          running /\ pending # None /\ pending.id = call[c].expect

\* Write access is confirmed and the write still allowed: the request is sent
\* under the lock.
Send(c) ==
    /\ call[c].pc = "allowed"
    /\ WriteAllowed
    /\ StillWanted(c)
    /\ call[c].op = "cancel" \/ generation < MaxWrites
    /\ lock' = c
    /\ call' = [call EXCEPT ![c].pc = "sending"]
    /\ UNCHANGED <<running, readback, request, generation, mismatch, identities, read,
                   shown>>

\* The write is not sent: not permitted, debounced, locked, or no longer wanted.
Refuse(c) ==
    /\ call[c].pc = "allowed"
    /\ Return(c)
    /\ UNCHANGED <<running, readback, request, generation, lock, mismatch, identities,
                   read, shown>>

\* The cloud rejects the write, or the caller is cancelled.
Rejected(c) ==
    /\ call[c].pc = "sending"
    /\ lock' = None
    /\ Return(c)
    /\ UNCHANGED <<running, readback, request, generation, mismatch, identities, read,
                   shown>>

\* The cloud accepts a write.  A reserve that was written alone is parsed like
\* settings that show it; then the request is pending.  A nudge goes on to wait
\* for the refresh it asks for.
Accepted(c) ==
    LET q == call[c]
    IN  /\ q.pc = "sending"
        /\ q.op # "cancel"
        /\ lock' = None
        /\ reserve' = IF q.op = "reserve" /\ ~StaleSettings(None)
                      THEN Normalized(IF profile = None THEN q.profile ELSE profile, q.reserve)
                      ELSE reserve
        /\ SetPending(q.profile, q.reserve, q.exact)
        /\ call' = [call EXCEPT ![c] = IF q.restore = None THEN Idle
                                       ELSE [q EXCEPT !.pc = "nudged"]]
        /\ UNCHANGED <<running, profile, live, fresh, identities, read>>

\* The cancellation is answered, by an acknowledgement or by "already processed".
Cancelled(c) ==
    /\ call[c].pc = "sending"
    /\ call[c].op = "cancel"
    /\ lock' = None
    /\ ClearPending
    /\ Return(c)
    /\ UNCHANGED <<running, profile, reserve, live, fresh, generation, mismatch,
                   identities, read, shown>>

\* _schedule_profile_recovery_reserve_restore: an older restore is cancelled.
ScheduleRestore ==
    LET q == call["user"]
    IN  /\ q.pc = "nudged"
        /\ call' = [call EXCEPT !["user"] = Idle,
                      !["restore"] = [Idle EXCEPT !.pc = "sleeping", !.op = "reserve",
                                        !.profile = q.profile, !.reserve = q.restore]]
        /\ lock' = IF lock = "restore" THEN None ELSE lock
        /\ UNCHANGED <<running, readback, request, generation, mismatch, identities,
                       read, shown>>

\* The refresh after a nudge fails, or the command is cancelled: no restore.
LeaveNudged ==
    /\ call["user"].pc = "nudged"
    /\ Return("user")
    /\ UNCHANGED <<running, readback, request, generation, lock, mismatch, identities,
                   read, shown>>

-----------------------------------------------------------------------------
(* The coordinator, the repairs, and time *)

Overdue == pending # None /\ aged

\* sync_battery_profile_pending_issue at the end of a refresh of the coordinator,
\* and BatteryProfileMismatch.sync in it: with a request pending there is no
\* disagreement; otherwise the observations keep it, retire it or report one.
SyncIssue ==
    /\ running
    /\ issue' = Overdue
    /\ \/ mismatch' = 0 /\ UNCHANGED identities
       \/ pending = None /\ UNCHANGED <<mismatch, identities>>
       \/ /\ pending = None /\ mismatch = 0
          /\ identities < MaxMismatches
          /\ identities' = identities + 1
          /\ mismatch' = identities'
    /\ UNCHANGED <<running, readback, pending, aged, optimistic, generation, lock, call,
                   read, shown>>

\* The request, and the optimistic profile with it, reach their timeout.
Age ==
    /\ pending # None
    /\ ~aged
    /\ aged' = TRUE
    /\ optimistic' = None
    /\ UNCHANGED <<running, readback, pending, issue, generation, lock, mismatch,
                   identities, call, read, shown>>

\* The last read of the profile leaves the lifetime of the cache.
Lapse ==
    /\ fresh
    /\ fresh' = FALSE
    /\ UNCHANGED <<running, profile, reserve, live, liveSince, seenSince, request,
                   generation, lock, mismatch, identities, call, read, shown>>

\* The entry is unloaded: the disagreement is invalidated and the restore task
\* cancelled; commands under way go on.
Unload ==
    /\ running
    /\ running' = FALSE
    /\ mismatch' = 0
    /\ call' = [call EXCEPT !["restore"] = Idle]
    /\ lock' = IF lock = "restore" THEN None ELSE lock
    /\ UNCHANGED <<readback, request, generation, identities, read, shown>>

Answer(c) == Rejected(c) \/ Accepted(c) \/ Cancelled(c)
Answered(x) ==
    \/ DropRead(x)
    \/ \E p \in Profiles \union {None}, r \in Reserves \union {None} :
          ReadProfile(x, p, r) \/ ReadSettings(x, p, r)
    \/ \E l \in Profiles \union {None} : ReadStatus(x, l)

Next ==
    \/ \E x \in Reads : BeginRead(x) \/ Answered(x)
    \/ running /\ \E r \in Reserves :
          SetReserve(r) \/ RetryProfile(r) \/ \E p \in Profiles : SetProfile(p, r)
    \/ running /\ CancelPending
    \/ Wake
    \/ \E c \in Callers : Send(c) \/ Refuse(c) \/ Answer(c)
    \/ ScheduleRestore \/ LeaveNudged
    \/ SyncIssue \/ Age \/ Lapse
    \/ Unload

Spec == Init /\ [][Next]_vars

-----------------------------------------------------------------------------
(* Properties *)

Calls == [pc : {"idle", "allowed", "sending", "nudged", "sleeping"},
          op : {"profile", "reserve", "retry", "cancel"},
          profile : Profiles, reserve : Reserves, exact : BOOLEAN,
          restore : Reserves \union {None}, expect : Nat]
TypeOK ==
    /\ running \in BOOLEAN
    /\ profile \in Profiles \union {None}
    /\ reserve \in Reserves \union {None}
    /\ live \in Profiles \union {None}
    /\ liveSince \in BOOLEAN /\ fresh \in BOOLEAN /\ seenSince \in BOOLEAN
    /\ pending \in Requests \union {None}
    /\ aged \in BOOLEAN
    /\ optimistic \in Profiles \union {None}
    /\ generation \in 0..MaxWrites
    /\ issue \in BOOLEAN
    /\ lock \in Callers \union {None}
    /\ mismatch \in 0..MaxMismatches
    /\ identities \in 0..MaxMismatches
    /\ call \in [Callers -> Calls]
    /\ read \in [Reads -> (0..MaxWrites) \union {None}]
    /\ shown \in BOOLEAN

\* Writes exclude each other: the caller whose request is under way holds the
\* write lock, whoever starts, times out or is cancelled around it
\* (assert_battery_profile_write_allowed).
OneWriter == \A c \in Callers : call[c].pc = "sending" <=> lock = c

\* What is shown follows what is pending: the optimistic profile is the one
\* asked for, for as long as the request is young; no disagreement of old
\* observations survives a request, and no repair outlives the request it is for
\* (set_battery_pending, clear_battery_pending).
RequestShown ==
    /\ optimistic = IF pending # None /\ ~aged THEN pending.profile ELSE None
    /\ pending # None => mismatch = 0 /\ pending.id = generation
    /\ mismatch # 0 => running
    /\ issue => pending # None /\ aged

\* A dialogue acts on what it was opened for: while a retry of the live profile
\* is under way nothing has been requested since its disagreement was reported,
\* and while a cancellation is under way no newer request has replaced the one
\* it names (require_current, expected_requested_at).
DialogueStillFor ==
    \A c \in Callers : call[c].pc = "sending" =>
        /\ call[c].op = "retry" => pending = None
        /\ call[c].op = "cancel" => pending = None \/ pending.id = call[c].expect

\* A request is confirmed by evidence alone: outside a cancellation it goes away
\* only when a read that was sent after the cloud accepted it has reported the
\* requested profile, as configured or as live
\* (_pending_authoritative_confirmation_received).
ConfirmedByMatchingRead ==
    [][pending # None /\ pending' = None /\ call' = call
          => shown']_vars

\* Readback does not flicker: once a read has shown the requested profile, no
\* read shows another one again while the request is young; the endpoints are
\* known to contradict each other until the gateway has settled
\* (_read_profile_is_stale_after_write, parse_battery_settings_payload).
SettledNotReverted ==
    [][pending # None /\ pending' = pending /\ ~aged /\ profile = pending.profile
          => profile' = profile]_vars

\* CHANGELOG.md:1000-1004: unloading leaves no delayed profile recovery at work.
NoRestoreAfterUnload == ~running => call["restore"].pc = "idle"

=============================================================================
