--------------------------- MODULE StatusRefresh ---------------------------
(***************************************************************************)
(* The coordinator's refresh of the charger status (coordinator.py:3844)   *)
(* and the health of its endpoint (evse_status_health.py).  A refresh asks *)
(* for the status of the site's chargers; each kind of answer has its own  *)
(* consequences for what is published, for the waiting before the next     *)
(* request, for the repair issues and for whether a list without chargers  *)
(* is believed.  Refreshes are serialised by _refresh_lock; between their  *)
(* awaits timers fire, the inventory is read, and the entry is stopped,    *)
(* reloaded or killed.                                                     *)
(*                                                                         *)
(* The site has one charger.  A deadline and its timer are one: a flag     *)
(* that is set until the deadline passes.  The kept records of failures,   *)
(* the lengths of delays and the attributes about the last failure, among  *)
(* them payload_using_stale, are left out.  A refresh may outlive its       *)
(* runtime, if the entry is reloaded without handing its data over: of it, *)
(* the save it was awaiting is modelled; that its answer may still raise   *)
(* or clear a repair issue, by the counts of the old runtime, is left out. *)
(***************************************************************************)
EXTENDS StatusState

vars == <<active, poll, published, absence, health, saved, late, backoff, errors,
          issues, inventory, restarts, run, outage, unheard>>
around == <<inventory, restarts, late>>
lifecycle == <<active, restarts, late>>
store == <<saved, unheard>>

Seen == {"charger", "none"}

\* Counters stop where nothing depends on them any more.
Up(n, limit) == IF n < limit THEN n + 1 ELSE n
NetworkLimit == 3
OtherLimit == 2

-----------------------------------------------------------------------------
(* What the coordinator keeps *)

\* data, _status_payload_cache, whether the last success of the endpoint is within the
\* stale window, not _has_successful_refresh.
Nothing == [data |-> "none", cache |-> "nothing", recent |-> FALSE, first |-> TRUE]

\* _empty_status_charger_data_count, and _status_charger_data_authoritative with
\* _status_charger_data_serials: "unknown" if not authoritative.
Unknown == [count |-> 0, status |-> "unknown"]

NoErrors == [network |-> 0, dns |-> 0, payload |-> 0, rate |-> 0]

Idle == [pc |-> "idle", data |-> "none", fresh |-> FALSE]

\* The Store's next_retry_utc: none, in the future, or over.
Saved == {"no", "ahead", "over"}

\* What the save in flight writes, if there is one.
Deadline == IF health.cooldown THEN "ahead" ELSE "over"
Pending ==
    CASE poll.pc = "failing" -> Deadline
      [] poll.pc = "recovering" -> "no"
      [] OTHER -> "none"

\* What the device inventory has of chargers: not read, no bucket (or one that names
\* none of its devices), a bucket without devices, the charger.
Buckets == {"unready", "missing", "empty", "charger"}

\* _set_type_device_buckets keeps the types that have a device.
Kept(bucket) == IF bucket = "empty" THEN "missing" ELSE bucket

\* _inventory_evse_serials; "unknown" for None.
InventorySerials ==
    CASE inventory = "charger" -> "charger"
      [] inventory = "empty" -> "none"
      [] OTHER -> "unknown"

\* _status_payload_reusable
Reusable == ~published.first /\ published.cache # "nothing" /\ published.recent

Cached == IF published.cache = "charger" THEN "charger" ELSE "none"

\* The serials the cleanup keeps; "unknown" for None: it then keeps all
\* (_active_inventory_evse_serials, active_charger_serials_for_cleanup).
Serials ==
    IF inventory = "unready" THEN "unknown"
    ELSE IF absence.status # "unknown" THEN absence.status
    ELSE IF absence.count \in 1..(Confirmations - 1) THEN "unknown"
    ELSE InventorySerials

-----------------------------------------------------------------------------
(* The parts of an answer's handling *)

\* The finally clause: a streak of empty lists is broken by whatever is not one.
Concluded(empties, status) == absence' = [count |-> empties, status |-> status]

\* _record_status_refresh_success: connection trouble the cached status hid stays.
Cleared(failed, network, dns) ==
    [network |-> IF network THEN failed.network ELSE 0,
     dns |-> IF dns THEN failed.dns ELSE 0, payload |-> 0, rate |-> 0]

\* Mutant: an issue about names is left to other refreshes.
StillOpenDns(network, dns) ==
    {i \in issues : i \in {"status", "dns"} \/ (i = "network" /\ network)}

StillOpen(network, dns) ==
    {i \in issues : \/ i = "status"
                    \/ i = "network" /\ network
                    \/ i = "dns" /\ dns}

\* Mutant: a success does not reset the failures of the connection.
SucceededUncleared(failed, open, data, fresh) ==
    /\ poll' = [pc |-> "enriching", data |-> data, fresh |-> fresh]
    /\ errors' = [failed EXCEPT !.network = errors.network]
    /\ issues' = open
    /\ backoff' = FALSE

\* A refresh that goes on with a status, fresh or cached.
Succeeded(failed, open, data, fresh) ==
    /\ poll' = [pc |-> "enriching", data |-> data, fresh |-> fresh]
    /\ errors' = failed
    /\ issues' = open
    /\ backoff' = FALSE

\* Any error that ends the refresh: the data stay, and the next request waits.
Failed(failed, open) ==
    /\ poll' = Idle
    /\ errors' = failed
    /\ issues' = open
    /\ backoff' = TRUE

Ran(kind) == run' = IF run[1] = kind THEN <<kind, Up(run[2], Longest)>> ELSE <<kind, 1>>

Answer == poll.pc = "asking"
Alone == UNCHANGED <<lifecycle, inventory, health, store>>

-----------------------------------------------------------------------------
(* Refreshes *)

\* A refresh that reaches the endpoint: no backoff and no cooldown in its way.
Poll ==
    /\ active /\ poll.pc = "idle" /\ ~backoff /\ ~health.cooldown
    /\ poll' = [Idle EXCEPT !.pc = "asking"]
    /\ UNCHANGED <<active, published, absence, health, store, backoff, errors, issues,
                   around, run, outage>>

\* The start of the site-only pipeline with a degraded status.
SiteOnly ==
    /\ poll' = [Idle EXCEPT !.pc = "siblings"]
    /\ published' = [published EXCEPT !.first = FALSE]
    /\ Concluded(0, "unknown")

\* A refresh during the cooldown reads everything else.
PollDegraded ==
    /\ active /\ poll.pc = "idle" /\ ~backoff /\ health.cooldown
    /\ SiteOnly
    /\ UNCHANGED <<active, health, store, backoff, errors, issues, around, run,
                   outage>>

\* An answer that names the charger; "unknown" if part of the list is malformed.
Listed(status, data) ==
    /\ Answer
    /\ published' = [published EXCEPT !.cache = IF data = "charger" THEN data ELSE "bare",
                                      !.recent = TRUE]
    /\ Concluded(0, status)
    /\ Succeeded(NoErrors, StillOpen(FALSE, FALSE), data, TRUE)
    /\ Ran("other")
    /\ Alone /\ UNCHANGED outage

AnswerListed == Listed("charger", "charger")
AnswerMalformed == \E data \in Seen : Listed("unknown", data)

\* Is a list without chargers, the count-th in a row, still not believed?
Preserved(count) == count < Confirmations \/ InventorySerials # "none"

\* A list without chargers.  While it is not believed the last good status stays.
AnswerEmpty ==
    LET count == Up(absence.count, Confirmations)
        kept == Preserved(count)
        last == IF "charger" \in {published.cache, published.data} THEN "charger" ELSE "none"
    IN  /\ Answer
        /\ published' = IF kept THEN published
                        ELSE [published EXCEPT !.cache = "bare", !.recent = TRUE]
        /\ Concluded(count, IF kept THEN "unknown" ELSE "none")
        /\ Succeeded(NoErrors, StillOpen(FALSE, FALSE), IF kept THEN last ELSE "none", ~kept)
        /\ Ran("other")
        /\ Alone /\ UNCHANGED outage

\* OptionalEndpointUnavailable
AnswerUnavailable ==
    /\ Answer
    /\ Concluded(0, "unknown")
    /\ Succeeded(NoErrors, StillOpen(FALSE, FALSE),
                 IF Reusable THEN Cached ELSE "none", FALSE)
    /\ Ran("other")
    /\ Alone /\ UNCHANGED <<published, outage>>

\* InvalidPayloadError
AnswerInvalid ==
    LET failed == [errors EXCEPT !.network = 0, !.payload = Up(@, OtherLimit)]
    IN  /\ Answer
        /\ Concluded(0, "unknown")
        /\ IF Reusable
           THEN Succeeded(NoErrors, StillOpen(FALSE, FALSE), Cached, FALSE)
           ELSE Failed(failed, issues \union (IF failed.payload >= 2 THEN {"cloud"} ELSE {}))
        /\ Ran("invalid")
        /\ Alone /\ UNCHANGED <<published, outage>>

\* ClientError and TimeoutError; dns if its text says that the name was not resolved.
AnswerNoConnection(dns) ==
    LET failed == [errors EXCEPT !.network = Up(@, NetworkLimit), !.payload = 0,
                                 !.dns = IF dns THEN Up(@, OtherLimit) ELSE @]
        unresolved == IF dns /\ failed.dns >= 2 THEN {"dns"} ELSE {}
        hidden == dns \/ failed.dns > 0 \/ "dns" \in issues
        unreachable == IF failed.network >= 3 THEN {"network"} ELSE {}
    IN  /\ Answer
        /\ Concluded(0, "unknown")
        /\ IF Reusable
           THEN Succeeded(Cleared(failed, TRUE, hidden),
                          StillOpen(TRUE, hidden) \union unresolved, Cached, FALSE)
           ELSE Failed(failed, issues \union unresolved \union unreachable)
        /\ Ran("network")
        /\ Alone /\ UNCHANGED <<published, outage>>

\* 429, and the other statuses below 500.
AnswerRefused(limited) ==
    LET broken == [errors EXCEPT !.network = 0, !.payload = 0]
        failed == IF limited THEN [broken EXCEPT !.rate = Up(@, OtherLimit)] ELSE broken
    IN  /\ Answer
        /\ Concluded(0, "unknown")
        /\ Failed(failed, IF ~limited THEN issues \ {"cloud"}
                          ELSE IF failed.rate >= 2 THEN issues \union {"rate"} ELSE issues)
        /\ Ran("other")
        /\ Alone /\ UNCHANGED <<published, outage>>

\* 401: a login follows (AuthRefresh).  The refresh ends, or, if the error is the
\* scheduler's, returns the data there were.  Either is an HTTP response, and the code
\* leaves the counts as they are: a streak goes on through it.
AnswerElsewhere ==
    /\ Answer
    /\ poll' = Idle
    /\ Concluded(0, "unknown")
    /\ UNCHANGED <<published, backoff, errors, issues, run, outage>> /\ Alone

\* 5xx, up to the save of async_failure.
AnswerServerError ==
    /\ Answer
    /\ errors' = [errors EXCEPT !.network = 0, !.payload = 0]
    /\ IF active
       THEN /\ health' = [available |-> FALSE, cooldown |-> TRUE]
            /\ poll' = [Idle EXCEPT !.pc = "failing"]
            /\ outage' = TRUE
            /\ UNCHANGED absence
       ELSE /\ poll' = Idle
            /\ Concluded(0, "unknown")
            /\ UNCHANGED <<health, outage>>
    /\ Ran("other")
    /\ UNCHANGED <<lifecycle, inventory, store, published, backoff, issues>>

\* The save of async_failure ends, successful or not; then the rest is read.
FailureSaved ==
    /\ poll.pc = "failing"
    /\ \/ saved' = Pending /\ unheard' = FALSE
       \/ UNCHANGED store
    /\ IF active
       THEN SiteOnly /\ issues' = issues \union {"status"}
       ELSE /\ poll' = Idle
            /\ Concluded(0, "unknown")
            /\ UNCHANGED <<published, issues>>
    /\ UNCHANGED <<lifecycle, inventory, health, backoff, errors, run,
                   outage>>

\* The site-only pipeline ends with the data there were.
SiblingsRead ==
    /\ poll.pc = "siblings"
    /\ poll' = Idle
    /\ UNCHANGED <<active, published, absence, health, store, backoff, errors, issues,
                   around, run, outage>>

\* What is returned is published unless the runtime was stopped.
Publish ==
    /\ published' = [published EXCEPT !.data = poll.data, !.first = FALSE]
    /\ outage' = (outage /\ ~poll.fresh)

\* Mutant: the charger is available before its data are published.
RecoveringAtOnce == [available |-> TRUE, cooldown |-> FALSE]

\* async_success up to its save.
Recovering == [health EXCEPT !.cooldown = FALSE]

\* The rest of a refresh that has a status, up to the save of async_success, which is
\* made only after a failure.
Enriched ==
    /\ poll.pc = "enriching"
    /\ IF active /\ poll.fresh /\ ~health.available
       THEN /\ poll' = [poll EXCEPT !.pc = "recovering"]
            /\ health' = Recovering
            /\ UNCHANGED <<published, outage, issues>>
       ELSE /\ poll' = Idle
            /\ IF active
               THEN /\ Publish
                    /\ issues' = IF poll.fresh THEN issues \ {"status"} ELSE issues
               ELSE /\ published' = [published EXCEPT !.first = FALSE]
                    /\ UNCHANGED <<outage, issues>>
            /\ UNCHANGED health
    /\ UNCHANGED <<lifecycle, inventory, absence, store, backoff, errors, run>>

\* The save of async_success ends, successful or not.
RecoverySaved ==
    /\ poll.pc = "recovering"
    /\ \/ saved' = Pending /\ unheard' = FALSE
       \/ UNCHANGED store
    /\ IF active
       THEN /\ health' = [health EXCEPT !.available = TRUE]
            /\ issues' = issues \ {"status"}
            /\ Publish
       ELSE /\ published' = [published EXCEPT !.first = FALSE]
            /\ UNCHANGED <<health, issues, outage>>
    /\ poll' = Idle
    /\ UNCHANGED <<lifecycle, inventory, absence, backoff, errors, run>>

-----------------------------------------------------------------------------
(* Around the refreshes *)

BackoffEnds ==
    /\ backoff
    /\ backoff' = FALSE
    /\ UNCHANGED <<active, poll, published, absence, health, store, errors, issues,
                   around, run, outage>>

CooldownEnds ==
    /\ health.cooldown
    /\ health' = [health EXCEPT !.cooldown = FALSE]
    /\ saved' = IF saved = "ahead" /\ ~unheard THEN "over" ELSE saved
    /\ UNCHANGED <<active, poll, published, absence, backoff, errors, issues,
                   around, run, outage, unheard>>

\* A deadline passes that the runtime has no timer for.
DeadlinePasses ==
    /\ saved = "ahead" /\ unheard
    /\ unheard' = FALSE /\ saved' = "over"
    /\ UNCHANGED <<active, poll, published, absence, health, backoff, errors, issues,
                   around, run, outage>>

LatePasses(n) ==
    /\ late[n] = "ahead"
    /\ late' = [late EXCEPT ![n] = "over"]
    /\ UNCHANGED <<active, poll, published, absence, health, store, backoff, errors,
                   issues, inventory, restarts, run, outage>>

\* The save of a replaced runtime ends, successful or not.
LateSaved(n) ==
    /\ late[n] # "none"
    /\ late' = [late EXCEPT ![n] = "none"]
    /\ \/ saved' = late[n] /\ unheard' = (late[n] = "ahead")
       \/ UNCHANGED store
    /\ UNCHANGED <<active, poll, published, absence, health, backoff, errors, issues,
                   inventory, restarts, run, outage>>

\* The last success is further back than twice the slow interval.
StatusAges ==
    /\ published.recent
    /\ published' = [published EXCEPT !.recent = FALSE]
    /\ UNCHANGED <<active, poll, absence, health, store, backoff, errors, issues,
                   around, run, outage>>

\* The inventory is read by other parts of the refresh, and by the warmup.
InventoryRead ==
    /\ active
    /\ \E bucket \in Buckets \ {"unready"} : inventory' = Kept(bucket)
    /\ UNCHANGED <<lifecycle, poll, published, absence, health, store, backoff, errors,
                   issues, run, outage>>

\* mark_runtime_stopped: the refresh under way goes on.
Stop ==
    /\ active /\ restarts < MaxRestarts
    /\ active' = FALSE
    /\ UNCHANGED <<poll, published, absence, health, store, backoff, errors, issues,
                   around, run, outage>>

NoSaves == [n \in 0..MaxRestarts |-> "none"]

\* Mutant: the failure is restored, its deadline is not.
RestoredWithoutTimer(read) ==
    health' = [available |-> ~read \/ saved = "no", cooldown |-> FALSE]

\* What async_restore makes of the Store in a new runtime.  A read that fails is taken for
\* an empty Store.
Restored(read) ==
    health' = [available |-> ~read \/ saved = "no", cooldown |-> read /\ saved = "ahead"]

\* A new runtime, which is given the data of the last one or none.
Start(carried, read) ==
    /\ restarts' = restarts + 1
    /\ active' = TRUE
    /\ poll' = Idle /\ absence' = Unknown
    /\ published' = IF carried THEN [Nothing EXCEPT !.data = published.data, !.first = FALSE]
                    ELSE Nothing
    /\ backoff' = FALSE /\ errors' = NoErrors /\ inventory' = "unready"
    /\ run' = <<"other", 0>>
    /\ outage' = (carried /\ outage /\ read /\ saved # "no")
    /\ unheard' = (~read /\ saved = "ahead")
    /\ Restored(read) /\ UNCHANGED saved

\* After some changes of the entry the data are handed over (ReloadSnapshot), if the
\* unload could wait for _refresh_lock (async_quiesce_for_reload).  Any other reload does
\* not wait for the refresh under way.
Reload ==
    /\ ~active
    /\ \E carried, read \in BOOLEAN :
           /\ carried => poll.pc = "idle"
           /\ Start(carried, read)
    /\ late' = [late EXCEPT ![restarts] = Pending]
    /\ UNCHANGED issues

\* Home Assistant dies; neither issues nor saves survive it.
Crash ==
    /\ restarts < MaxRestarts
    /\ \E read \in BOOLEAN : Start(FALSE, read)
    /\ issues' = {} /\ late' = NoSaves

Init ==
    /\ active = TRUE /\ poll = Idle /\ published = Nothing /\ absence = Unknown
    /\ health = [available |-> TRUE, cooldown |-> FALSE] /\ saved = "no"
    /\ backoff = FALSE /\ errors = NoErrors /\ issues = {}
    /\ inventory = "unready" /\ restarts = 0
    /\ late = NoSaves
    /\ run = <<"other", 0>> /\ outage = FALSE /\ unheard = FALSE

Answered ==
    \/ AnswerListed \/ AnswerMalformed \/ AnswerEmpty \/ AnswerUnavailable
    \/ AnswerInvalid \/ AnswerElsewhere \/ AnswerServerError
    \/ \E dns \in BOOLEAN : AnswerNoConnection(dns)
    \/ \E limited \in BOOLEAN : AnswerRefused(limited)

Progress == Answered \/ FailureSaved \/ SiblingsRead \/ Enriched \/ RecoverySaved

Next ==
    \/ Poll \/ PollDegraded \/ Progress
    \/ BackoffEnds \/ CooldownEnds \/ StatusAges \/ DeadlinePasses
    \/ \E n \in 0..MaxRestarts : LatePasses(n) \/ LateSaved(n)
    \/ InventoryRead
    \/ Stop \/ Reload \/ Crash

Spec == Init /\ [][Next]_vars

\* Home Assistant polls, requests have timeouts, and timers fire.
FairSpec ==
    /\ Spec
    /\ WF_vars(Poll \/ PollDegraded) /\ WF_vars(Progress)
    /\ WF_vars(BackoffEnds) /\ WF_vars(CooldownEnds)
-----------------------------------------------------------------------------
TypeOK ==
    /\ active \in BOOLEAN /\ backoff \in BOOLEAN
    /\ outage \in BOOLEAN /\ unheard \in BOOLEAN
    /\ poll \in [pc : {"idle", "asking", "failing", "siblings", "enriching", "recovering"},
                 data : Seen, fresh : BOOLEAN]
    /\ published \in [data : Seen, recent : BOOLEAN, first : BOOLEAN,
                      cache : {"nothing", "bare", "charger"}]
    /\ absence \in [count : 0..Confirmations, status : Seen \union {"unknown"}]
    /\ health \in [available : BOOLEAN, cooldown : BOOLEAN]
    /\ saved \in Saved
    /\ late \in [0..MaxRestarts -> Saved \union {"none"}]
    /\ errors \in [network : 0..Longest, dns : 0..Longest, payload : 0..Longest,
                   rate : 0..Longest]
    /\ issues \subseteq {"network", "dns", "cloud", "rate", "status"}
    /\ inventory \in Buckets
    /\ restarts \in 0..MaxRestarts
    /\ run \in {"network", "invalid", "other"} \X (0..Longest)

\* The conjuncts of the inductive invariant. The published data are from before an
\* outage only while the charger is not available.
OutageUnavailable == outage => ~health.available

\* Only fresh data end an outage.
RecoveringIsFresh == poll.pc = "recovering" => poll.fresh

\* A deadline in the Store that is ahead, and that the runtime knows, has its timer, and a
\* refresh that asks, or has asked, began with no timer set.
DeadlineTimed ==
    /\ saved = "ahead" => health.cooldown \/ unheard
    /\ poll.pc \in {"asking", "enriching", "recovering"} => ~health.cooldown

\* The failures counted are at most as many as the answers of their kind in a row.
StreaksCounted ==
    /\ errors.network > 0 => run[1] = "network" /\ run[2] >= errors.network
    /\ errors.payload > 0 => run[1] = "invalid" /\ run[2] >= errors.payload

\* A runtime that was stopped is replaced, within the bound.
StoppedIsReplaced == ~active => restarts < MaxRestarts

StatusInv ==
    /\ TypeOK
    /\ StoppedIsReplaced
    /\ OutageUnavailable
    /\ RecoveringIsFresh
    /\ DeadlineTimed
    /\ StreaksCounted

\* Once the cloud names the charger whenever it is asked, whatever failed before is
\* forgotten: no issue stays open, and the charger is available with fresh data.
Recovers ==
    <>[]active /\ <>[][Answered => AnswerListed]_vars
        => <>[](issues = {} /\ health.available /\ published.data = "charger")

\* "... requiring repeated absence and inventory confirmation before removing the
\* entities" (CHANGELOG.md:880): when the cloud's status names no charger any more, and
\* its inventory has none either, the charger is not for ever kept and published.
AbsenceBelieved ==
    <>[]active /\ <>[][Answered => AnswerEmpty]_vars
    /\ <>[](inventory \in {"missing", "empty"})
        => []<>(Serials = "none" \/ published.data = "none")
=============================================================================
