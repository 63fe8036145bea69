---------------------------- MODULE StatusState ----------------------------
(***************************************************************************)
(* What the coordinator keeps of the charger status and of the health of   *)
(* its endpoint, and what it promises about them whatever is answered.     *)
(* StatusRefresh has the steps.                                            *)
(***************************************************************************)
EXTENDS Naturals

CONSTANTS
    Confirmations,  \* EVSE_EMPTY_STATUS_CONFIRMATIONS
    MaxRestarts     \* bound: reloads and restarts

ASSUME StatusAssumption ==
    /\ Confirmations \in 1..3
    /\ MaxRestarts \in Nat

VARIABLES
    active,     \* runtime_active
    poll,       \* the refresh under way: where it awaits, what it will publish
    published,  \* what the last refreshes left (see Nothing)
    absence,    \* what is known of the charger's absence (see Unknown)
    health,     \* EvseStatusHealth: available, and whether its cooldown runs
    saved,      \* the deadline in the Store (see Saved)
    late,       \* the saves of replaced runtimes that are not done (see Saved)
    backoff,    \* _backoff_until and its timer
    errors,     \* successive failures of each kind
    issues,     \* the repair issues that are open
    inventory,  \* the chargers' bucket of _type_device_buckets (see Buckets)
    restarts,   \* reloads and restarts so far
    run,        \* history: the kind of the latest answer to this runtime, how often in
                \* a row, those passed over that AnswerElsewhere is about
    outage,     \* history: the published data are from before a server error that
                \* the runtime has met, or has read of in the Store
    unheard     \* history: the Store has a deadline that is ahead and that the runtime
                \* neither wrote nor read

\* The longest run of answers of one kind that is told apart.
Longest == 3

-----------------------------------------------------------------------------
\* A repair issue of the connection or of the answers is raised only by a streak that
\* no answer of another kind has broken, whatever the cached status has hidden of it:
\* three failed connections, two malformed payloads.  Of the HTTP responses that break a
\* streak (coordinator.py:4103), those that return before the counts are reset do not: a
\* 401, and an error of the scheduler (coordinator.py:3995, 4098).  They do not count for
\* it either.
StreakReported ==
    [][/\ "network" \in issues' \ issues => run' = <<"network", Longest>>
       /\ "cloud" \in issues' \ issues => run'[1] = "invalid" /\ run'[2] >= 2]_<<issues, run>>

\* "Keep cached charger data unavailable through every awaited recovery step": the
\* charger is not available with data from before a server error that the runtime has
\* met, or has read of in the Store it began with (coordinator.py:5320,
\* evse_status_health.py:191).  A reload forgets the outage if its record could not be
\* saved, or cannot be read (evse_status_health.py:76).
OutageEndsWithFreshData ==
    health.available /\ published.data = "charger" => ~outage

\* The endpoint is not asked before the deadline of the last server error that is in the
\* Store, neither by another poll nor after a reload or a crash
\* (test_status_history_survives_restart_and_setup_retry), if the runtime wrote that
\* deadline or read it.  It has not if its read failed, or if a save of the runtime
\* before it came after the read.
DeadlineSurvives == poll.pc = "asking" => saved # "ahead" \/ unheard
=============================================================================
