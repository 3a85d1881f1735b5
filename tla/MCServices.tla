----------------------------- MODULE MCServices -----------------------------
(***************************************************************************)
(* Services of the daemon side by side: the driver loop of a goal, its     *)
(* completion hooks, sessions, the consolidation lock, the approval of     *)
(* configuration changes and the cron entries.  They share no state, so a  *)
(* behaviour is one of a single service, chosen at the start; the others   *)
(* stay as they were and the state spaces add up.                          *)
(***************************************************************************)
EXTENDS DriverLoop, GoalHooks, Sessions, DreamLock, ConfigApproval, Cron

CONSTANTS h1, h2
VARIABLE service

MCOn == [h \in Hooks |-> IF h = h1 THEN "Failed" ELSE "Cancelled"]

\* A service that does not run starts in one of its initial states only, and the
\* keys of the configuration are interchangeable.
MCInit ==
    /\ service \in {"loop", "hooks", "sessions", "dream", "approval", "cron"}
    /\ LoopInit /\ HooksInit /\ SessionsInit /\ DreamInit /\ ApprovalInit /\ CronInit
    /\ service # "dream" => pidOf = [r \in Runs |-> CHOOSE p \in Pids : TRUE]
    /\ target[CHOOSE p \in Patches : TRUE] = CHOOSE k \in Keys : TRUE
    /\ service # "approval" => \A p, q \in Patches : target[p] = target[q]

MCNext ==
    /\ UNCHANGED service
    /\ service = "loop" \/ UNCHANGED loopVars
    /\ service = "hooks" \/ UNCHANGED hookVars
    /\ service = "sessions" \/ UNCHANGED sessionVars
    /\ service = "dream" \/ UNCHANGED dreamVars
    /\ service = "approval" \/ UNCHANGED approvalVars
    /\ service = "cron" \/ UNCHANGED cronVars
    /\ \/ service = "loop" /\ LoopNext
       \/ service = "hooks" /\ HooksNext
       \/ service = "sessions" /\ SessionsNext
       \/ service = "dream" /\ DreamNext
       \/ service = "approval" /\ ApprovalNext
       \/ service = "cron" /\ CronNext

MCSpec ==
    MCInit /\ [][MCNext]_<<service, loopVars, hookVars, sessionVars, dreamVars,
                           approvalVars, cronVars>>
=============================================================================
