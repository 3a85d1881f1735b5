----------------------------- MODULE GoalHooks ------------------------------
(***************************************************************************)
(* Completion hooks of one goal (crates/dispatch-tools/src/hooks): the     *)
(* HookRegistry with its store, written by spawned tasks in any order, the *)
(* idempotency claims, and the three callers of dispatch: the event        *)
(* forwarder, the shutdown drain and the boot sweep of src/main.rs.  The   *)
(* process may stop at any step and boot again.                            *)
(***************************************************************************)
EXTENDS Naturals, Sequences, FiniteSets, SequencesExt

CONSTANTS Hooks,        \* ids of completion hooks
          On,           \* On[h]: the transition hook h is triggered by
          MaxHookOps,   \* bound: calls of add, add_unique and remove
          MaxHookFaults, \* bound: crashes, failed store calls, actions that fail or time out
          MaxProgress   \* bound: Progress events of the goal

Transitions == {"Done", "Failed", "Cancelled", "Progress"}
ASSUME HooksAssumption == On \in [Hooks -> Transitions]

VARIABLES attached,  \* HookRegistry.inner for the goal
          hookRows,  \* its rows in the hook store
          writing,   \* spawned store writes that have not landed
          claims,    \* rows of hook_dispatched: pairs of hook and transition
          runRow,    \* the goal's persisted status, as reattach and the drain read it
          proc,      \* "up", "draining" or "down"
          disp,      \* per caller of dispatch: hooks left to fire, transition, place
          sentClaims, sentReleases, \* per hook: INSERTs and DELETEs of dropped dispatches
          \* history and bounds
          fired,     \* how often each hook's action took effect
          late,      \* how often it did so without its dispatch learning of it
          cut,       \* claims whose action was cut off before it took effect
          forgets, progress, hookOps, hookFaults

hookVars == <<attached, hookRows, writing, claims, runRow, proc, disp, sentClaims,
              sentReleases, fired, late, cut, forgets, progress, hookOps, hookFaults>>
hookCount == <<hookOps, progress>>
hookSent == <<sentClaims, sentReleases>>
hookHist == <<hookSent, fired, late, cut, forgets>>

Callers == {"fwd", "drain", "boot"}
Resting == [todo |-> <<>>, t |-> "Progress", place |-> "rest"]
Firing(t, hooks) == [todo |-> hooks, t |-> t, place |-> "claim"]

HooksInit ==
    /\ attached = <<>> /\ hookRows = {} /\ writing = <<>> /\ claims = {}
    /\ runRow = "Running" /\ proc = "up" /\ disp = [c \in Callers |-> Resting]
    /\ sentClaims = [h \in Hooks |-> 0] /\ sentReleases = sentClaims
    /\ fired = [h \in Hooks |-> 0] /\ late = fired /\ cut = {}
    /\ forgets = 0 /\ progress = 0 /\ hookOps = 0 /\ hookFaults = 0

HookFault == hookFaults < MaxHookFaults /\ hookFaults' = hookFaults + 1

(***************************************************************************)
(* HookRegistry: the map in memory at once, the store by a spawned task.   *)
(***************************************************************************)
Spawned(op, h) == writing' = Append(writing, [op |-> op, hook |-> h])

RegistryCall ==
    /\ proc # "down" /\ hookOps < MaxHookOps /\ hookOps' = hookOps + 1
    /\ UNCHANGED <<hookRows, claims, runRow, proc, disp, hookHist, progress, hookFaults>>

AddHook(h) == RegistryCall /\ attached' = Append(attached, h) /\ Spawned("upsert", h)

AddUnique(h) == h \notin Range(attached) /\ AddHook(h)

RemoveHook(h) ==
    /\ RegistryCall /\ h \in Range(attached)
    /\ attached' = SelectSeq(attached, LAMBDA k : k # h) /\ Spawned("remove", h)

\* upsert, remove and drop_goal of SqliteHookRegistryStore.
Landed(rows, w) == CASE w.op = "upsert" -> rows \cup {w.hook}
                     [] w.op = "remove" -> rows \ {w.hook}
                     [] w.op = "drop"   -> {}

\* The tasks run in any order; a failed write is only logged.
LandWrite(i) ==
    /\ i \in DOMAIN writing /\ proc # "down" /\ writing' = RemoveAt(writing, i)
    /\ \/ hookRows' = Landed(hookRows, writing[i]) /\ UNCHANGED hookFaults
       \/ HookFault /\ UNCHANGED hookRows
    /\ UNCHANGED <<attached, claims, runRow, proc, disp, hookHist, hookCount>>

(***************************************************************************)
(* DefaultHookDispatcher::dispatch, one hook of a caller's list at a time. *)
(***************************************************************************)
Current(c) == <<Head(disp[c].todo), disp[c].t>>
AtPlace(c, p) == proc # "down" /\ disp[c].place = p /\ disp[c].todo # <<>>
NextHook(c) == disp' = [disp EXCEPT ![c].todo = Tail(@), ![c].place = "claim"]
Move(c, p) == disp' = [disp EXCEPT ![c].place = p]

\* HookTrigger::matches failed.
SkipHook(c) ==
    /\ AtPlace(c, "claim") /\ On[Current(c)[1]] # disp[c].t /\ NextHook(c)
    /\ UNCHANGED <<attached, hookRows, writing, claims, runRow, proc, hookHist, hookCount,
                   hookFaults>>

\* INSERT OR IGNORE: TRUE when this call inserted the row.
ClaimFreeM(c) == TRUE
ClaimFree(c) == Current(c) \notin claims

TryClaim(c) ==
    /\ AtPlace(c, "claim") /\ On[Current(c)[1]] = disp[c].t
    /\ \/ ClaimFree(c) /\ claims' = claims \cup {Current(c)} /\ Move(c, "act")
          /\ UNCHANGED hookFaults
       \/ ~ClaimFree(c) /\ NextHook(c) /\ UNCHANGED <<claims, hookFaults>>
       \/ HookFault /\ NextHook(c) /\ UNCHANGED claims
    /\ UNCHANGED <<attached, hookRows, writing, runRow, proc, hookHist, hookCount>>

TookEffect(c) == fired' = [fired EXCEPT ![Current(c)[1]] = @ + 1]
Unnoticed(c) == TookEffect(c) /\ late' = [late EXCEPT ![Current(c)[1]] = @ + 1]
               /\ UNCHANGED cut
CutOff(c) == cut' = cut \cup {Current(c)} /\ UNCHANGED <<fired, late>>

\* run_action under the timeout: done, failed, or timed out with or without its effect.
RunAction(c) ==
    /\ AtPlace(c, "act")
    /\ \/ TookEffect(c) /\ NextHook(c) /\ UNCHANGED <<late, cut, hookFaults>>
       \/ HookFault /\ Move(c, "release") /\ (Unnoticed(c) \/ UNCHANGED <<fired, late, cut>>)
    /\ UNCHANGED <<attached, hookRows, writing, claims, runRow, proc, hookSent, forgets, hookCount>>

\* A failed dispatch gives its claim back; when that fails too, the claim stays.
ReleaseAfterM(c) == claims
ReleaseAfter(c) == claims \ {Current(c)}
ReleaseClaim(c) ==
    /\ AtPlace(c, "release") /\ NextHook(c)
    /\ \/ claims' = ReleaseAfter(c) /\ UNCHANGED <<cut, hookFaults>>
       \/ HookFault /\ cut' = cut \cup {Current(c)} /\ UNCHANGED claims
    /\ UNCHANGED <<attached, hookRows, writing, runRow, proc, hookSent, fired, late, forgets,
                   hookCount>>

(***************************************************************************)
(* EventForwarder: the goal's events come one at a time from its own task. *)
(***************************************************************************)
ForwardProgress ==
    /\ proc # "down" /\ disp["fwd"].place = "rest" /\ progress < MaxProgress
    /\ progress' = progress + 1
    /\ disp' = [disp EXCEPT !["fwd"] = Firing("Progress", attached)]
    /\ UNCHANGED <<attached, hookRows, writing, claims, runRow, proc, hookHist, hookOps,
                   hookFaults>>

ForwardCompleted(t) ==
    /\ proc # "down" /\ disp["fwd"].place = "rest"
    /\ disp' = [disp EXCEPT !["fwd"] = Firing(t, attached)]
    /\ UNCHANGED <<attached, hookRows, writing, claims, runRow, proc, hookHist, hookCount,
                   hookFaults>>

FwdFired == proc # "down" /\ disp["fwd"].place = "claim" /\ disp["fwd"].todo = <<>>

ProgressFired ==
    /\ FwdFired /\ disp["fwd"].t = "Progress" /\ Move("fwd", "rest")
    /\ UNCHANGED <<attached, hookRows, writing, claims, runRow, proc, hookHist, hookCount,
                   hookFaults>>

DropGoal == attached' = <<>> /\ writing' = Append(writing, [op |-> "drop", hook |-> "all"])

CompletedFired ==
    /\ FwdFired /\ disp["fwd"].t # "Progress" /\ DropGoal /\ Move("fwd", "forget")
    /\ UNCHANGED <<hookRows, claims, runRow, proc, hookHist, hookCount, hookFaults>>

ForgetGoal ==
    /\ proc # "down" /\ disp["fwd"].place = "forget" /\ Move("fwd", "over")
    /\ \/ claims' = {} /\ forgets' = forgets + 1 /\ UNCHANGED hookFaults
       \/ HookFault /\ UNCHANGED <<claims, forgets>>
    /\ UNCHANGED <<attached, hookRows, writing, runRow, proc, hookSent, fired, late, cut, hookCount>>

(***************************************************************************)
(* drain_running_goals.  Its own shorter timeout drops the dispatch where  *)
(* it stands: between claim and release the claim stays behind, and a      *)
(* statement already sent to SQLite lands later, or never.                 *)
(***************************************************************************)
BeginDrain ==
    /\ proc = "up" /\ disp["boot"].place = "rest" /\ proc' = "draining"
    /\ disp' = [disp EXCEPT !["drain"] =
                   IF runRow = "Running" THEN Firing("Cancelled", attached) ELSE Resting]
    /\ UNCHANGED <<attached, hookRows, writing, claims, runRow, hookHist, hookCount, hookFaults>>

DropDispatch ==
    /\ proc = "draining" /\ disp["drain"].todo # <<>> /\ HookFault /\ NextHook("drain")
    /\ LET h == Current("drain")[1] IN
       \/ /\ AtPlace("drain", "claim") /\ On[h] = disp["drain"].t
          /\ sentClaims' = [sentClaims EXCEPT ![h] = @ + 1]
          /\ UNCHANGED <<sentReleases, fired, late, cut>>
       \/ /\ AtPlace("drain", "act") /\ UNCHANGED hookSent
          /\ CutOff("drain") \/ (TookEffect("drain") /\ UNCHANGED <<late, cut>>)
       \/ /\ AtPlace("drain", "release") /\ CutOff("drain") /\ UNCHANGED sentClaims
          /\ \/ sentReleases' = [sentReleases EXCEPT ![h] = @ + 1]
             \/ UNCHANGED sentReleases
    /\ UNCHANGED <<attached, hookRows, writing, claims, runRow, proc, forgets, hookCount>>

\* A claim that lands now has nobody to act on it.
ClaimLands(h) ==
    /\ proc # "down" /\ sentClaims[h] > 0 /\ sentClaims' = [sentClaims EXCEPT ![h] = @ - 1]
    /\ claims' = claims \cup {<<h, "Cancelled">>}
    /\ cut' = cut \cup ({<<h, "Cancelled">>} \ claims)
    /\ UNCHANGED <<attached, hookRows, writing, runRow, proc, disp, sentReleases, fired, late,
                   forgets, hookCount, hookFaults>>

ReleaseLands(h) ==
    /\ proc # "down" /\ sentReleases[h] > 0
    /\ sentReleases' = [sentReleases EXCEPT ![h] = @ - 1]
    /\ claims' = claims \ {<<h, "Cancelled">>}
    /\ UNCHANGED <<attached, hookRows, writing, runRow, proc, disp, sentClaims, fired, late, cut,
                   forgets, hookCount, hookFaults>>

DrainDone ==
    /\ proc = "draining" /\ disp["drain"].place = "claim" /\ disp["drain"].todo = <<>>
    /\ disp' = [disp EXCEPT !["drain"] = Resting]
    /\ \/ runRow' = "ended" /\ UNCHANGED hookFaults
       \/ HookFault /\ UNCHANGED runRow
    /\ UNCHANGED <<attached, hookRows, writing, claims, proc, hookHist, hookCount>>

(***************************************************************************)
(* The process ends: drained, or killed between any two steps.             *)
(***************************************************************************)
Acting == {c \in Callers : AtPlace(c, "act") \/ AtPlace(c, "release")}
Stop ==
    /\ proc' = "down" /\ writing' = <<>> /\ attached' = <<>> 
    /\ sentClaims' = [h \in Hooks |-> 0] /\ sentReleases' = sentClaims'
    /\ cut' = cut \cup {Current(c) : c \in Acting}
    /\ \E took \in SUBSET {c \in Acting : disp[c].place = "act"} :
          fired' = [h \in Hooks |-> fired[h] + Cardinality({c \in took : Current(c)[1] = h})]
    /\ disp' = [c \in Callers |-> Resting]
    /\ UNCHANGED <<hookRows, claims, runRow, late, forgets, hookCount>>

Exit == proc = "draining" /\ disp["drain"].place = "rest" /\ Stop /\ UNCHANGED hookFaults
Kill == proc # "down" /\ HookFault /\ Stop

\* Reload of the hooks, whose failure is only logged, reattach (the lost row is written
\* before any hook fires), then the Failed hooks of a goal that was running.  No task runs
\* the goal any more.
BootSweep(hooks) == IF runRow = "Running" THEN Firing("Failed", hooks) ELSE Resting
BootHooks ==
    /\ proc = "down" /\ proc' = "up"
    /\ \/ attached' = SetToSeq(hookRows) /\ UNCHANGED hookFaults
       \/ attached' = <<>> /\ HookFault
    /\ runRow' = IF runRow = "Running" THEN "ended" ELSE runRow
    /\ disp' = [disp EXCEPT !["boot"] = BootSweep(attached'), !["fwd"].place = "over"]
    /\ UNCHANGED <<hookRows, writing, claims, hookHist, hookCount>>

BootDone ==
    /\ proc # "down" /\ disp["boot"].place = "claim" /\ disp["boot"].todo = <<>>
    /\ disp' = [disp EXCEPT !["boot"] = Resting]
    /\ UNCHANGED <<attached, hookRows, writing, claims, runRow, proc, hookHist, hookCount,
                   hookFaults>>

\* cancel_agent and the other terminal set_status calls; completion makes none.
SettleRow ==
    /\ proc # "down" /\ runRow = "Running" /\ runRow' = "ended"
    /\ UNCHANGED <<attached, hookRows, writing, claims, proc, disp, hookHist, hookCount,
                   hookFaults>>

\* evict_completed removes a finished goal's row; the sweep two seconds after a boot
\* drops the hooks of a goal the registry does not know.
EvictRow ==
    /\ proc # "down" /\ runRow = "ended" /\ runRow' = "gone"
    /\ UNCHANGED <<attached, hookRows, writing, claims, proc, disp, hookHist, hookCount,
                   hookFaults>>

OrphanSweep ==
    /\ proc # "down" /\ runRow = "gone" /\ attached # <<>> /\ DropGoal
    /\ UNCHANGED <<hookRows, claims, runRow, proc, disp, hookHist, hookCount, hookFaults>>

HooksNext ==
    \/ \E h \in Hooks : AddHook(h) \/ AddUnique(h) \/ RemoveHook(h) \/ ClaimLands(h) \/ ReleaseLands(h)
    \/ \E i \in DOMAIN writing : LandWrite(i)
    \/ \E c \in Callers : SkipHook(c) \/ TryClaim(c) \/ RunAction(c) \/ ReleaseClaim(c)
    \/ ForwardProgress \/ ProgressFired \/ CompletedFired \/ ForgetGoal
    \/ \E t \in Transitions \ {"Progress"} : ForwardCompleted(t)
    \/ BeginDrain \/ DropDispatch \/ DrainDone \/ Exit \/ Kill \/ BootHooks \/ BootDone
    \/ SettleRow \/ EvictRow \/ OrphanSweep

HooksSpec == HooksInit /\ [][HooksNext]_hookVars

(***************************************************************************)
(* Properties.                                                             *)
(***************************************************************************)
\* However forwarder, drain and boot sweep overlap and wherever the process is killed, a
\* hook's action takes effect at most once, plus once for each time it took effect while
\* its dispatch timed out and once if the goal's claims were forgotten in between
\* (try_claim before the action, release_claim after a failure, forget_goal at the end).
HookFiresOnce == \A h \in Hooks : fired[h] <= 1 + late[h] + forgets

\* A claim nobody is acting on stands for an action that took effect, unless the drain's
\* timeout, a kill or a failed release cut its dispatch off: only then is a hook that
\* never fired kept from firing later.
ClaimMeansFired ==
    \A h \in Hooks, t \in Transitions :
        <<h, t>> \in claims =>
            \/ fired[h] > 0 \/ <<h, t>> \in cut
            \/ \E c \in Acting : Current(c) = <<h, t>>
=============================================================================
