----------------------------- MODULE DreamLock ------------------------------
(***************************************************************************)
(* The consolidation lock of autoDream (crates/dream): a file whose mtime  *)
(* is lastConsolidatedAt and whose body is the holder's pid, taken without *)
(* any operating-system lock by runs of the same or of different processes *)
(* (AutoDreamRunner::run), and rolled back when a run fails.               *)
(***************************************************************************)
EXTENDS Naturals, FiniteSets

CONSTANTS Runs,        \* concurrent callers of AutoDreamRunner::run
          Pids,        \* process ids they run in
          MinHours,    \* config.min_hours, in ticks
          HolderStale, \* config.holder_stale, in ticks
          MaxClock,    \* bound: last tick
          MaxRuns      \* bound: runs begun and stamps

NoPid == "none"
ASSUME DreamAssumption == NoPid \notin Pids /\ {MinHours, HolderStale, MaxClock} \subseteq Nat

VARIABLES now,     \* the wall clock
          lock,    \* the lock file: there, mtime and body (a pid, or none when empty)
          pidOf,   \* the process each run is in
          dead,    \* processes that have died
          run,     \* per run: its place, prior_mtime, whether it was forced
          \* history and bounds
          taken,   \* when each run last acquired
          clean,   \* runs whose lock file nobody has written since they acquired it
          saw,     \* runs that held a sound lock when this run began to acquire
          runsBegun

dreamVars == <<now, lock, pidOf, dead, run, taken, clean, saw, runsBegun>>
Absent == [there |-> FALSE, mtime |-> 0, body |-> NoPid]
Asleep == [place |-> "idle", prior |-> 0, forced |-> FALSE]

DreamInit ==
    /\ now = 1 /\ lock = Absent /\ pidOf \in [Runs -> Pids] /\ dead = {}
    /\ run = [r \in Runs |-> Asleep] /\ taken = [r \in Runs |-> 0] /\ clean = {}
    /\ saw = [r \in Runs |-> {}] /\ runsBegun = 0

RunAt(r, p) == run[r].place = p /\ pidOf[r] \notin dead
Goto(r, p) == run' = [run EXCEPT ![r].place = p]
Quit(r) == run' = [run EXCEPT ![r] = Asleep]
Holds(r) == run[r].place = "forked" /\ ~run[r].forced
Sound(r) == Holds(r) /\ r \in clean /\ now < taken[r] + HolderStale

\* The file as a write leaves it.
Written(body) == [there |-> TRUE, mtime |-> now, body |-> body]

(***************************************************************************)
(* AutoDreamRunner::run: the time gate, then the lock unless it is forced. *)
(* Whether the other gates let it through is left open.                    *)
(***************************************************************************)
TimeGate == now >= lock.mtime + MinHours

BeginRunDream(r, force) ==
    /\ RunAt(r, "idle") /\ runsBegun < MaxRuns /\ runsBegun' = runsBegun + 1
    /\ force \/ TimeGate
    /\ run' = [run EXCEPT ![r] = [place |-> IF force THEN "forked" ELSE "stat",
                                  prior |-> lock.mtime, forced |-> force]]
    /\ saw' = [saw EXCEPT ![r] = {}]
    /\ UNCHANGED <<now, lock, pidOf, dead, taken, clean>>

(***************************************************************************)
(* try_acquire: stat, body, truncate, write, re-read, each a step.         *)
(***************************************************************************)
StatLock(r) ==
    /\ RunAt(r, "stat")
    /\ run' = [run EXCEPT ![r].prior = lock.mtime, ![r].place = "body"]
    /\ saw' = [saw EXCEPT ![r] = {s \in Runs \ {r} : Sound(s)}]
    /\ UNCHANGED <<now, lock, pidOf, dead, taken, clean, runsBegun>>

BlockedM(r) ==
    /\ run[r].prior > 0 /\ now < run[r].prior + HolderStale
    /\ lock.body \notin {NoPid, pidOf[r]} /\ lock.body \notin dead
Blocked(r) ==
    /\ run[r].prior > 0 /\ now < run[r].prior + HolderStale
    /\ lock.body # NoPid /\ lock.body \notin dead

ReadBody(r) ==
    /\ RunAt(r, "body")
    /\ IF Blocked(r) THEN Quit(r) ELSE Goto(r, "write")
    /\ UNCHANGED <<now, lock, pidOf, dead, taken, clean, saw, runsBegun>>

\* fs::write opens with truncation, which already moves the mtime; it may fail before.
TruncateLock(r) ==
    /\ RunAt(r, "write")
    /\ \/ lock' = Written(NoPid) /\ clean' = {} /\ Goto(r, "fill")
       \/ Quit(r) /\ UNCHANGED <<lock, clean>>
    /\ UNCHANGED <<now, pidOf, dead, taken, saw, runsBegun>>

\* A file unlinked since it was opened takes the pid with it.
WritePid(r) ==
    /\ RunAt(r, "fill") /\ Goto(r, "verify") /\ clean' = {}
    /\ lock' = IF lock.there THEN [lock EXCEPT !.body = pidOf[r], !.mtime = now] ELSE lock
    /\ UNCHANGED <<now, pidOf, dead, taken, saw, runsBegun>>

VerifyPid(r) ==
    /\ RunAt(r, "verify")
    /\ IF lock.there /\ lock.body = pidOf[r]
          THEN /\ Goto(r, "forked") /\ taken' = [taken EXCEPT ![r] = lock.mtime]
               /\ clean' = clean \cup {r}
          ELSE Quit(r) /\ UNCHANGED <<taken, clean>>
    /\ UNCHANGED <<now, lock, pidOf, dead, saw, runsBegun>>

(***************************************************************************)
(* The fork ends: well, and the file keeps pid and mtime, or not, and the  *)
(* lock is rolled back to prior_mtime, in two steps unless it is removed.  *)
(***************************************************************************)
Leave(r) == saw' = [s \in Runs |-> saw[s] \ {r}]

ForkDone(r) ==
    /\ RunAt(r, "forked") /\ Quit(r) /\ Leave(r) /\ clean' = clean \ {r}
    /\ UNCHANGED <<now, lock, pidOf, dead, taken, runsBegun>>

ForkFailed(r) ==
    /\ RunAt(r, "forked") /\ Leave(r) /\ clean' = {}
    /\ IF run[r].prior = 0 THEN lock' = Absent /\ Quit(r)
                           ELSE lock' = Written(NoPid) /\ Goto(r, "rewind")
    /\ UNCHANGED <<now, pidOf, dead, taken, runsBegun>>

\* set_file_mtime; it fails when the file is gone.
Rewind(r) ==
    /\ RunAt(r, "rewind") /\ Quit(r)
    /\ lock' = IF lock.there THEN [lock EXCEPT !.mtime = run[r].prior] ELSE lock
    /\ clean' = {}
    /\ UNCHANGED <<now, pidOf, dead, taken, saw, runsBegun>>

\* record_consolidation.
StampLock(p) ==
    /\ p \notin dead /\ runsBegun < MaxRuns /\ runsBegun' = runsBegun + 1
    /\ lock' = Written(p) /\ clean' = {}
    /\ UNCHANGED <<now, pidOf, dead, run, taken, saw>>

ProcessDies(p) ==
    /\ p \notin dead /\ dead' = dead \cup {p}
    /\ run' = [r \in Runs |-> IF pidOf[r] = p THEN Asleep ELSE run[r]]
    /\ saw' = [r \in Runs |-> {s \in saw[r] : pidOf[s] # p}]
    /\ UNCHANGED <<now, lock, pidOf, taken, clean, runsBegun>>

Tick ==
    /\ now < MaxClock /\ now' = now + 1
    /\ UNCHANGED <<lock, pidOf, dead, run, taken, clean, saw, runsBegun>>

DreamNext ==
    \/ \E r \in Runs : \E force \in BOOLEAN : BeginRunDream(r, force)
    \/ \E r \in Runs : \/ StatLock(r) \/ ReadBody(r) \/ TruncateLock(r) \/ WritePid(r)
                       \/ VerifyPid(r) \/ ForkDone(r) \/ ForkFailed(r) \/ Rewind(r)
    \/ \E p \in Pids : StampLock(p) \/ ProcessDies(p)
    \/ Tick

DreamSpec == DreamInit /\ [][DreamNext]_dreamVars

(***************************************************************************)
(* Properties.                                                             *)
(***************************************************************************)
\* One fork at a time: a run that begins try_acquire while another holds the lock gets no
\* further than the check of the body for as long as that holder is alive, younger than
\* holder_stale and the only writer of the file since it acquired.  What is excused is
\* what the file cannot show: a rollback or stamp by somebody else, a stale holder, and
\* acquisitions that overlap.
SoundHolderExcludes ==
    \A r \in Runs, s \in Runs :
        s \in saw[r] /\ Sound(s) => run[r].place \notin {"write", "fill", "verify", "forked"}
=============================================================================
