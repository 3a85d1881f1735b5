--------------------------- MODULE ServiceProofs ----------------------------
(*************************************************************************)
(* The safety invariants of four services that share no state, each for  *)
(* every value of its constants: the consolidation lock, sessions, the   *)
(* loop of the driver and the completion hooks.                          *)
(*************************************************************************)
EXTENDS DriverLoop, GoalHooks, Sessions, DreamLock, TLAPS, FiniteSetTheorems

(*************************************************************************)
(* DreamLock: SoundHolderExcludes for any number of runs and processes.  *)
(* The file of a holder that is still clean carries the holder's pid and *)
(* the time it was taken, and a run that met a sound holder at its stat  *)
(* has read just that time: so it finds the lock recent and its holder   *)
(* alive.                                                                *)
(*************************************************************************)

Places == {"idle", "stat", "body", "write", "fill", "verify", "forked", "rewind"}
RunRecords == [place : Places, prior : Nat, forced : BOOLEAN]
LockFiles == [there : BOOLEAN, mtime : Nat, body : Pids \cup {NoPid}]

ClockOK == now \in Nat \ {0} /\ runsBegun \in Nat
LockOK == lock \in LockFiles
RunsOK == run \in [Runs -> RunRecords] /\ pidOf \in [Runs -> Pids]
HistoryOK == taken \in [Runs -> Nat] /\ clean \subseteq Runs /\ saw \in [Runs -> SUBSET Runs]

\* A file that is there has a time, and so has what a rollback rewinds it to.
FileHasTime == /\ lock.there => lock.mtime > 0
               /\ \A r \in Runs : run[r].place = "rewind" => run[r].prior > 0
\* Nobody has written the file since a clean run acquired it.
CleanOwns == \A s \in clean : lock.there /\ lock.body = pidOf[s] /\ lock.mtime = taken[s]
\* The runs of a dead process are over.
DeadIsIdle == \A r \in Runs : pidOf[r] \in dead => run[r].place = "idle"
\* A holder that was seen has not left since.
SeenStays == \A r \in Runs : \A s \in saw[r] : Holds(s)
\* Between stat and body, the stat is that of a holder seen and still clean.
StatIsTaken == \A r \in Runs : \A s \in saw[r] \cap clean :
                  run[r].place = "body" => run[r].prior = taken[s]

DreamInv == /\ ClockOK /\ LockOK /\ RunsOK /\ HistoryOK /\ FileHasTime /\ CleanOwns
            /\ DeadIsIdle /\ SeenStays /\ StatIsTaken /\ SoundHolderExcludes

LEMMA WrittenType == ASSUME ClockOK, NEW b \in Pids \cup {NoPid}
                     PROVE  Written(b) \in LockFiles /\ Written(b).mtime > 0
BY DEF ClockOK, Written, LockFiles

\* The two ways a run moves on.
LEMMA Moves == ASSUME RunsOK, NEW r \in Runs, NEW p \in Places, Goto(r, p)
               PROVE  run' \in [Runs -> RunRecords]
BY DEF RunsOK, RunRecords, Goto

LEMMA Quits == ASSUME RunsOK, NEW r \in Runs, Quit(r)
               PROVE  run' \in [Runs -> RunRecords]
BY DEF RunsOK, RunRecords, Places, Quit, Asleep

LEMMA InitDreamInv == DreamInit => DreamInv
<1> SUFFICES ASSUME DreamInit PROVE DreamInv OBVIOUS
<1> USE DEF DreamInit, Absent, Asleep
<1>1. ClockOK /\ LockOK /\ RunsOK /\ HistoryOK
  BY DEF ClockOK, LockOK, RunsOK, HistoryOK, LockFiles, RunRecords, Places
<1>2. FileHasTime /\ CleanOwns /\ DeadIsIdle /\ SeenStays /\ StatIsTaken
  BY DEF FileHasTime, CleanOwns, DeadIsIdle, SeenStays, StatIsTaken
<1>3. SoundHolderExcludes BY DEF SoundHolderExcludes
<1> QED BY <1>1, <1>2, <1>3 DEF DreamInv

LEMMA StepBegin == ASSUME DreamInv, NEW r \in Runs, NEW force \in BOOLEAN, BeginRunDream(r, force)
                   PROVE  DreamInv'
<1> USE DEF BeginRunDream
<1>1. ClockOK' /\ LockOK' /\ RunsOK' /\ HistoryOK'
  BY DEF DreamInv, ClockOK, LockOK, RunsOK, HistoryOK, RunRecords, Places, LockFiles
<1>2. FileHasTime' BY DEF DreamInv, FileHasTime, RunsOK, RunRecords, Places
<1>3. CleanOwns' BY DEF DreamInv, CleanOwns
<1>4. DeadIsIdle' BY DEF DreamInv, DeadIsIdle, RunsOK, RunRecords, RunAt
<1>5. SeenStays' BY DEF DreamInv, SeenStays, RunsOK, RunRecords, HistoryOK, Holds, RunAt
<1>6. StatIsTaken' BY DEF DreamInv, StatIsTaken, RunsOK, RunRecords, HistoryOK
<1>7. SoundHolderExcludes'
  BY DEF DreamInv, SoundHolderExcludes, RunsOK, RunRecords, HistoryOK, Sound, Holds
<1> QED BY <1>1, <1>2, <1>3, <1>4, <1>5, <1>6, <1>7 DEF DreamInv

LEMMA StepStat == ASSUME DreamInv, NEW r \in Runs, StatLock(r) PROVE DreamInv'
<1> USE DEF StatLock
<1>1. ClockOK' /\ LockOK' /\ RunsOK' /\ HistoryOK'
  BY DEF DreamInv, ClockOK, LockOK, RunsOK, HistoryOK, RunRecords, Places, LockFiles
<1>2. FileHasTime' BY DEF DreamInv, FileHasTime, RunsOK, RunRecords, Places
<1>3. CleanOwns' BY DEF DreamInv, CleanOwns
<1>4. DeadIsIdle' BY DEF DreamInv, DeadIsIdle, RunsOK, RunRecords, RunAt
<1>5. SeenStays' BY DEF DreamInv, SeenStays, RunsOK, RunRecords, HistoryOK, Sound, Holds, RunAt
<1>6. StatIsTaken'
  BY DEF DreamInv, StatIsTaken, RunsOK, RunRecords, HistoryOK, CleanOwns
<1>7. SoundHolderExcludes'
  BY DEF DreamInv, SoundHolderExcludes, RunsOK, RunRecords, HistoryOK, Sound, Holds
<1> QED BY <1>1, <1>2, <1>3, <1>4, <1>5, <1>6, <1>7 DEF DreamInv

\* The one that matters: a run that met a sound holder is turned away.
LEMMA SeenBlocks == ASSUME DreamInv, NEW r \in Runs, NEW s \in saw[r], Sound(s),
                           run[r].place = "body"
                    PROVE  Blocked(r)
<1>1. s \in Runs /\ s \in clean BY DEF DreamInv, HistoryOK, Sound
<1>2. run[r].prior = taken[s] BY <1>1 DEF DreamInv, StatIsTaken
<1>3. lock.there /\ lock.body = pidOf[s] /\ lock.mtime = taken[s] BY <1>1 DEF DreamInv, CleanOwns
<1>4. taken[s] > 0 BY <1>3 DEF DreamInv, FileHasTime
<1>5. now < run[r].prior + HolderStale BY <1>2 DEF Sound
<1>6. lock.body # NoPid BY <1>1, <1>3, DreamAssumption DEF DreamInv, RunsOK, DreamAssumption
<1>7. lock.body \notin dead BY <1>1, <1>3 DEF DreamInv, DeadIsIdle, Sound, Holds
<1> QED BY <1>2, <1>4, <1>5, <1>6, <1>7 DEF Blocked

LEMMA StepReadBody == ASSUME DreamInv, NEW r \in Runs, ReadBody(r) PROVE DreamInv'
<1>0. ClockOK' /\ LockOK' /\ HistoryOK' BY DEF DreamInv, ClockOK, LockOK, HistoryOK, ReadBody
<1>1. RunsOK' BY Moves, Quits DEF DreamInv, RunsOK, ReadBody, Places
<1> USE DEF ReadBody, Goto, Quit, Asleep
<1>2. FileHasTime' BY DEF DreamInv, FileHasTime, RunsOK, RunRecords, Places
<1>3. CleanOwns' BY DEF DreamInv, CleanOwns
<1>4. DeadIsIdle' BY DEF DreamInv, DeadIsIdle, RunsOK, RunRecords, RunAt
<1>5. SeenStays' BY DEF DreamInv, SeenStays, RunsOK, RunRecords, HistoryOK, Holds, RunAt
<1>6. StatIsTaken' BY DEF DreamInv, StatIsTaken, RunsOK, RunRecords, HistoryOK
<1>7. SoundHolderExcludes'
  <2> SUFFICES ASSUME NEW q \in Runs, NEW s \in Runs, s \in saw'[q], Sound(s)'
               PROVE  run'[q].place \notin {"write", "fill", "verify", "forked"}
    BY DEF SoundHolderExcludes
  <2>1. s \in saw[q] OBVIOUS
  <2>2. Sound(s) BY <2>1 DEF DreamInv, SeenStays, Sound, Holds
  <2>3. CASE q = r
    <3>1. Blocked(r) BY <2>1, <2>2, <2>3, SeenBlocks DEF RunAt
    <3> QED BY <2>3, <3>1 DEF DreamInv, RunsOK, RunRecords
  <2>4. CASE q # r BY <2>1, <2>2, <2>4 DEF DreamInv, SoundHolderExcludes, RunsOK, RunRecords
  <2> QED BY <2>3, <2>4
<1> QED BY <1>0, <1>1, <1>2, <1>3, <1>4, <1>5, <1>6, <1>7 DEF DreamInv

\* After a write of the file nobody is clean, so nobody is sound.
LEMMA WritesSpare == ASSUME clean' = {}
                     PROVE  CleanOwns' /\ StatIsTaken' /\ SoundHolderExcludes'
BY DEF CleanOwns, StatIsTaken, SoundHolderExcludes, Sound

LEMMA StepTruncate == ASSUME DreamInv, NEW r \in Runs, TruncateLock(r) PROVE DreamInv'
<1>0. ClockOK' /\ HistoryOK' BY DEF DreamInv, ClockOK, HistoryOK, TruncateLock
<1>1. RunsOK' BY Moves, Quits DEF DreamInv, RunsOK, TruncateLock, Places
<1> USE DEF TruncateLock, Goto, Quit, Asleep
<1>2. LockOK' BY WrittenType DEF DreamInv, LockOK
<1>3. FileHasTime'
  BY WrittenType DEF DreamInv, FileHasTime, RunsOK, RunRecords, Places
<1>4. DeadIsIdle' BY DEF DreamInv, DeadIsIdle, RunsOK, RunRecords, RunAt
<1>5. SeenStays' BY DEF DreamInv, SeenStays, RunsOK, RunRecords, HistoryOK, Holds, RunAt
<1>6. CleanOwns' /\ StatIsTaken' /\ SoundHolderExcludes'
  <2>1. CASE clean' = {} BY <2>1, WritesSpare
  <2>2. CASE UNCHANGED <<lock, clean>> /\ Quit(r)
    <3>1. CleanOwns' BY <2>2 DEF DreamInv, CleanOwns
    <3>2. StatIsTaken' BY <2>2 DEF DreamInv, StatIsTaken, RunsOK, RunRecords, HistoryOK
    <3>3. SoundHolderExcludes'
      BY <2>2 DEF DreamInv, SoundHolderExcludes, RunsOK, RunRecords, HistoryOK, Sound, Holds
    <3> QED BY <3>1, <3>2, <3>3
  <2> QED BY <2>1, <2>2
<1> QED BY <1>0, <1>1, <1>2, <1>3, <1>4, <1>5, <1>6 DEF DreamInv

LEMMA StepWritePid == ASSUME DreamInv, NEW r \in Runs, WritePid(r) PROVE DreamInv'
<1> USE DEF WritePid, Goto
<1>1. ClockOK' /\ RunsOK' /\ HistoryOK'
  BY DEF DreamInv, ClockOK, RunsOK, HistoryOK, RunRecords, Places
<1>2. LockOK' BY DEF DreamInv, LockOK, LockFiles, RunsOK, ClockOK
<1>3. FileHasTime'
  BY DEF DreamInv, FileHasTime, RunsOK, RunRecords, LockOK, LockFiles, ClockOK
<1>4. DeadIsIdle' BY DEF DreamInv, DeadIsIdle, RunsOK, RunRecords, RunAt
<1>5. SeenStays' BY DEF DreamInv, SeenStays, RunsOK, RunRecords, HistoryOK, Holds, RunAt
<1>6. CleanOwns' /\ StatIsTaken' /\ SoundHolderExcludes' BY WritesSpare
<1> QED BY <1>1, <1>2, <1>3, <1>4, <1>5, <1>6 DEF DreamInv

\* The run that becomes clean was at its verify, so nobody can have seen it.
LEMMA StepVerify == ASSUME DreamInv, NEW r \in Runs, VerifyPid(r) PROVE DreamInv'
<1>0. ClockOK' /\ LockOK' BY DEF DreamInv, ClockOK, LockOK, VerifyPid
<1>1. RunsOK' BY Moves, Quits DEF DreamInv, RunsOK, VerifyPid, Places
<1> USE DEF VerifyPid, Goto, Quit, Asleep
<1>2. HistoryOK' BY DEF DreamInv, HistoryOK, LockOK, LockFiles
<1>3. FileHasTime' BY DEF DreamInv, FileHasTime, RunsOK, RunRecords
<1>4. CleanOwns' BY DEF DreamInv, CleanOwns, HistoryOK
<1>5. DeadIsIdle' BY DEF DreamInv, DeadIsIdle, RunsOK, RunRecords, RunAt
<1>6. \A q \in Runs : r \notin saw[q] BY DEF DreamInv, SeenStays, Holds, RunAt
<1>7. SeenStays' BY <1>6 DEF DreamInv, SeenStays, RunsOK, RunRecords, HistoryOK, Holds
<1>8. StatIsTaken'
  <2> SUFFICES ASSUME NEW q \in Runs, NEW s \in saw'[q] \cap clean', run'[q].place = "body"
               PROVE  run'[q].prior = taken'[s]
    BY DEF StatIsTaken
  <2>1. s \in saw[q] /\ s \in Runs /\ s # r BY <1>6 DEF DreamInv, HistoryOK
  <2>2. s \in clean /\ taken'[s] = taken[s] BY <2>1 DEF DreamInv, HistoryOK
  <2>3. q # r BY DEF DreamInv, RunsOK, RunRecords
  <2>4. run'[q] = run[q] BY <2>3 DEF DreamInv, RunsOK
  <2> QED BY <2>1, <2>2, <2>4 DEF DreamInv, StatIsTaken
<1>9. SoundHolderExcludes'
  <2> SUFFICES ASSUME NEW q \in Runs, NEW s \in Runs, s \in saw'[q], Sound(s)'
               PROVE  run'[q].place \notin {"write", "fill", "verify", "forked"}
    BY DEF SoundHolderExcludes
  <2>1. s \in saw[q] /\ s # r BY <1>6
  <2>2. Sound(s) BY <2>1 DEF DreamInv, RunsOK, RunRecords, HistoryOK, Sound, Holds
  <2>3. run[q].place \notin {"write", "fill", "verify", "forked"}
    BY <2>1, <2>2 DEF DreamInv, SoundHolderExcludes
  <2>4. q # r BY <2>3 DEF RunAt
  <2> QED BY <2>3, <2>4 DEF DreamInv, RunsOK, RunRecords
<1> QED BY <1>0, <1>1, <1>2, <1>3, <1>4, <1>5, <1>7, <1>8, <1>9 DEF DreamInv

LEMMA StepForkDone == ASSUME DreamInv, NEW r \in Runs, ForkDone(r) PROVE DreamInv'
<1> USE DEF ForkDone, Leave, Quit, Asleep
<1>1. ClockOK' /\ LockOK' /\ RunsOK' /\ HistoryOK'
  BY DEF DreamInv, ClockOK, LockOK, RunsOK, HistoryOK, RunRecords, Places
<1>2. FileHasTime' BY DEF DreamInv, FileHasTime, RunsOK, RunRecords
<1>3. CleanOwns' BY DEF DreamInv, CleanOwns
<1>4. DeadIsIdle' BY DEF DreamInv, DeadIsIdle, RunsOK, RunRecords, RunAt
<1>5. SeenStays' BY DEF DreamInv, SeenStays, RunsOK, RunRecords, HistoryOK, Holds
<1>6. StatIsTaken' BY DEF DreamInv, StatIsTaken, RunsOK, RunRecords, HistoryOK
<1>7. SoundHolderExcludes'
  BY DEF DreamInv, SoundHolderExcludes, RunsOK, RunRecords, HistoryOK, Sound, Holds
<1> QED BY <1>1, <1>2, <1>3, <1>4, <1>5, <1>6, <1>7 DEF DreamInv

LEMMA StepForkFailed == ASSUME DreamInv, NEW r \in Runs, ForkFailed(r) PROVE DreamInv'
<1>0. ClockOK' /\ HistoryOK' BY DEF DreamInv, ClockOK, HistoryOK, ForkFailed, Leave
<1>1. RunsOK' BY Moves, Quits DEF DreamInv, RunsOK, ForkFailed, Places
<1>2. LockOK'
  <2>1. Absent \in LockFiles BY DEF Absent, LockFiles
  <2> QED BY <2>1, WrittenType DEF DreamInv, LockOK, ForkFailed
<1> USE DEF ForkFailed, Leave, Goto, Quit, Asleep, Absent
<1>3. FileHasTime' BY WrittenType DEF DreamInv, FileHasTime, RunsOK, RunRecords
<1>4. DeadIsIdle' BY DEF DreamInv, DeadIsIdle, RunsOK, RunRecords, RunAt
<1>5. SeenStays' BY DEF DreamInv, SeenStays, RunsOK, RunRecords, HistoryOK, Holds
<1>6. CleanOwns' /\ StatIsTaken' /\ SoundHolderExcludes' BY WritesSpare
<1> QED BY <1>0, <1>1, <1>2, <1>3, <1>4, <1>5, <1>6 DEF DreamInv

LEMMA StepRewind == ASSUME DreamInv, NEW r \in Runs, Rewind(r) PROVE DreamInv'
<1> USE DEF Rewind, Quit, Asleep
<1>1. ClockOK' /\ RunsOK' /\ HistoryOK'
  BY DEF DreamInv, ClockOK, RunsOK, HistoryOK, RunRecords, Places
<1>2. LockOK' BY DEF DreamInv, LockOK, LockFiles, RunsOK, RunRecords
<1>3. FileHasTime' BY DEF DreamInv, FileHasTime, RunsOK, RunRecords, LockOK, LockFiles, RunAt
<1>4. DeadIsIdle' BY DEF DreamInv, DeadIsIdle, RunsOK, RunRecords, RunAt
<1>5. SeenStays' BY DEF DreamInv, SeenStays, RunsOK, RunRecords, HistoryOK, Holds, RunAt
<1>6. CleanOwns' /\ StatIsTaken' /\ SoundHolderExcludes' BY WritesSpare
<1> QED BY <1>1, <1>2, <1>3, <1>4, <1>5, <1>6 DEF DreamInv

LEMMA StepStamp == ASSUME DreamInv, NEW p \in Pids, StampLock(p) PROVE DreamInv'
<1> USE DEF StampLock
<1>1. ClockOK' /\ RunsOK' /\ HistoryOK' BY DEF DreamInv, ClockOK, RunsOK, HistoryOK
<1>2. LockOK' BY WrittenType DEF DreamInv, LockOK
<1>3. FileHasTime' BY WrittenType DEF DreamInv, FileHasTime
<1>4. DeadIsIdle' BY DEF DreamInv, DeadIsIdle
<1>5. SeenStays' BY DEF DreamInv, SeenStays, Holds
<1>6. CleanOwns' /\ StatIsTaken' /\ SoundHolderExcludes' BY WritesSpare
<1> QED BY <1>1, <1>2, <1>3, <1>4, <1>5, <1>6 DEF DreamInv

LEMMA StepDies == ASSUME DreamInv, NEW p \in Pids, ProcessDies(p) PROVE DreamInv'
<1> USE DEF ProcessDies, Asleep
<1>1. ClockOK' /\ LockOK' /\ RunsOK' /\ HistoryOK'
  BY DEF DreamInv, ClockOK, LockOK, RunsOK, HistoryOK, RunRecords, Places
<1>2. FileHasTime' BY DEF DreamInv, FileHasTime, RunsOK, RunRecords
<1>3. CleanOwns' BY DEF DreamInv, CleanOwns
<1>4. DeadIsIdle' BY DEF DreamInv, DeadIsIdle
<1>5. SeenStays' BY DEF DreamInv, SeenStays, HistoryOK, Holds
<1>6. StatIsTaken' BY DEF DreamInv, StatIsTaken, HistoryOK
<1>7. SoundHolderExcludes' BY DEF DreamInv, SoundHolderExcludes, HistoryOK, Sound, Holds
<1> QED BY <1>1, <1>2, <1>3, <1>4, <1>5, <1>6, <1>7 DEF DreamInv

LEMMA StepTick == ASSUME DreamInv, Tick PROVE DreamInv'
<1> USE DEF Tick
<1>1. ClockOK' /\ LockOK' /\ RunsOK' /\ HistoryOK'
  BY DEF DreamInv, ClockOK, LockOK, RunsOK, HistoryOK
<1>2. FileHasTime' /\ CleanOwns' /\ DeadIsIdle' BY DEF DreamInv, FileHasTime, CleanOwns, DeadIsIdle
<1>3. SeenStays' /\ StatIsTaken' BY DEF DreamInv, SeenStays, StatIsTaken, Holds
<1>4. SoundHolderExcludes'
  BY DreamAssumption
  DEF DreamInv, SoundHolderExcludes, Sound, Holds, ClockOK, HistoryOK, DreamAssumption
<1> QED BY <1>1, <1>2, <1>3, <1>4 DEF DreamInv

LEMMA Unmoved == ASSUME DreamInv, UNCHANGED dreamVars PROVE DreamInv'
<1> USE DEF dreamVars
<1>1. ClockOK' /\ LockOK' /\ RunsOK' /\ HistoryOK'
  BY DEF DreamInv, ClockOK, LockOK, RunsOK, HistoryOK
<1>2. FileHasTime' /\ CleanOwns' /\ DeadIsIdle' BY DEF DreamInv, FileHasTime, CleanOwns, DeadIsIdle
<1>3. SeenStays' /\ StatIsTaken' BY DEF DreamInv, SeenStays, StatIsTaken, Holds
<1>4. SoundHolderExcludes' BY DEF DreamInv, SoundHolderExcludes, Sound, Holds
<1> QED BY <1>1, <1>2, <1>3, <1>4 DEF DreamInv

LEMMA NextDreamInv == DreamInv /\ [DreamNext]_dreamVars => DreamInv'
<1> SUFFICES ASSUME DreamInv, [DreamNext]_dreamVars PROVE DreamInv' OBVIOUS
<1>1. ASSUME NEW r \in Runs, NEW force \in BOOLEAN, BeginRunDream(r, force) PROVE DreamInv'
  BY <1>1, StepBegin
<1>2. ASSUME NEW r \in Runs, \/ StatLock(r) \/ ReadBody(r) \/ TruncateLock(r) \/ WritePid(r)
                             \/ VerifyPid(r) \/ ForkDone(r) \/ ForkFailed(r) \/ Rewind(r)
      PROVE  DreamInv'
  BY <1>2, StepStat, StepReadBody, StepTruncate, StepWritePid, StepVerify, StepForkDone,
     StepForkFailed, StepRewind
<1>3. ASSUME NEW p \in Pids, StampLock(p) \/ ProcessDies(p) PROVE DreamInv'
  BY <1>3, StepStamp, StepDies
<1>4. CASE Tick BY <1>4, StepTick
<1>5. CASE UNCHANGED dreamVars BY <1>5, Unmoved
<1> QED BY <1>1, <1>2, <1>3, <1>4, <1>5 DEF DreamNext

\* One fork at a time, as far as the lock file can show it: while a run holds the lock,
\* alive, younger than holder_stale and as the only writer since it acquired, no run that
\* began try_acquire after it gets past the check of the body, for any number of runs,
\* processes and ticks (consolidation_lock.rs, try_acquire and rollback).
THEOREM HolderExcludes == DreamSpec => []SoundHolderExcludes
<1>1. DreamInv => SoundHolderExcludes BY DEF DreamInv
<1> QED BY InitDreamInv, NextDreamInv, <1>1, PTL DEF DreamSpec

-----------------------------------------------------------------------------
(*************************************************************************)
(* Sessions: SessionsBounded and CloseIsAnnounced for any cap, any       *)
(* finite set of callers and any ids. CloseIsAnnounced is inductive as   *)
(* it stands. The bound on the live sessions alone is not inductive,     *)
(* because a caller past enforce_cap has already been promised its       *)
(* place. What is preserved is a bound on the sessions that are live or  *)
(* about to be inserted.                                                 *)
(*************************************************************************)

UserPlaces == {"idle", "cap", "evict", "entry"}
SeenOK == seen \in [SessionIds -> Nat] /\ tick \in Nat \ {0}
UsersOK == user \in [Users -> [place : UserPlaces, id : SessionIds \cup {"none"},
                               victim : SessionIds \cup {"none"}]]
\* A caller on its way to the insert has an id, one that evicts has a victim.
CallersBusy == \A u \in Users : /\ user[u].place \in {"cap", "evict", "entry"} => user[u].id \in SessionIds
                                /\ user[u].place = "evict" => user[u].victim \in SessionIds
SweepOK == /\ DOMAIN sweep = {"ids", "left"}
           /\ sweep.ids \subseteq SessionIds /\ sweep.left \subseteq sweep.ids

\* The sessions there will be if every caller past enforce_cap inserts now.
Wanted == {user[u].id : u \in {v \in Users : user[v].place = "entry"}}
Expected == Live \cup Wanted
RoomForAll == MaxSessions > 0 => /\ IsFiniteSet(Expected)
                                 /\ Cardinality(Expected) < MaxSessions + Cardinality(Users)

SessionsInv == SeenOK /\ UsersOK /\ CallersBusy /\ SweepOK /\ RoomForAll /\ CloseIsAnnounced

\* Fewer sessions expected, no more room needed.
LEMMA FewerExpected ==
    ASSUME RoomForAll, Expected' \subseteq Expected
    PROVE  RoomForAll'
<1> SUFFICES ASSUME MaxSessions > 0
             PROVE  /\ IsFiniteSet(Expected')
                    /\ Cardinality(Expected') < MaxSessions + Cardinality(Users)
  BY DEF RoomForAll
<1>1. IsFiniteSet(Expected) /\ Cardinality(Expected) < MaxSessions + Cardinality(Users)
  BY DEF RoomForAll
<1>2. IsFiniteSet(Expected') /\ Cardinality(Expected') <= Cardinality(Expected)
  BY <1>1, FS_Subset
<1>3. /\ Cardinality(Expected) \in Nat /\ Cardinality(Expected') \in Nat
      /\ Cardinality(Users) \in Nat /\ MaxSessions \in Nat
  BY <1>1, <1>2, FS_CardinalityType, SessionsAssumption DEF SessionsAssumption
<1> QED BY <1>1, <1>2, <1>3

\* A caller that finds room may be followed by all the others.
LEMMA RoomFound ==
    ASSUME RoomForAll, NEW u \in Users, ~CapReached, Live' = Live, 
           Expected' \subseteq Live \cup {user'[v].id : v \in Users}
    PROVE  RoomForAll'
<1> SUFFICES ASSUME MaxSessions > 0
             PROVE  /\ IsFiniteSet(Expected')
                    /\ Cardinality(Expected') < MaxSessions + Cardinality(Users)
  BY DEF RoomForAll
<1> DEFINE ids == {user'[v].id : v \in Users}
<1>1. IsFiniteSet(Expected) /\ Live \subseteq Expected BY DEF RoomForAll, Expected
<1>2. IsFiniteSet(Live) BY <1>1, FS_Subset
<1>3. IsFiniteSet(Users) /\ MaxSessions \in Nat BY SessionsAssumption DEF SessionsAssumption
<1>4. IsFiniteSet(ids) /\ Cardinality(ids) <= Cardinality(Users)
  <2> DEFINE f == [v \in Users |-> user'[v].id]
  <2>1. f \in Surjection(Users, ids) BY DEF Surjection
  <2> QED BY <1>3, <2>1, FS_Surjection
<1>5. IsFiniteSet(Live \cup ids)
      /\ Cardinality(Live \cup ids) = Cardinality(Live) + Cardinality(ids) - Cardinality(Live \cap ids)
  BY <1>2, <1>4, FS_Union
<1>6. IsFiniteSet(Live \cap ids) BY <1>2, FS_Intersection
<1>7. IsFiniteSet(Expected') /\ Cardinality(Expected') <= Cardinality(Live \cup ids)
  BY <1>5, FS_Subset
<1>8. Cardinality(Live) < MaxSessions
  BY <1>2, <1>3, FS_CardinalityType DEF CapReached
<1>9. /\ Cardinality(Live) \in Nat /\ Cardinality(ids) \in Nat /\ Cardinality(Live \cap ids) \in Nat
      /\ Cardinality(Users) \in Nat /\ Cardinality(Expected') \in Nat
  BY <1>2, <1>3, <1>4, <1>6, <1>7, FS_CardinalityType
<1> QED BY <1>3, <1>4, <1>5, <1>7, <1>8, <1>9

LEMMA SessionsStep ==
    ASSUME SessionsInv, [SessionsNext]_sessionVars
    PROVE  SessionsInv'
<1> USE DEF SessionsInv
<1>1. \A i \in SessionIds : i \in Live <=> seen[i] > 0 BY DEF Live
<1>2. ASSUME NEW u \in Users, NEW i \in SessionIds, GetOrCreate(u, i) PROVE SessionsInv'
  <2> DEFINE pl == IF i \in Live THEN "entry" ELSE "cap"
  <2>0. user' = [user EXCEPT ![u].place = pl, ![u].id = i] /\ user[u].place = "idle"
        /\ UNCHANGED <<seen, tick, sweep, callbacks, owed>>
    BY <1>2 DEF GetOrCreate, UserAt
  <2>1. pl \in UserPlaces /\ (pl = "entry" => i \in Live) /\ pl # "evict" BY DEF UserPlaces
  <2> HIDE DEF pl
  <2>2. UsersOK' /\ CallersBusy' BY <2>0, <2>1 DEF UsersOK, CallersBusy
  <2>3. Live' = Live BY <2>0 DEF Live
  <2>4. \A v \in Users : user'[v].place = "entry" => user'[v].id \in Live \/ (user[v].place = "entry" /\ user'[v].id = user[v].id)
    BY <2>0, <2>1 DEF UsersOK
  <2>5. Expected' \subseteq Expected BY <2>3, <2>4 DEF Expected, Wanted
  <2>6. RoomForAll' BY <2>5, FewerExpected
  <2> QED BY <2>0, <2>2, <2>3, <2>6 DEF SeenOK, SweepOK, CloseIsAnnounced
<1>3. ASSUME NEW u \in Users, EnforceCap(u) PROVE SessionsInv'
  <2>1. UNCHANGED <<seen, tick, sweep, callbacks, owed>> /\ user[u].place = "cap"
    BY <1>3 DEF EnforceCap, UserAt
  <2>2. Live' = Live BY <2>1 DEF Live
  <2>3. UsersOK' /\ CallersBusy'
    BY <1>3, <2>1 DEF EnforceCap, UserTo, UsersOK, CallersBusy, UserPlaces
  <2>4. RoomForAll'
    <3>1. CASE CapReached
      <4>1. \A v \in Users : user'[v].place = "entry" => user[v].place = "entry" /\ user'[v].id = user[v].id
        BY <1>3, <3>1 DEF EnforceCap, UsersOK
      <4>2. Expected' \subseteq Expected BY <2>2, <4>1 DEF Expected, Wanted
      <4> QED BY <4>2, FewerExpected
    <3>2. CASE ~CapReached
      <4>1. Expected' \subseteq Live \cup {user'[v].id : v \in Users} BY <2>2 DEF Expected, Wanted
      <4> QED BY <2>2, <3>2, <4>1, RoomFound
    <3> QED BY <3>1, <3>2
  <2> QED BY <2>1, <2>2, <2>3, <2>4 DEF SeenOK, SweepOK, CloseIsAnnounced
\* Dropping a session, by whichever way.
<1>4. ASSUME NEW i \in SessionIds, Drop(i), tick' = tick 
      PROVE  SeenOK' /\ Live' = Live \ {i} /\ owed' \subseteq owed \cup {i}
             /\ (i \notin Live => owed' = owed)
  BY <1>4 DEF Drop, SeenOK, Live
<1>5. ASSUME NEW u \in Users, Evict(u) PROVE SessionsInv'
  <2> DEFINE i == user[u].victim
  <2>1. i \in SessionIds /\ Drop(i) /\ UNCHANGED <<tick, sweep>> /\ user[u].place = "evict"
        /\ user' = [user EXCEPT ![u].place = "cap", ![u].victim = "none"]
        /\ callbacks' = IF i \in Live THEN callbacks \cup {i} ELSE callbacks
    BY <1>5 DEF Evict, UserAt, DropAnd, CallersBusy
  <2>2. SeenOK' /\ Live' = Live \ {i} /\ owed' \subseteq owed \cup {i}
        /\ (i \notin Live => owed' = owed)
    BY <1>4, <2>1
  <2>3. UsersOK' /\ CallersBusy' BY <2>1 DEF UsersOK, CallersBusy, UserPlaces
  <2>4. \A v \in Users : user'[v].place = "entry" => user[v].place = "entry" /\ user'[v].id = user[v].id
    BY <2>1 DEF UsersOK
  <2>5. Expected' \subseteq Expected BY <2>2, <2>4 DEF Expected, Wanted
  <2>6. RoomForAll' BY <2>5, FewerExpected
  <2>7. CloseIsAnnounced' BY <2>1, <2>2 DEF CloseIsAnnounced
  <2> QED BY <2>1, <2>2, <2>3, <2>6, <2>7 DEF SweepOK
<1>6. ASSUME NEW u \in Users, InsertSession(u) PROVE SessionsInv'
  <2> DEFINE i == user[u].id
  <2>1. /\ i \in SessionIds /\ user[u].place = "entry" /\ UNCHANGED <<tick, sweep, callbacks, owed>>
        /\ seen' = [seen EXCEPT ![i] = tick]
        /\ user' = [user EXCEPT ![u] = [place |-> "idle", id |-> "none", victim |-> "none"]]
    BY <1>6 DEF InsertSession, UserAt, CallersBusy
  <2>2. SeenOK' /\ Live' = Live \cup {i} BY <2>1 DEF SeenOK, Live
  <2>3. UsersOK' /\ CallersBusy' BY <2>1 DEF UsersOK, CallersBusy, UserPlaces
  <2>4. \A v \in Users : user'[v].place = "entry" => user[v].place = "entry" /\ user'[v].id = user[v].id
    BY <2>1 DEF UsersOK
  <2>5. i \in Expected BY <2>1 DEF Expected, Wanted
  <2>6. Expected' \subseteq Expected BY <2>2, <2>4, <2>5 DEF Expected, Wanted
  <2>7. RoomForAll' BY <2>6, FewerExpected
  <2> QED BY <2>1, <2>2, <2>3, <2>7 DEF SweepOK, CloseIsAnnounced
\* The other steps leave the callers alone, and at most drop sessions.
<1>7. ASSUME user' = user, SeenOK', SweepOK', CloseIsAnnounced', Live' \subseteq Live PROVE SessionsInv'
  <2>1. Expected' \subseteq Expected BY <1>7 DEF Expected, Wanted
  <2>2. RoomForAll' BY <2>1, FewerExpected
  <2> QED BY <1>7, <2>2 DEF UsersOK, CallersBusy
<1>8. ASSUME NEW i \in SessionIds, Touch(i) \/ \E when \in 1..MaxTick : UpdateSession(i, when)
      PROVE  SessionsInv'
  <2>1. PICK when \in Nat \ {0} : seen' = [seen EXCEPT ![i] = when] /\ i \in Live
    BY <1>8, SessionsAssumption DEF Touch, UpdateSession, SeenOK, SessionsAssumption
  <2>2. UNCHANGED <<tick, user, sweep, callbacks, owed>> BY <1>8 DEF Touch, UpdateSession
  <2>3. SeenOK' /\ Live' = Live BY <2>1, <2>2 DEF SeenOK, Live
  <2> QED BY <1>7, <2>2, <2>3 DEF SweepOK, CloseIsAnnounced
<1>9. ASSUME NEW i \in SessionIds, DeleteSession(i) PROVE SessionsInv'
  <2>1. Drop(i) /\ UNCHANGED <<tick, user, sweep>>
        /\ callbacks' = IF i \in Live THEN callbacks \cup {i} ELSE callbacks
    BY <1>9 DEF DeleteSession, DropAnd
  <2>2. SeenOK' /\ Live' = Live \ {i} /\ owed' \subseteq owed \cup {i}
        /\ (i \notin Live => owed' = owed)
    BY <1>4, <2>1
  <2> QED BY <1>7, <2>1, <2>2 DEF SweepOK, CloseIsAnnounced
<1>10. ASSUME NEW i \in SessionIds, SweepRemove(i) PROVE SessionsInv'
  <2>1. /\ Drop(i) /\ UNCHANGED <<tick, user, callbacks>> /\ i \in sweep.left
        /\ sweep' = [sweep EXCEPT !.left = @ \ {i}]
    BY <1>10 DEF SweepRemove
  <2>2. SeenOK' /\ Live' = Live \ {i} /\ owed' \subseteq owed \cup {i}
        /\ (i \notin Live => owed' = owed)
    BY <1>4, <2>1
  <2>3. SweepOK' /\ sweep'.ids = sweep.ids BY <2>1 DEF SweepOK
  <2> QED BY <1>7, <2>1, <2>2, <2>3 DEF SweepOK, CloseIsAnnounced
<1>11. ASSUME NEW i \in SessionIds, RunCallback(i) PROVE SessionsInv'
  <2>1. UNCHANGED <<seen, tick, user, sweep>> /\ callbacks' = callbacks \ {i} /\ owed' = owed \ {i}
    BY <1>11 DEF RunCallback
  <2> QED BY <1>7, <2>1 DEF SeenOK, SweepOK, CloseIsAnnounced, Live
<1>12. CASE SweepCollect
  <2>1. UNCHANGED <<seen, tick, user, callbacks, owed>> /\ sweep.ids = {} BY <1>12 DEF SweepCollect
  <2>2. SweepOK' BY <1>12 DEF SweepCollect, SweepOK
  <2> QED BY <1>7, <2>1, <2>2 DEF SeenOK, CloseIsAnnounced, Live
<1>13. CASE SweepCall
  <2>1. /\ UNCHANGED <<seen, tick, user, owed>> /\ callbacks' = callbacks \cup sweep.ids
        /\ sweep' = [ids |-> {}, left |-> {}]
    BY <1>13 DEF SweepCall
  <2> QED BY <1>7, <2>1 DEF SeenOK, SweepOK, CloseIsAnnounced, Live
<1>14. CASE SessionTick \/ UNCHANGED sessionVars
  <2>1. UNCHANGED <<seen, user, sweep, callbacks, owed>> /\ (tick' = tick \/ tick' = tick + 1)
    BY <1>14 DEF SessionTick, sessionVars
  <2> QED BY <1>7, <2>1 DEF SeenOK, SweepOK, CloseIsAnnounced, Live
<1> QED BY <1>2, <1>3, <1>5, <1>6, <1>8, <1>9, <1>10, <1>11, <1>12, <1>13, <1>14 DEF SessionsNext

LEMMA SessionsInvariance == SessionsSpec => []SessionsInv
<1>1. SessionsInit => SessionsInv
  <2> SUFFICES ASSUME SessionsInit PROVE SessionsInv OBVIOUS
  <2>1. Live = {} /\ Wanted = {} BY DEF SessionsInit, Live, Wanted
  <2>2. RoomForAll
    <3>1. Expected = {} BY <2>1 DEF Expected
    <3>2. IsFiniteSet(Expected) /\ Cardinality(Expected) = 0 BY <3>1, FS_EmptySet
    <3>3. Cardinality(Users) \in Nat /\ MaxSessions \in Nat
      BY FS_CardinalityType, SessionsAssumption DEF SessionsAssumption
    <3> QED BY <3>2, <3>3 DEF RoomForAll
  <2> QED BY <2>1, <2>2 DEF SessionsInit, SessionsInv, SeenOK, UsersOK, CallersBusy, SweepOK, UserPlaces,
                            CloseIsAnnounced
<1>2. SessionsInv /\ [SessionsNext]_sessionVars => SessionsInv' BY SessionsStep
<1> QED BY <1>1, <1>2, PTL DEF SessionsSpec

\* SessionManager: for any number of callers and ids the map passes max_sessions
\* by at most the callers between enforce_cap and their insert.
THEOREM SessionsStayBounded == SessionsSpec => []SessionsBounded
<1>1. SessionsInv => SessionsBounded
  <2> SUFFICES ASSUME SessionsInv, MaxSessions > 0
               PROVE  Cardinality(Live) < MaxSessions + Cardinality(Users)
    BY DEF SessionsBounded
  <2>1. IsFiniteSet(Expected) /\ Cardinality(Expected) < MaxSessions + Cardinality(Users)
    BY DEF SessionsInv, RoomForAll
  <2>2. IsFiniteSet(Live) /\ Cardinality(Live) <= Cardinality(Expected)
    BY <2>1, FS_Subset DEF Expected
  <2>3. /\ Cardinality(Live) \in Nat /\ Cardinality(Expected) \in Nat
        /\ Cardinality(Users) \in Nat /\ MaxSessions \in Nat
    BY <2>1, <2>2, FS_CardinalityType, SessionsAssumption DEF SessionsAssumption
  <2> QED BY <2>1, <2>2, <2>3
<1> QED BY <1>1, SessionsInvariance, PTL

\* SessionManager: whoever drops a session, and however often its id comes back
\* meanwhile, an on_expire callback is still to run for it.
THEOREM EveryCloseAnnounced == SessionsSpec => []CloseIsAnnounced
<1>1. SessionsInv => CloseIsAnnounced BY DEF SessionsInv
<1> QED BY <1>1, SessionsInvariance, PTL

-----------------------------------------------------------------------------
(*************************************************************************)
(* DriverLoop: PauseHolds and RetriesBounded for any budget. For the     *)
(* pause it is enough that an attempt past the gate has not slipped yet. *)
(* For the retries the argument is a potential: the work attempts made   *)
(* so far are paid for by the turns charged, each worth its retries,     *)
(* itself and one wake-up turn that a compaction swallows, by the        *)
(* failures counted since, and by the attempt in flight.                 *)
(*************************************************************************)

LoopPlaces == {"idle", "top", "checked", "turn", "asleep", "closing", "done", "failed"}
CtlOK == DOMAIN ctl = {"known", "paused", "cancelled", "override"}

\* Only an attempt past the gate when pause_goal came may still begin.
PauseInv == /\ CtlOK /\ slips \in {0, 1}
            /\ at = "checked" /\ ctl.paused /\ ~ctl.cancelled => slips = 0

\* DriverLoop: at most one attempt begins between pause_goal and the resume, wherever
\* run_goal was when the pause came.
THEOREM PauseIsObeyed == LoopSpec => []PauseHolds
<1>1. LoopInit => PauseInv BY DEF LoopInit, NoCtl, PauseInv, CtlOK
<1>2. ASSUME PauseInv, [LoopNext]_loopVars PROVE PauseInv'
  <2> USE <1>2 DEF PauseInv, CtlOK
  <2>1. CASE BeginRun BY <2>1 DEF BeginRun
  <2>2. CASE PassGate BY <2>2 DEF PassGate, PauseGate
  <2>3. CASE StopAtTop \/ AttemptFails BY <2>3 DEF StopAtTop, AttemptFails
  <2>4. CASE StartAttempt BY <2>4 DEF StartAttempt
  <2>5. CASE WakeUp BY <2>5 DEF WakeUp
  <2>6. CASE CleanUp BY <2>6 DEF CleanUp, NoCtl
  <2>7. ASSUME NEW o \in Outcomes, CompactReturns(o) \/ WorkReturns(o) PROVE PauseInv'
    <3>1. at' \in {"top", "asleep", "closing"} /\ UNCHANGED <<ctl, slips>>
      BY <2>7 DEF CompactReturns, WorkReturns, GoesTo
    <3> QED BY <3>1
  <2>8. CASE PreRegister BY <2>8 DEF PreRegister, Signalled, Call, goalVars
  <2>9. CASE PauseGoal BY <2>9 DEF PauseGoal, Signalled, Call, goalVars
  <2>10. CASE ResumeGoal BY <2>10 DEF ResumeGoal, Signalled, Call, goalVars
  <2>11. CASE CancelGoal BY <2>11 DEF CancelGoal, Signalled, Call, goalVars
  <2>12. CASE \E n \in NewMaxTurns : SetGoalMaxTurns(n)
    BY <2>12 DEF SetGoalMaxTurns, Signalled, Call, goalVars
  <2>13. CASE InterruptGoal \/ OtherCompact BY <2>13 DEF InterruptGoal, OtherCompact, Call, goalVars
  <2>14. CASE UNCHANGED loopVars BY <2>14 DEF loopVars, goalVars
  <2> QED BY <2>1, <2>2, <2>3, <2>4, <2>5, <2>6, <2>7, <2>8, <2>9, <2>10, <2>11, <2>12, <2>13, <2>14
          DEF LoopNext, RunGoalStep, Operator
<1>3. PauseInv => PauseHolds BY DEF PauseInv, PauseHolds
<1> QED BY <1>1, <1>2, <1>3, PTL DEF LoopSpec

------------------------------------------------------------------------------
\* A turn of the budget pays for its retries, for itself and for one swallowed turn.
PerTurn == MaxErrors + 2

\* A wake-up turn scheduled while last_was_compact is set: its outcome goes to the
\* breaker and is not counted.
Swallow == IF wasCompact /\ at # "turn" /\ (at = "asleep" \/ extras = "tick") THEN 1 ELSE 0
\* A work attempt whose outcome has not been counted yet, or never will be.
Flight == IF at \in {"turn", "failed"} /\ prompt = "work" /\ ~wasCompact THEN 1 ELSE 0

LoopTyped ==
    /\ at \in LoopPlaces /\ used \in [turns : Nat, errors : Nat, c413 : Nat]
    /\ extras \in {"none", "compact", "tick"} /\ work \in Nat
    /\ CtlOK /\ ctl.override \in Nat
Limits == /\ used.turns <= Grown /\ used.errors <= MaxErrors /\ used.c413 <= Max413
          /\ ctl.override <= Grown
Running == at = "turn" => /\ extras = "none" /\ used.turns < Grown
                          /\ used.errors < MaxErrors /\ used.c413 < Max413
CompactPlanned == wasCompact => at \in {"turn", "failed"} \/ extras \in {"compact", "tick"}
Plain == at \in {"idle", "failed"} => extras = "none"
Charged == /\ work + Swallow <= used.turns * PerTurn + used.errors + used.c413 + Flight
           /\ used.turns = Grown => work + Swallow <= used.turns * PerTurn + used.c413

RetryInv == LoopTyped /\ Limits /\ Running /\ CompactPlanned /\ Plain /\ Charged

LEMMA GrownIsMax ==
    /\ Grown \in Nat /\ MaxTurns <= Grown
    /\ \A n \in NewMaxTurns : n <= Grown
<1>1. CASE NewMaxTurns = {} BY <1>1, LoopAssumption DEF LoopAssumption, Grown
<1>2. CASE NewMaxTurns # {}
  <2> DEFINE m == CHOOSE n \in NewMaxTurns : \A k \in NewMaxTurns : k <= n
  <2>1. \E n \in NewMaxTurns : \A k \in NewMaxTurns : k <= n BY <1>2, LoopAssumption DEF LoopAssumption
  <2>2. m \in NewMaxTurns /\ \A k \in NewMaxTurns : k <= m BY <2>1
  <2>3. Grown = Larger(MaxTurns, m) BY <1>2 DEF Grown
  <2> HIDE DEF m
  <2> QED BY <2>2, <2>3, LoopAssumption DEF LoopAssumption, Larger
<1> QED BY <1>1, <1>2

LEMMA TimesSucc == ASSUME NEW a \in Nat, NEW k \in Nat PROVE (a + 1) * k = a * k + k /\ a * k \in Nat
OBVIOUS

LEMMA TimesMono == ASSUME NEW a \in Nat, NEW b \in Nat, NEW k \in Nat, a <= b PROVE a * k <= b * k
<1>1. b - a \in Nat /\ b = a + (b - a) OBVIOUS
<1>2. b * k = a * k + (b - a) * k BY <1>1
<1>3. (b - a) * k \in Nat /\ a * k \in Nat BY <1>1
<1> QED BY <1>2, <1>3

\* The outcome of a work turn uses up a turn, a retry or a compaction.
LEMMA WorkCounted ==
    ASSUME LoopTyped, NEW o \in Outcomes
    PROVE  \/ /\ UsedAfter(o) = [turns |-> used.turns + 1, errors |-> 0, c413 |-> used.c413]
              /\ GoesTo(o) \in {"asleep", "closing", "top"}
           \/ /\ UsedAfter(o) = [turns |-> used.turns + 1, errors |-> used.errors, c413 |-> used.c413]
              /\ GoesTo(o) \in {"closing", "top"}
           \/ /\ UsedAfter(o) = [turns |-> used.turns, errors |-> used.errors + 1, c413 |-> used.c413]
              /\ GoesTo(o) \in {"closing", "top"}
           \/ /\ UsedAfter(o) = [turns |-> used.turns, errors |-> used.errors, c413 |-> used.c413 + 1]
              /\ GoesTo(o) \in {"closing", "top"}
<1>1. CASE o \in {"Done", "NeedsRetry", "Sleep"}
  BY <1>1 DEF LoopTyped, UsedAfter, GoesTo, Errors
<1>2. CASE o = "Cancelled" BY <1>2 DEF LoopTyped, UsedAfter, GoesTo, Errors
<1>3. CASE o = "413" BY <1>3 DEF LoopTyped, UsedAfter, GoesTo, Errors, Replay
<1>4. CASE o = "session" BY <1>4 DEF LoopTyped, UsedAfter, GoesTo, Errors, Replay
<1>5. CASE o = "transient"
  <2>1. used.errors < MaxFresh \/ used.errors >= MaxFresh BY LoopAssumption DEF LoopTyped, LoopAssumption
  <2> QED BY <1>5, <2>1, LoopAssumption DEF LoopTyped, UsedAfter, GoesTo, Errors, Replay, LoopAssumption
<1>6. CASE o = "other" BY <1>6 DEF LoopTyped, UsedAfter, GoesTo, Errors, Replay
<1> QED BY <1>1, <1>2, <1>3, <1>4, <1>5, <1>6 DEF Outcomes, Errors

LEMMA RetryStep ==
    ASSUME MaxErrors > 0, Max413 > 0, RetryInv, [LoopNext]_loopVars
    PROVE  RetryInv'
<1> USE DEF RetryInv
<1>0. /\ Grown \in Nat /\ MaxTurns \in Nat /\ MaxErrors \in Nat /\ Max413 \in Nat /\ PerTurn \in Nat
      /\ PerTurn = MaxErrors + 2 /\ MaxTurns <= Grown
  BY GrownIsMax, LoopAssumption DEF LoopAssumption, PerTurn
<1>1. used.turns * PerTurn \in Nat /\ (used.turns + 1) * PerTurn = used.turns * PerTurn + PerTurn
  BY <1>0, TimesSucc DEF LoopTyped
\* A step that moves the loop and schedules or prompts nothing.
<1>2. ASSUME CtlOK', ctl'.override \in Nat, ctl'.override <= Grown,
             UNCHANGED <<used, wasCompact, prompt, work>>,
             \/ UNCHANGED <<at, extras>>
             \/ at \in {"idle", "top", "checked"} /\ at' \in {"top", "checked", "closing"} /\ extras' = extras
             \/ at = "closing" /\ at' = "done" /\ extras' = extras
             \/ at = "asleep" /\ at' = "closing" /\ extras' = extras
             \/ at = "asleep" /\ at' = "top" /\ extras' = "tick"
      PROVE  RetryInv'
  <2>1. LoopTyped' /\ Limits' /\ Running' /\ CompactPlanned' /\ Plain'
    BY <1>0, <1>2 DEF LoopTyped, Limits, Running, CompactPlanned, Plain, LoopPlaces
  <2>2. Swallow' \in Nat /\ Swallow \in Nat /\ Swallow' <= Swallow BY <1>2 DEF Swallow
  <2>3. Flight' = Flight /\ Flight \in Nat BY <1>2 DEF Flight
  <2>4. Charged' BY <1>0, <1>1, <1>2, <2>2, <2>3 DEF Charged, LoopTyped
  <2> QED BY <2>1, <2>4
<1>3. CASE BeginRun
  <2>1. CtlOK' /\ ctl'.override = ctl.override /\ UNCHANGED <<used, extras, wasCompact, prompt, work>>
        /\ at = "idle" /\ at' \in {"top", "failed"}
    BY <1>3 DEF BeginRun, CtlOK, LoopTyped
  <2>2. CASE at' = "top" BY <1>2, <2>1, <2>2 DEF LoopTyped, Limits
  <2>3. CASE at' = "failed"
    <3>1. LoopTyped' /\ Limits' /\ Running' /\ CompactPlanned' /\ Plain'
      BY <1>0, <2>1, <2>3 DEF LoopTyped, Limits, Running, CompactPlanned, Plain, LoopPlaces
    <3>2. Swallow' = Swallow /\ Swallow \in Nat BY <2>1, <2>3 DEF Swallow
    <3>3. Flight = 0 /\ Flight' \in {0, 1} BY <2>1 DEF Flight
    <3>4. Charged' BY <1>0, <1>1, <2>1, <3>2, <3>3 DEF Charged, LoopTyped
    <3> QED BY <3>1, <3>4
  <2> QED BY <2>1, <2>2, <2>3
<1>4. CASE PassGate \/ StopAtTop
  <2>1. UNCHANGED <<ctl, used, wasCompact, prompt, work, extras>> /\ at \in {"top", "checked"}
        /\ at' \in {"checked", "closing"}
    BY <1>4 DEF PassGate, StopAtTop
  <2> QED BY <1>2, <2>1 DEF LoopTyped, Limits, CtlOK
<1>5. CASE StartAttempt
  <2>1. /\ at = "checked" /\ at' = "turn" /\ ~IsExhausted /\ prompt' = PromptOf(extras) /\ extras' = "none"
        /\ work' = IF prompt' = "work" THEN work + 1 ELSE work
        /\ UNCHANGED <<used, wasCompact, ctl>>
    BY <1>5 DEF StartAttempt
  <2>2. EffectiveTurns <= Grown /\ EffectiveTurns \in Nat
    BY <1>0 DEF EffectiveTurns, Larger, LoopTyped, Limits
  <2>3. used.turns < Grown /\ used.errors < MaxErrors /\ used.c413 < Max413
    BY <1>0, <2>1, <2>2 DEF IsExhausted, LoopTyped
  <2>4. LoopTyped' /\ Limits' /\ Running' /\ CompactPlanned' /\ Plain'
    BY <2>1, <2>3 DEF LoopTyped, Limits, Running, CompactPlanned, Plain, LoopPlaces, CtlOK
  <2>5. Swallow' = 0 /\ Flight = 0 BY <2>1 DEF Swallow, Flight
  <2>6. work' \in Nat /\ work' <= work + Swallow + Flight' /\ Flight' \in Nat /\ Swallow \in Nat
    <3>1. CASE extras = "compact" BY <2>1, <3>1 DEF PromptOf, Swallow, Flight, LoopTyped
    <3>2. CASE extras = "none" BY <2>1, <3>2 DEF PromptOf, Swallow, Flight, LoopTyped, CompactPlanned
    <3>3. CASE extras = "tick" BY <2>1, <3>3 DEF PromptOf, Swallow, Flight, LoopTyped
    <3> QED BY <3>1, <3>2, <3>3 DEF LoopTyped
  <2>7. Charged'
    <3>1. used'.turns # Grown BY <1>0, <2>1, <2>3 DEF LoopTyped
    <3>2. work + Swallow <= used.turns * PerTurn + used.errors + used.c413 BY <2>5, <1>1 DEF Charged, LoopTyped
    <3>3. work' <= used.turns * PerTurn + used.errors + used.c413 + Flight'
      <4>1. used.turns * PerTurn + used.errors + used.c413 \in Nat /\ work \in Nat BY <1>1 DEF LoopTyped
      <4>2. PICK b \in Nat : b = used.turns * PerTurn + used.errors + used.c413 BY <4>1
      <4>3. PICK f \in Nat : f = Flight' BY <2>6
      <4>4. PICK s \in Nat : s = Swallow BY <2>6
      <4>5. work \in Nat /\ work' \in Nat BY <2>6, <4>1
      <4>6. work' <= work + s + f BY <2>6, <4>3, <4>4
      <4>7. work + s <= b BY <3>2, <4>2, <4>4
      <4>8. work' <= b + f BY <4>5, <4>6, <4>7
      <4> QED BY <4>2, <4>3, <4>8
    <3> QED BY <2>1, <2>5, <2>6, <3>1, <3>3 DEF Charged
  <2> QED BY <2>4, <2>7
<1>6. CASE AttemptFails
  <2>1. at = "turn" /\ at' = "failed" /\ UNCHANGED <<used, extras, wasCompact, prompt, ctl, work>>
    BY <1>6 DEF AttemptFails
  <2>2. LoopTyped' /\ Limits' /\ Running' /\ CompactPlanned' /\ Plain'
    BY <2>1 DEF LoopTyped, Limits, Running, CompactPlanned, Plain, LoopPlaces, CtlOK
  <2>3. Swallow = 0 /\ Swallow' = 0 /\ Flight' = Flight /\ Flight \in Nat
    BY <2>1 DEF Swallow, Flight, Running
  <2>4. Charged' BY <1>0, <1>1, <2>1, <2>3 DEF Charged, LoopTyped
  <2> QED BY <2>2, <2>4
<1>7. CASE WakeUp
  <2>1. UNCHANGED <<ctl, used, wasCompact, prompt, work>> /\ at = "asleep"
        /\ ((at' = "closing" /\ extras' = extras) \/ (at' = "top" /\ extras' = "tick"))
    BY <1>7 DEF WakeUp
  <2> QED BY <1>2, <2>1 DEF LoopTyped, Limits, CtlOK
<1>8. CASE CleanUp
  <2>1. UNCHANGED <<used, wasCompact, prompt, work, extras>> /\ at = "closing" /\ at' = "done" /\ ctl' = NoCtl
    BY <1>8 DEF CleanUp
  <2>2. CtlOK' /\ ctl'.override = 0 BY <2>1 DEF CtlOK, NoCtl
  <2> QED BY <1>0, <1>2, <2>1, <2>2
<1>9. ASSUME NEW o \in Outcomes, CompactReturns(o) PROVE RetryInv'
  <2>1. at = "turn" /\ at' = "top" /\ wasCompact /\ ~wasCompact' /\ UNCHANGED <<used, extras, prompt, ctl, work>>
    BY <1>9 DEF CompactReturns, CanReturn
  <2>2. LoopTyped' /\ Limits' /\ Running' /\ CompactPlanned' /\ Plain'
    BY <2>1 DEF LoopTyped, Limits, Running, CompactPlanned, Plain, LoopPlaces, CtlOK
  <2>3. Swallow = 0 /\ Swallow' = 0 /\ Flight = 0 /\ Flight' = 0 BY <2>1 DEF Swallow, Flight
  <2>4. Charged' BY <1>0, <1>1, <2>1, <2>3 DEF Charged, LoopTyped
  <2> QED BY <2>2, <2>4
<1>10. ASSUME NEW o \in Outcomes, WorkReturns(o) PROVE RetryInv'
  <2>1. /\ at = "turn" /\ ~wasCompact /\ used' = UsedAfter(o) /\ at' = GoesTo(o)
        /\ ((extras' = "compact" /\ wasCompact') \/ UNCHANGED <<extras, wasCompact>>)
        /\ UNCHANGED <<prompt, ctl, work>>
    BY <1>10 DEF WorkReturns, CanReturn, ScheduleCompact
  <2>2. used.turns < Grown /\ used.errors < MaxErrors /\ used.c413 < Max413 /\ extras = "none"
    BY <2>1 DEF Running
  <2>3. GoesTo(o) \in {"asleep", "closing", "top"} BY WorkCounted
  <2>4. Swallow = 0 /\ Flight \in {0, 1} /\ Flight' = 0 /\ Swallow' \in {0, 1}
        /\ (at' # "asleep" => Swallow' = 0)
    BY <2>1, <2>2, <2>3 DEF Swallow, Flight
  <2>5. LoopTyped' /\ Limits'
    BY <1>0, <2>1, <2>2, <2>3, WorkCounted DEF LoopTyped, Limits, LoopPlaces, CtlOK
  <2>6. Running' /\ CompactPlanned' /\ Plain'
    BY <2>1, <2>2, <2>3 DEF Running, CompactPlanned, Plain
  <2>7. Charged'
    <3> DEFINE t == used.turns * PerTurn
    <3>1. work <= t + used.errors + used.c413 + 1 BY <1>0, <1>1, <2>4 DEF Charged, LoopTyped
    <3>2. t \in Nat /\ (used.turns + 1) * PerTurn = t + PerTurn BY <1>1
    <3>3. /\ used.turns \in Nat /\ used.errors \in Nat /\ used.c413 \in Nat /\ work \in Nat
      BY DEF LoopTyped
    <3> HIDE DEF t
    <3>4. CASE used'.turns = used.turns + 1 /\ used'.errors = 0 /\ used'.c413 = used.c413
      <4>1. work' + Swallow' <= used'.turns * PerTurn + used'.c413
        BY <1>0, <2>1, <2>2, <2>4, <3>1, <3>2, <3>3, <3>4
      <4> QED BY <1>0, <2>4, <3>2, <3>3, <3>4, <4>1 DEF Charged
    <3>5. CASE used'.turns = used.turns + 1 /\ used'.errors = used.errors /\ used'.c413 = used.c413 /\ Swallow' = 0
      <4>1. work' + Swallow' <= used'.turns * PerTurn + used'.c413
        BY <1>0, <2>1, <2>2, <2>4, <3>1, <3>2, <3>3, <3>5
      <4>2. used'.turns * PerTurn \in Nat BY <1>0, <3>2, <3>5
      <4>3. work' + Swallow' <= used'.turns * PerTurn + used'.errors + used'.c413 + Flight'
        BY <2>1, <2>4, <3>3, <3>5, <4>1, <4>2
      <4> QED BY <4>1, <4>3 DEF Charged
    <3>6. CASE /\ used'.turns = used.turns /\ Swallow' = 0
               /\ used'.errors + used'.c413 = used.errors + used.c413 + 1
               /\ used'.errors \in Nat /\ used'.c413 \in Nat
      <4>1. used'.turns # Grown BY <1>0, <2>2, <3>3, <3>6
      <4>2. work' + Swallow' <= used'.turns * PerTurn + used'.errors + used'.c413 + Flight'
        BY <2>1, <2>4, <3>1, <3>2, <3>3, <3>6 DEF t
      <4> QED BY <4>1, <4>2 DEF Charged
    <3> QED BY <2>1, <2>4, <3>3, <3>4, <3>5, <3>6, WorkCounted
  <2> QED BY <2>5, <2>6, <2>7
<1>11. ASSUME NEW n \in NewMaxTurns, SetGoalMaxTurns(n) PROVE RetryInv'
  <2>1. UNCHANGED <<used, wasCompact, prompt, work, at, extras>> /\ ctl' = [ctl EXCEPT !.override = Larger(@, n)]
    BY <1>11 DEF SetGoalMaxTurns, Signalled, Call, goalVars
  <2>2. CtlOK' /\ ctl'.override = Larger(ctl.override, n) BY <2>1 DEF CtlOK, LoopTyped
  <2>3. n \in Nat /\ n <= Grown BY GrownIsMax, LoopAssumption DEF LoopAssumption
  <2> QED BY <1>0, <1>2, <2>1, <2>2, <2>3 DEF Larger, LoopTyped, Limits
<1>12. CASE PreRegister \/ PauseGoal \/ ResumeGoal \/ CancelGoal
  <2>1. UNCHANGED <<used, wasCompact, prompt, work, at, extras>> /\ CtlOK' /\ ctl'.override = ctl.override
    BY <1>12 DEF PreRegister, PauseGoal, ResumeGoal, CancelGoal, Signalled, Call, goalVars, CtlOK, LoopTyped
  <2> QED BY <1>2, <2>1 DEF LoopTyped, Limits
<1>13. CASE InterruptGoal \/ OtherCompact \/ UNCHANGED loopVars
  <2>1. UNCHANGED <<used, wasCompact, prompt, work, at, extras, ctl>>
    BY <1>13 DEF InterruptGoal, OtherCompact, Call, goalVars, loopVars
  <2> QED BY <1>2, <2>1 DEF LoopTyped, Limits, CtlOK
<1> QED BY <1>3, <1>4, <1>5, <1>6, <1>7, <1>8, <1>9, <1>10, <1>11, <1>12, <1>13
        DEF LoopNext, RunGoalStep, Operator

\* run_goal: whatever the attempts return and however the budget grows, the attempts made
\* with a work prompt stay within what the turns, the retries and the compactions allow.
THEOREM RetriesStayBounded == LoopSpec => []RetriesBounded
<1>1. CASE MaxErrors > 0 /\ Max413 > 0
  <2>1. LoopInit => RetryInv
    <3> SUFFICES ASSUME LoopInit PROVE RetryInv OBVIOUS
    <3>1. LoopTyped /\ Limits /\ Running /\ CompactPlanned /\ Plain
      BY <1>1, GrownIsMax, LoopAssumption
      DEF LoopInit, NoCtl, LoopTyped, Limits, Running, CompactPlanned, Plain, LoopPlaces, CtlOK, LoopAssumption
    <3>2. Swallow = 0 /\ Flight = 0 /\ work = 0 /\ used = [turns |-> 0, errors |-> 0, c413 |-> 0]
      BY DEF LoopInit, Swallow, Flight
    <3>3. 0 * PerTurn = 0 BY LoopAssumption DEF PerTurn, LoopAssumption
    <3> QED BY <3>1, <3>2, <3>3 DEF RetryInv, Charged
  <2>2. RetryInv /\ [LoopNext]_loopVars => RetryInv' BY <1>1, RetryStep
  <2>3. RetryInv => RetriesBounded
    <3> SUFFICES ASSUME RetryInv PROVE work <= Grown * PerTurn + Max413
      BY DEF RetriesBounded, PerTurn
    <3>1. /\ Grown \in Nat /\ MaxErrors \in Nat /\ Max413 \in Nat /\ PerTurn \in Nat /\ PerTurn = MaxErrors + 2
      BY GrownIsMax, LoopAssumption DEF LoopAssumption, PerTurn
    <3>2. /\ used.turns \in Nat /\ used.errors \in Nat /\ used.c413 \in Nat /\ work \in Nat
          /\ used.turns <= Grown /\ used.errors <= MaxErrors /\ used.c413 <= Max413
      BY DEF RetryInv, LoopTyped, Limits
    <3>3. Swallow \in Nat /\ Flight \in {0, 1} BY DEF Swallow, Flight
    <3>4. CASE used.turns = Grown
      <4>1. Grown * PerTurn \in Nat BY <3>1, TimesSucc
      <4>2. work + Swallow <= Grown * PerTurn + used.c413 BY <3>4 DEF RetryInv, Charged
      <4> QED BY <3>1, <3>2, <3>3, <4>1, <4>2
    <3>5. CASE used.turns < Grown
      <4>1. work + Swallow <= used.turns * PerTurn + used.errors + used.c413 + Flight
        BY DEF RetryInv, Charged
      <4>2. used.turns * PerTurn \in Nat /\ (used.turns + 1) * PerTurn = used.turns * PerTurn + PerTurn
        BY <3>1, <3>2, TimesSucc
      <4>3. used.turns + 1 \in Nat /\ used.turns + 1 <= Grown BY <3>1, <3>2, <3>5
      <4>4. (used.turns + 1) * PerTurn <= Grown * PerTurn BY <3>1, <4>3, TimesMono
      <4>5. Grown * PerTurn \in Nat BY <3>1, TimesSucc
      <4> QED BY <3>1, <3>2, <3>3, <4>1, <4>2, <4>4, <4>5
    <3> QED BY <3>1, <3>2, <3>4, <3>5
  <2> QED BY <2>1, <2>2, <2>3, PTL DEF LoopSpec
<1>2. CASE ~(MaxErrors > 0 /\ Max413 > 0)
  <2>1. RetriesBounded BY <1>2 DEF RetriesBounded
  <2> QED BY <2>1, PTL
<1> QED BY <1>1, <1>2

-----------------------------------------------------------------------------
(*************************************************************************)
(* GoalHooks: HookFiresOnce and ClaimMeansFired for any hooks and        *)
(* transitions. Every effect a hook had, and every one that a dispatch   *)
(* past its claim is about to have, is paid for by the claim that        *)
(* stands, by a dispatch that timed out on an effect it had, or by       *)
(* forgotten claims. The effects to come have to be counted, for         *)
(* otherwise two dispatches past the claim would break the bound unseen. *)
(*************************************************************************)

DispOK == /\ DOMAIN disp = Callers
          /\ disp = [c \in Callers |-> [todo |-> disp[c].todo, t |-> disp[c].t, place |-> disp[c].place]]
CountsOK == fired \in [Hooks -> Nat] /\ late \in [Hooks -> Nat] /\ forgets \in Nat
            /\ sentReleases \in [Hooks -> Nat]
\* The drain dispatches only while the process drains.
DrainRests == proc # "draining" => disp["drain"].place = "rest"

IsBusy(c) == disp[c].place \in {"act", "release"}
BusyOn(h) == {c \in Callers : IsBusy(c) /\ Head(disp[c].todo) = h}
BusyHasWork == \A c \in Callers : IsBusy(c) => disp[c].todo # <<>> /\ proc # "down"
Claimed(h) == IF <<h, On[h]>> \in claims THEN 1 ELSE 0
\* Every effect, had or still to come, and every release still to land is paid for by a
\* claim that stands, by a dispatch that did not notice its effect, or by a forgotten claim.
PaidFor == \A h \in Hooks :
    fired[h] + sentReleases[h] + Cardinality(BusyOn(h)) <= Claimed(h) + late[h] + forgets

\* What a claim stands for, with the busy callers instead of Acting.
Backed(h, t) == \/ fired[h] > 0 \/ <<h, t>> \in cut
                \/ \E c \in Callers : IsBusy(c) /\ Current(c) = <<h, t>>
ClaimsBacked == \A h \in Hooks, t \in Transitions : <<h, t>> \in claims => Backed(h, t)

HookInv == DispOK /\ CountsOK /\ DrainRests /\ BusyHasWork /\ PaidFor /\ ClaimsBacked

LEMMA ThreeCallers == IsFiniteSet(Callers)
<1>1. Callers = (({} \cup {"fwd"}) \cup {"drain"}) \cup {"boot"} BY DEF Callers
<1> QED BY <1>1, FS_EmptySet, FS_AddElement

LEMMA BusyFinite ==
    ASSUME NEW h
    PROVE  /\ IsFiniteSet(BusyOn(h)) /\ Cardinality(BusyOn(h)) \in Nat
           /\ IsFiniteSet(BusyOn(h)') /\ Cardinality(BusyOn(h)') \in Nat
<1>1. BusyOn(h) \subseteq Callers /\ BusyOn(h)' \subseteq Callers BY DEF BusyOn
<1> QED BY <1>1, ThreeCallers, FS_Subset, FS_CardinalityType

\* What the two ways to change a dispatch do.
LEMMA MoveDoes ==
    ASSUME DispOK, NEW c \in Callers, NEW p, Move(c, p)
    PROVE  /\ DispOK' /\ \A d \in Callers : d # c => disp'[d] = disp[d]
           /\ disp'[c] = [todo |-> disp[c].todo, t |-> disp[c].t, place |-> p]
BY DEF DispOK, Move

LEMMA NextDoes ==
    ASSUME DispOK, NEW c \in Callers, NextHook(c)
    PROVE  /\ DispOK' /\ \A d \in Callers : d # c => disp'[d] = disp[d]
           /\ disp'[c] = [todo |-> Tail(disp[c].todo), t |-> disp[c].t, place |-> "claim"]
<1> DEFINE rest == Tail(disp[c].todo)
           mid == [disp EXCEPT ![c].todo = rest]
<1>1. disp' = [mid EXCEPT ![c].place = "claim"] BY DEF NextHook
<1> HIDE DEF rest
<1>2. /\ DOMAIN mid = Callers /\ \A d \in Callers : d # c => mid[d] = disp[d]
      /\ mid[c] = [todo |-> rest, t |-> disp[c].t, place |-> disp[c].place]
      /\ mid = [d \in Callers |-> mid[d]]
  BY DEF DispOK
<1> HIDE DEF mid
<1>3. /\ DispOK' /\ \A d \in Callers : d # c => disp'[d] = disp[d]
      /\ disp'[c] = [todo |-> rest, t |-> disp[c].t, place |-> "claim"]
  BY <1>1, <1>2 DEF DispOK
<1> QED BY <1>3 DEF rest

LEMMA PutDoes ==
    ASSUME DispOK, NEW c \in Callers, NEW t, NEW hooks,
           \/ disp' = [disp EXCEPT ![c] = Firing(t, hooks)]
           \/ disp' = [disp EXCEPT ![c] = Resting]
    PROVE  /\ DispOK' /\ \A d \in Callers : d # c => disp'[d] = disp[d]
           /\ disp'[c].place \in {"claim", "rest"}
BY DEF DispOK, Firing, Resting

LEMMA BackedIsMeant == ASSUME BusyHasWork PROVE ClaimsBacked <=> ClaimMeansFired
<1>1. \A c \in Callers : c \in Acting <=> IsBusy(c)
  BY DEF Acting, AtPlace, IsBusy, BusyHasWork
<1>2. \A c \in Acting : c \in Callers BY DEF Acting
<1> QED BY <1>1, <1>2 DEF ClaimsBacked, Backed, ClaimMeansFired

\* A step of a caller that acts on nothing before and after it.
LEMMA QuietStep ==
    ASSUME HookInv, NEW c \in Callers, DispOK', \A d \in Callers : d # c => disp'[d] = disp[d],
           ~IsBusy(c), ~IsBusy(c)', UNCHANGED <<fired, late>>, cut \subseteq cut', DrainRests',
           sentReleases' = sentReleases,
           proc' = proc \/ proc' # "down",
           \/ UNCHANGED <<claims, forgets>>
           \/ claims' = {} /\ forgets' = forgets + 1
    PROVE  HookInv'
<1> USE DEF HookInv
<1>1. \A d \in Callers : IsBusy(d)' <=> IsBusy(d) BY DEF IsBusy
<1>2. \A d \in Callers : IsBusy(d) => disp'[d] = disp[d] OBVIOUS
<1>3. CountsOK' BY DEF CountsOK
<1>4. BusyHasWork' BY <1>1, <1>2 DEF BusyHasWork
<1>5. \A h : BusyOn(h)' = BusyOn(h) BY <1>1, <1>2 DEF BusyOn
<1>6. PaidFor'
  <2> SUFFICES ASSUME NEW h \in Hooks
               PROVE  fired'[h] + sentReleases'[h] + Cardinality(BusyOn(h)') <= Claimed(h)' + late'[h] + forgets'
    BY DEF PaidFor
  <2>1. Cardinality(BusyOn(h)') = Cardinality(BusyOn(h)) /\ Cardinality(BusyOn(h)) \in Nat
    BY <1>5, BusyFinite
  <2>2. Claimed(h) \in {0, 1} /\ Claimed(h)' \in {0, 1} /\ (claims' = claims => Claimed(h)' = Claimed(h))
    BY DEF Claimed
  <2>3. fired[h] \in Nat /\ sentReleases[h] \in Nat /\ late[h] \in Nat /\ forgets \in Nat BY DEF CountsOK
  <2>4. fired[h] + sentReleases[h] + Cardinality(BusyOn(h)) <= Claimed(h) + late[h] + forgets BY DEF PaidFor
  <2> QED BY <2>1, <2>2, <2>3, <2>4
<1>7. ClaimsBacked' BY <1>1, <1>2 DEF ClaimsBacked, Backed, Current
<1> QED BY <1>3, <1>4, <1>6, <1>7

\* How the callers that act on a hook change with the place of one caller.
LEMMA BusyChanges ==
    ASSUME NEW c \in Callers, \A d \in Callers : d # c => disp'[d] = disp[d], NEW h
    PROVE  /\ ~IsBusy(c) /\ IsBusy(c)' /\ disp'[c].todo = disp[c].todo =>
                Cardinality(BusyOn(h)') = Cardinality(BusyOn(h)) + (IF Head(disp[c].todo) = h THEN 1 ELSE 0)
           /\ IsBusy(c) /\ IsBusy(c)' /\ disp'[c].todo = disp[c].todo =>
                Cardinality(BusyOn(h)') = Cardinality(BusyOn(h))
           /\ IsBusy(c) /\ ~IsBusy(c)' =>
                Cardinality(BusyOn(h)') = Cardinality(BusyOn(h)) - (IF Head(disp[c].todo) = h THEN 1 ELSE 0)
<1>0. \A d \in Callers : d # c => (d \in BusyOn(h)' <=> d \in BusyOn(h)) BY DEF BusyOn, IsBusy
<1>1. BusyOn(h) \subseteq Callers /\ BusyOn(h)' \subseteq Callers BY DEF BusyOn
<1>2. c \in BusyOn(h) <=> IsBusy(c) /\ Head(disp[c].todo) = h BY DEF BusyOn
<1>3. c \in BusyOn(h)' <=> IsBusy(c)' /\ Head(disp'[c].todo) = h BY DEF BusyOn
<1>4. IsFiniteSet(BusyOn(h)) /\ Cardinality(BusyOn(h)) \in Nat BY BusyFinite
<1>5. CASE c \in BusyOn(h) /\ c \notin BusyOn(h)'
  <2>1. BusyOn(h)' = BusyOn(h) \ {c} BY <1>0, <1>1, <1>5
  <2>2. Cardinality(BusyOn(h)') = Cardinality(BusyOn(h)) - 1 BY <1>4, <1>5, <2>1, FS_RemoveElement
  <2> QED BY <1>2, <1>3, <1>5, <2>2
<1>6. CASE c \notin BusyOn(h) /\ c \in BusyOn(h)'
  <2>1. BusyOn(h)' = BusyOn(h) \cup {c} BY <1>0, <1>1, <1>6
  <2>2. Cardinality(BusyOn(h)') = Cardinality(BusyOn(h)) + 1 BY <1>4, <1>6, <2>1, FS_AddElement
  <2> QED BY <1>2, <1>3, <1>6, <2>2
<1>7. CASE c \in BusyOn(h) <=> c \in BusyOn(h)'
  <2>1. BusyOn(h)' = BusyOn(h) BY <1>0, <1>1, <1>7
  <2> QED BY <1>2, <1>3, <1>4, <1>7, <2>1
<1> QED BY <1>5, <1>6, <1>7

\* One more for hook k, which may also be no hook of the registry.
LEMMA OneMoreFired ==
    ASSUME fired \in [Hooks -> Nat], NEW k, fired' = [fired EXCEPT ![k] = @ + 1]
    PROVE  /\ fired' \in [Hooks -> Nat] /\ \A h \in Hooks : fired[h] \in Nat
           /\ \A h \in Hooks : fired'[h] = fired[h] + (IF k = h THEN 1 ELSE 0)
<1>1. \A h \in Hooks : fired'[h] = IF k = h THEN fired[h] + 1 ELSE fired[h] OBVIOUS
<1>2. fired' = [h \in Hooks |-> fired'[h]] OBVIOUS
<1>3. \A h \in Hooks : fired[h] \in Nat OBVIOUS
<1>4. \A h \in Hooks : fired'[h] \in Nat BY <1>1, <1>3
<1>5. fired' \in [Hooks -> Nat] BY <1>2, <1>4
<1>6. \A h \in Hooks : fired'[h] = fired[h] + (IF k = h THEN 1 ELSE 0) BY <1>1, <1>3
<1> QED BY <1>3, <1>5, <1>6

LEMMA OneMoreLate ==
    ASSUME late \in [Hooks -> Nat], NEW k, late' = [late EXCEPT ![k] = @ + 1]
    PROVE  /\ late' \in [Hooks -> Nat] /\ \A h \in Hooks : late[h] \in Nat
           /\ \A h \in Hooks : late'[h] = late[h] + (IF k = h THEN 1 ELSE 0)
<1>1. \A h \in Hooks : late'[h] = IF k = h THEN late[h] + 1 ELSE late[h] OBVIOUS
<1>2. late' = [h \in Hooks |-> late'[h]] OBVIOUS
<1>3. \A h \in Hooks : late[h] \in Nat OBVIOUS
<1>4. \A h \in Hooks : late'[h] \in Nat BY <1>1, <1>3
<1>5. late' \in [Hooks -> Nat] BY <1>2, <1>4
<1>6. \A h \in Hooks : late'[h] = late[h] + (IF k = h THEN 1 ELSE 0) BY <1>1, <1>3
<1> QED BY <1>3, <1>5, <1>6

LEMMA OneMoreSent ==
    ASSUME sentReleases \in [Hooks -> Nat], NEW k,
           sentReleases' = [sentReleases EXCEPT ![k] = @ + 1]
    PROVE  /\ sentReleases' \in [Hooks -> Nat]
           /\ \A h \in Hooks : sentReleases[h] \in Nat /\ sentReleases'[h] \in Nat
           /\ \A h \in Hooks : sentReleases'[h] <= sentReleases[h] + (IF k = h THEN 1 ELSE 0)
<1>1. \A h \in Hooks : sentReleases'[h] = IF k = h THEN sentReleases[h] + 1 ELSE sentReleases[h] OBVIOUS
<1>2. sentReleases' = [h \in Hooks |-> sentReleases'[h]] OBVIOUS
<1>3. \A h \in Hooks : sentReleases[h] \in Nat OBVIOUS
<1>4. \A h \in Hooks : sentReleases'[h] \in Nat BY <1>1, <1>3
<1>5. sentReleases' \in [Hooks -> Nat] BY <1>2, <1>4
<1>6. \A h \in Hooks : sentReleases'[h] <= sentReleases[h] + (IF k = h THEN 1 ELSE 0) BY <1>1, <1>3
<1> QED BY <1>3, <1>4, <1>5, <1>6

LEMMA TryClaimKeeps == ASSUME HookInv, NEW c \in Callers, TryClaim(c) PROVE HookInv'
<1> USE DEF HookInv
<1> DEFINE k == Head(disp[c].todo)
<1>1. /\ proc # "down" /\ disp[c].place = "claim" /\ disp[c].todo # <<>> /\ On[k] = disp[c].t
      /\ UNCHANGED <<proc, sentReleases, fired, late, cut, forgets>>
      /\ \/ <<k, disp[c].t>> \notin claims /\ claims' = claims \cup {<<k, disp[c].t>>} /\ Move(c, "act")
         \/ NextHook(c) /\ UNCHANGED claims
  BY DEF TryClaim, AtPlace, Current, ClaimFree, hookHist, hookSent
<1>2. CASE NextHook(c) /\ UNCHANGED claims
  <2>1. ~IsBusy(c) /\ ~IsBusy(c)' /\ DrainRests' BY <1>1, <1>2, NextDoes DEF IsBusy, DrainRests, Callers
  <2> QED BY <1>1, <1>2, <2>1, NextDoes, QuietStep
<1>3. CASE <<k, disp[c].t>> \notin claims /\ claims' = claims \cup {<<k, disp[c].t>>} /\ Move(c, "act")
  <2>1. /\ DispOK' /\ \A d \in Callers : d # c => disp'[d] = disp[d]
        /\ disp'[c] = [todo |-> disp[c].todo, t |-> disp[c].t, place |-> "act"]
    BY <1>3, MoveDoes
  <2>2. ~IsBusy(c) /\ IsBusy(c)' /\ disp'[c].todo = disp[c].todo /\ disp'[c].t = disp[c].t
    BY <1>1, <2>1 DEF IsBusy
  <2>3. \A d \in Callers : IsBusy(d) => d # c /\ IsBusy(d)' BY <2>1, <2>2 DEF IsBusy
  <2>4. CountsOK' /\ DrainRests' /\ BusyHasWork'
    BY <1>1, <2>1, <2>2 DEF CountsOK, DrainRests, BusyHasWork, IsBusy, Callers
  <2>5. PaidFor'
    <3> SUFFICES ASSUME NEW h \in Hooks
                 PROVE  fired'[h] + sentReleases'[h] + Cardinality(BusyOn(h)') <= Claimed(h)' + late'[h] + forgets'
      BY DEF PaidFor
    <3>1. Cardinality(BusyOn(h)') = Cardinality(BusyOn(h)) + (IF k = h THEN 1 ELSE 0)
      BY <2>1, <2>2, BusyChanges
    <3>2. Claimed(h)' = Claimed(h) + (IF k = h THEN 1 ELSE 0) /\ Claimed(h) \in Nat
      BY <1>1, <1>3 DEF Claimed
    <3>3. fired[h] \in Nat /\ sentReleases[h] \in Nat /\ late[h] \in Nat /\ forgets \in Nat /\ Cardinality(BusyOn(h)) \in Nat
      BY BusyFinite DEF CountsOK
    <3>4. fired[h] + sentReleases[h] + Cardinality(BusyOn(h)) <= Claimed(h) + late[h] + forgets BY DEF PaidFor
    <3>5. sentReleases'[h] = sentReleases[h] BY <1>1
    <3> HIDE DEF k
    <3> QED BY <1>1, <3>1, <3>2, <3>3, <3>4, <3>5
  <2>6. ClaimsBacked'
    <3> SUFFICES ASSUME NEW h \in Hooks, NEW t \in Transitions, <<h, t>> \in claims'
                 PROVE  Backed(h, t)'
      BY DEF ClaimsBacked
    <3>1. CASE <<h, t>> \in claims BY <1>1, <2>1, <2>3, <3>1 DEF ClaimsBacked, Backed, Current
    <3>2. CASE <<h, t>> = <<k, disp[c].t>> BY <2>2, <3>2 DEF Backed, Current
    <3> QED BY <1>3, <3>1, <3>2
  <2> QED BY <2>1, <2>4, <2>5, <2>6
<1> QED BY <1>1, <1>2, <1>3

\* An acting caller goes on to its next hook: the action had its effect, or it was cut
\* off, or the claim is given back.
LEMMA ActionEnds ==
    ASSUME HookInv, NEW c \in Callers, IsBusy(c), NextHook(c), proc # "down",
           UNCHANGED <<proc, late, forgets>>,
           \/ TookEffect(c) /\ UNCHANGED <<claims, cut, sentReleases>>
           \/ /\ UNCHANGED <<fired, claims>> /\ cut' = cut \cup {Current(c)}
              /\ \/ sentReleases' = sentReleases
                 \/ sentReleases' = [sentReleases EXCEPT ![Current(c)[1]] = @ + 1]
           \/ UNCHANGED <<fired, cut, sentReleases>> /\ claims' = claims \ {Current(c)}
    PROVE  HookInv'
<1> USE DEF HookInv
<1> DEFINE k == Head(disp[c].todo)
<1>1. /\ DispOK' /\ \A d \in Callers : d # c => disp'[d] = disp[d]
      /\ disp'[c] = [todo |-> Tail(disp[c].todo), t |-> disp[c].t, place |-> "claim"]
  BY NextDoes
<1>2. ~IsBusy(c)' BY <1>1 DEF IsBusy
<1>3. \A d \in Callers : d # c => (IsBusy(d)' <=> IsBusy(d)) BY <1>1 DEF IsBusy
<1>4. BusyHasWork' BY <1>1, <1>2, <1>3 DEF BusyHasWork
<1>5. DrainRests' BY <1>1 DEF DrainRests, Callers, IsBusy
<1>6. Current(c) = <<k, disp[c].t>> BY DEF Current
<1>7. /\ fired' \in [Hooks -> Nat]
      /\ \A h \in Hooks : fired'[h] \in Nat /\ fired'[h] >= fired[h] /\ fired'[h] <= fired[h] + (IF k = h THEN 1 ELSE 0)
  <2>1. CASE TookEffect(c)
    <3>1. fired' = [fired EXCEPT ![k] = @ + 1] BY <1>6, <2>1 DEF TookEffect
    <3> HIDE DEF k
    <3>2. fired \in [Hooks -> Nat] /\ \A h \in Hooks : fired[h] \in Nat BY DEF CountsOK
    <3>3. fired' \in [Hooks -> Nat] /\ \A h \in Hooks : fired'[h] = fired[h] + (IF k = h THEN 1 ELSE 0)
      BY <3>1, <3>2, OneMoreFired
    <3> QED BY <3>2, <3>3
  <2>2. CASE UNCHANGED fired BY <2>2 DEF CountsOK
  <2> QED BY <2>1, <2>2
<1>0. /\ sentReleases' \in [Hooks -> Nat]
      /\ \A h \in Hooks : /\ sentReleases[h] \in Nat /\ sentReleases'[h] \in Nat
                        /\ sentReleases'[h] <= sentReleases[h] + (IF k = h THEN 1 ELSE 0)
  <2>1. CASE sentReleases' = sentReleases BY <2>1 DEF CountsOK
  <2>2. CASE sentReleases' = [sentReleases EXCEPT ![k] = @ + 1]
    <3> HIDE DEF k
    <3>1. sentReleases \in [Hooks -> Nat] BY DEF CountsOK
    <3> QED BY <2>2, <3>1, OneMoreSent
  <2> QED BY <1>6, <2>1, <2>2
<1>8. CountsOK' BY <1>0, <1>7 DEF CountsOK
<1>9. PaidFor'
  <2> SUFFICES ASSUME NEW h \in Hooks
               PROVE  fired'[h] + sentReleases'[h] + Cardinality(BusyOn(h)') <= Claimed(h)' + late'[h] + forgets'
    BY DEF PaidFor
  <2>1. Cardinality(BusyOn(h)') = Cardinality(BusyOn(h)) - (IF k = h THEN 1 ELSE 0)
    BY <1>1, <1>2, BusyChanges
  <2>2. Claimed(h)' \in {0, 1} /\ Claimed(h) \in {0, 1} /\ Claimed(h) <= Claimed(h)' + (IF k = h THEN 1 ELSE 0)
        /\ (claims' = claims => Claimed(h)' = Claimed(h))
    BY <1>6 DEF Claimed
  <2>3. fired[h] \in Nat /\ sentReleases[h] \in Nat /\ late[h] \in Nat /\ forgets \in Nat /\ Cardinality(BusyOn(h)) \in Nat
        /\ fired'[h] \in Nat
    BY <1>7, BusyFinite DEF CountsOK
  <2>4. fired[h] + sentReleases[h] + Cardinality(BusyOn(h)) <= Claimed(h) + late[h] + forgets BY DEF PaidFor
  <2>5. CASE claims' = claims /\ sentReleases' = sentReleases BY <1>7, <2>1, <2>2, <2>3, <2>4, <2>5
  <2>6. CASE UNCHANGED <<fired, sentReleases>> BY <2>1, <2>2, <2>3, <2>4, <2>6
  <2>7. CASE UNCHANGED <<fired, claims>> BY <1>0, <2>1, <2>2, <2>3, <2>4, <2>7
  <2> QED BY <2>5, <2>6, <2>7
<1>10. ClaimsBacked'
  <2> SUFFICES ASSUME NEW h \in Hooks, NEW t \in Transitions, <<h, t>> \in claims'
               PROVE  Backed(h, t)'
    BY DEF ClaimsBacked
  <2>1. <<h, t>> \in claims /\ Backed(h, t) BY DEF ClaimsBacked
  <2>2. CASE fired[h] > 0
    <3>1. fired[h] \in Nat /\ fired'[h] \in Nat /\ fired'[h] >= fired[h] BY <1>7 DEF CountsOK
    <3> QED BY <2>2, <3>1 DEF Backed
  <2>3. CASE <<h, t>> \in cut BY <2>3 DEF Backed
  <2>4. ASSUME NEW d \in Callers, IsBusy(d), Current(d) = <<h, t>>, d # c PROVE Backed(h, t)'
    BY <1>1, <1>3, <2>4 DEF Backed, Current
  <2>5. CASE Current(c) = <<h, t>>
    <3>1. CASE TookEffect(c)
      <4>1. fired' = [fired EXCEPT ![h] = @ + 1] BY <2>5, <3>1 DEF TookEffect
      <4>2. fired'[h] = fired[h] + 1 /\ fired[h] \in Nat BY <4>1 DEF CountsOK
      <4> QED BY <4>2 DEF Backed
    <3>2. CASE cut' = cut \cup {Current(c)} BY <2>5, <3>2 DEF Backed
    <3>3. claims' # claims \ {Current(c)} BY <2>5
    <3> QED BY <3>1, <3>2, <3>3
  <2> QED BY <2>1, <2>2, <2>3, <2>4, <2>5 DEF Backed
<1> QED BY <1>1, <1>4, <1>5, <1>8, <1>9, <1>10

LEMMA RunActionKeeps == ASSUME HookInv, NEW c \in Callers, RunAction(c) PROVE HookInv'
<1> USE DEF HookInv
<1> DEFINE k == Head(disp[c].todo)
<1>1. /\ proc # "down" /\ disp[c].place = "act" /\ UNCHANGED <<claims, proc, sentReleases, forgets>>
      /\ \/ TookEffect(c) /\ NextHook(c) /\ UNCHANGED <<late, cut>>
         \/ Move(c, "release") /\ (Unnoticed(c) \/ UNCHANGED <<fired, late, cut>>)
  BY DEF RunAction, AtPlace, hookSent
<1>2. CASE TookEffect(c) /\ NextHook(c) /\ UNCHANGED <<late, cut>>
  <2>1. IsBusy(c) BY <1>1 DEF IsBusy
  <2> QED BY <1>1, <1>2, <2>1, ActionEnds
<1>3. CASE Move(c, "release") /\ (Unnoticed(c) \/ UNCHANGED <<fired, late, cut>>)
  <2>1. /\ DispOK' /\ \A d \in Callers : d # c => disp'[d] = disp[d]
        /\ disp'[c] = [todo |-> disp[c].todo, t |-> disp[c].t, place |-> "release"]
    BY <1>3, MoveDoes
  <2>2. IsBusy(c) /\ IsBusy(c)' /\ disp'[c].todo = disp[c].todo /\ disp'[c].t = disp[c].t
    BY <1>1, <2>1 DEF IsBusy
  <2>3. \A d \in Callers : (IsBusy(d)' <=> IsBusy(d)) /\ disp'[d].todo = disp[d].todo /\ disp'[d].t = disp[d].t
    BY <2>1, <2>2 DEF IsBusy
  <2>4. UNCHANGED cut BY <1>3 DEF Unnoticed
  <2>5. /\ fired' \in [Hooks -> Nat] /\ late' \in [Hooks -> Nat]
        /\ \A h \in Hooks : fired'[h] >= fired[h] /\ fired'[h] + late[h] = fired[h] + late'[h]
    <3>1. CASE Unnoticed(c)
      <4>1. fired' = [fired EXCEPT ![k] = @ + 1] /\ late' = [late EXCEPT ![k] = @ + 1]
        BY <3>1 DEF Unnoticed, TookEffect, Current
      <4> HIDE DEF k
      <4>2. fired \in [Hooks -> Nat] /\ late \in [Hooks -> Nat] /\ \A h \in Hooks : fired[h] \in Nat /\ late[h] \in Nat
        BY DEF CountsOK
      <4>3. fired' \in [Hooks -> Nat] /\ \A h \in Hooks : fired'[h] = fired[h] + (IF k = h THEN 1 ELSE 0)
        BY <4>1, <4>2, OneMoreFired, OneMoreLate
      <4>4. late' \in [Hooks -> Nat] /\ \A h \in Hooks : late'[h] = late[h] + (IF k = h THEN 1 ELSE 0)
        BY <4>1, <4>2, OneMoreFired, OneMoreLate
      <4> QED BY <4>2, <4>3, <4>4
    <3>2. CASE UNCHANGED <<fired, late, cut>> BY <3>2 DEF CountsOK
    <3> QED BY <1>3, <3>1, <3>2
  <2>6. CountsOK' /\ DrainRests' /\ BusyHasWork'
    BY <1>1, <2>1, <2>2, <2>3, <2>5 DEF CountsOK, DrainRests, BusyHasWork, Callers
  <2>7. PaidFor'
    <3> SUFFICES ASSUME NEW h \in Hooks
                 PROVE  fired'[h] + sentReleases'[h] + Cardinality(BusyOn(h)') <= Claimed(h)' + late'[h] + forgets'
      BY DEF PaidFor
    <3>1. Cardinality(BusyOn(h)') = Cardinality(BusyOn(h)) BY <2>1, <2>2, BusyChanges
    <3>2. Claimed(h)' = Claimed(h) /\ Claimed(h) \in Nat BY <1>1 DEF Claimed
    <3>3. /\ fired[h] \in Nat /\ sentReleases[h] \in Nat /\ late[h] \in Nat /\ forgets \in Nat /\ Cardinality(BusyOn(h)) \in Nat
          /\ fired'[h] \in Nat /\ late'[h] \in Nat /\ fired'[h] + late[h] = fired[h] + late'[h]
      BY <2>5, BusyFinite DEF CountsOK
    <3>4. fired[h] + sentReleases[h] + Cardinality(BusyOn(h)) <= Claimed(h) + late[h] + forgets BY DEF PaidFor
    <3> QED BY <1>1, <3>1, <3>2, <3>3, <3>4
  <2>8. ClaimsBacked'
    <3> SUFFICES ASSUME NEW h \in Hooks, NEW t \in Transitions, <<h, t>> \in claims
                 PROVE  Backed(h, t)'
      BY <1>1 DEF ClaimsBacked
    <3>1. fired[h] \in Nat /\ fired'[h] \in Nat /\ fired'[h] >= fired[h] BY <2>5 DEF CountsOK
    <3>2. fired[h] > 0 => fired'[h] > 0 BY <3>1
    <3> QED BY <2>3, <2>4, <3>2 DEF ClaimsBacked, Backed, Current
  <2> QED BY <2>1, <2>6, <2>7, <2>8
<1> QED BY <1>1, <1>2, <1>3

\* The process ends: every dispatch is gone, what it had claimed is recorded as cut off.
LEMMA StopKeeps == ASSUME HookInv, proc # "down", Stop PROVE HookInv'
<1> USE DEF HookInv
<1>1. /\ proc' = "down" /\ disp' = [c \in Callers |-> Resting] /\ UNCHANGED <<claims, late, forgets>>
      /\ cut' = cut \cup {Current(c) : c \in Acting} 
      /\ sentReleases' = [h \in Hooks |-> 0]
  BY DEF Stop
<1>2. PICK took \in SUBSET {c \in Acting : disp[c].place = "act"} :
         fired' = [h \in Hooks |-> fired[h] + Cardinality({c \in took : Current(c)[1] = h})]
  BY DEF Stop
<1>3. DispOK' /\ \A c \in Callers : ~IsBusy(c)' BY <1>1 DEF DispOK, Resting, IsBusy
<1>4. DrainRests' /\ BusyHasWork' BY <1>1, <1>3 DEF DrainRests, BusyHasWork, Resting, Callers
<1>5. \A c \in Callers : IsBusy(c) => c \in Acting
  BY DEF Acting, AtPlace, IsBusy, BusyHasWork
<1>6. \A h \in Hooks : /\ {c \in took : Current(c)[1] = h} \subseteq BusyOn(h)
                       /\ Cardinality({c \in took : Current(c)[1] = h}) \in Nat
                       /\ Cardinality({c \in took : Current(c)[1] = h}) <= Cardinality(BusyOn(h))
  <2> TAKE h \in Hooks
  <2>1. {c \in took : Current(c)[1] = h} \subseteq BusyOn(h)
    BY <1>2 DEF BusyOn, IsBusy, Acting, Current
  <2> QED BY <2>1, BusyFinite, FS_Subset, FS_CardinalityType
<1>7. \A h \in Hooks : fired'[h] \in Nat /\ fired'[h] >= fired[h] /\ fired'[h] <= fired[h] + Cardinality(BusyOn(h))
  <2> TAKE h \in Hooks
  <2>1. PICK n \in Nat : n = Cardinality({c \in took : Current(c)[1] = h}) BY <1>6
  <2>2. fired'[h] = fired[h] + n /\ n <= Cardinality(BusyOn(h)) BY <1>2, <1>6, <2>1
  <2>3. fired[h] \in Nat /\ Cardinality(BusyOn(h)) \in Nat BY BusyFinite DEF CountsOK
  <2> QED BY <2>2, <2>3
<1>8. CountsOK'
  <2>1. fired' = [h \in Hooks |-> fired'[h]] BY <1>2
  <2>2. fired' \in [Hooks -> Nat] BY <1>7, <2>1
  <2>3. sentReleases' \in [Hooks -> Nat] BY <1>1
  <2> QED BY <1>1, <2>2, <2>3 DEF CountsOK
<1>9. PaidFor'
  <2> SUFFICES ASSUME NEW h \in Hooks
               PROVE  fired'[h] + sentReleases'[h] + Cardinality(BusyOn(h)') <= Claimed(h)' + late'[h] + forgets'
    BY DEF PaidFor
  <2>1. BusyOn(h)' = {} BY <1>3 DEF BusyOn
  <2>2. Cardinality(BusyOn(h)') = 0 BY <2>1, FS_EmptySet
  <2>3. Claimed(h)' = Claimed(h) /\ Claimed(h) \in Nat BY <1>1 DEF Claimed
  <2>4. fired[h] \in Nat /\ sentReleases[h] \in Nat /\ late[h] \in Nat /\ forgets \in Nat /\ Cardinality(BusyOn(h)) \in Nat
    BY BusyFinite DEF CountsOK
  <2>5. fired[h] + sentReleases[h] + Cardinality(BusyOn(h)) <= Claimed(h) + late[h] + forgets BY DEF PaidFor
  <2>6. sentReleases'[h] = 0 BY <1>1
  <2> QED BY <1>1, <1>7, <2>2, <2>3, <2>4, <2>5, <2>6
<1>10. ClaimsBacked'
  <2> SUFFICES ASSUME NEW h \in Hooks, NEW t \in Transitions, <<h, t>> \in claims
               PROVE  Backed(h, t)'
    BY <1>1 DEF ClaimsBacked
  <2>1. fired[h] \in Nat /\ fired'[h] \in Nat /\ fired'[h] >= fired[h] BY <1>7 DEF CountsOK
  <2>2. fired[h] > 0 => fired'[h] > 0 BY <2>1
  <2>3. \A c \in Callers : IsBusy(c) => Current(c) \in cut' BY <1>1, <1>5
  <2> QED BY <1>1, <2>2, <2>3 DEF ClaimsBacked, Backed
<1> QED BY <1>3, <1>4, <1>8, <1>9, <1>10

LEMMA BootKeeps == ASSUME HookInv, BootHooks PROVE HookInv'
<1> USE DEF HookInv
<1>1. /\ proc = "down" /\ proc' = "up" /\ UNCHANGED <<claims, sentReleases, fired, late, cut, forgets>>
      /\ disp' = [disp EXCEPT !["boot"] = BootSweep(attached'), !["fwd"].place = "over"]
  BY DEF BootHooks, hookHist, hookSent
<1>2. PICK s : s = BootSweep(attached') OBVIOUS
<1>3. s.place \in {"claim", "rest"} /\ s = [todo |-> s.todo, t |-> s.t, place |-> s.place]
  BY <1>2 DEF BootSweep, Firing, Resting
<1>4. /\ DispOK' /\ disp'["boot"] = s /\ disp'["fwd"].place = "over" /\ disp'["drain"] = disp["drain"]
  <2> DEFINE mid == [disp EXCEPT !["boot"] = s]
  <2>1. disp' = [mid EXCEPT !["fwd"].place = "over"] BY <1>1, <1>2
  <2>2. /\ DOMAIN mid = Callers /\ mid["boot"] = s /\ mid["drain"] = disp["drain"]
        /\ mid = [c \in Callers |-> [todo |-> mid[c].todo, t |-> mid[c].t, place |-> mid[c].place]]
    BY <1>3 DEF DispOK, Callers
  <2> HIDE DEF mid
  <2>0. PICK f \in Callers : f = "fwd" BY DEF Callers
  <2>3. /\ DOMAIN disp' = Callers /\ disp' = [c \in Callers |-> disp'[c]]
        /\ \A c \in Callers : c # f => disp'[c] = mid[c]
        /\ disp'[f] = [todo |-> mid[f].todo, t |-> mid[f].t, place |-> "over"]
    <3>1. disp' = [mid EXCEPT ![f].place = "over"] BY <2>0, <2>1
    <3> QED BY <2>2, <3>1
  <2>4. \A c \in Callers : disp'[c] = [todo |-> disp'[c].todo, t |-> disp'[c].t, place |-> disp'[c].place]
    BY <2>2, <2>3
  <2>5. DispOK' BY <2>3, <2>4 DEF DispOK
  <2> QED BY <2>0, <2>2, <2>3, <2>5 DEF Callers
<1>5. \A c \in Callers : ~IsBusy(c) /\ ~IsBusy(c)'
  <2>1. \A c \in Callers : ~IsBusy(c) BY <1>1 DEF BusyHasWork
  <2> QED BY <1>3, <1>4, <2>1 DEF IsBusy, Callers
<1>6. CountsOK' /\ DrainRests' /\ BusyHasWork'
  BY <1>1, <1>4, <1>5 DEF CountsOK, DrainRests, BusyHasWork
<1>7. PaidFor'
  <2>1. \A h \in Hooks : BusyOn(h)' = BusyOn(h) /\ Claimed(h)' = Claimed(h) BY <1>1, <1>5 DEF BusyOn, Claimed
  <2> QED BY <1>1, <2>1 DEF PaidFor
<1>8. ClaimsBacked' BY <1>1, <1>5 DEF ClaimsBacked, Backed
<1> QED BY <1>4, <1>6, <1>7, <1>8

LEMMA HookStep == ASSUME HookInv, [HooksNext]_hookVars PROVE HookInv'
<1> USE DEF HookInv
\* Steps that leave dispatches and claims alone.
<1>1. ASSUME UNCHANGED <<disp, proc, claims, sentReleases, fired, late, cut, forgets>> PROVE HookInv'
  <2>1. \A h \in Hooks : BusyOn(h)' = BusyOn(h) /\ Claimed(h)' = Claimed(h)
    BY <1>1 DEF BusyOn, IsBusy, Claimed
  <2>2. PaidFor' BY <1>1, <2>1 DEF PaidFor
  <2>3. DispOK' /\ CountsOK' /\ DrainRests' BY <1>1 DEF DispOK, CountsOK, DrainRests
  <2>4. BusyHasWork' /\ ClaimsBacked' BY <1>1 DEF BusyHasWork, IsBusy, ClaimsBacked, Backed, Current
  <2> QED BY <2>2, <2>3, <2>4
<1>2. ASSUME NEW h \in Hooks, AddHook(h) \/ AddUnique(h) \/ RemoveHook(h) PROVE HookInv'
  BY <1>1, <1>2 DEF AddHook, AddUnique, RemoveHook, RegistryCall, hookHist, hookSent
<1>3. ASSUME NEW i \in DOMAIN writing, LandWrite(i) PROVE HookInv'
  BY <1>1, <1>3 DEF LandWrite, hookHist, hookSent
<1>4. CASE SettleRow \/ EvictRow \/ OrphanSweep \/ UNCHANGED hookVars
  BY <1>1, <1>4 DEF SettleRow, EvictRow, OrphanSweep, hookHist, hookSent, hookVars
<1>5. ASSUME NEW c \in Callers, SkipHook(c) PROVE HookInv'
  <2>1. disp[c].place = "claim" /\ NextHook(c) /\ UNCHANGED <<proc, claims, sentReleases, fired, late, cut, forgets>>
    BY <1>5 DEF SkipHook, AtPlace, hookHist, hookSent
  <2>2. ~IsBusy(c) /\ ~IsBusy(c)' /\ DrainRests' BY <2>1, NextDoes DEF IsBusy, DrainRests, Callers
  <2> QED BY <2>1, <2>2, NextDoes, QuietStep
<1>6. ASSUME NEW c \in Callers, ReleaseClaim(c) PROVE HookInv'
  <2>1. /\ disp[c].place = "release" /\ proc # "down" /\ NextHook(c) /\ UNCHANGED <<proc, sentReleases, fired, late, forgets>>
        /\ \/ claims' = claims \ {Current(c)} /\ UNCHANGED cut
           \/ cut' = cut \cup {Current(c)} /\ UNCHANGED claims
    BY <1>6 DEF ReleaseClaim, ReleaseAfter, AtPlace, hookSent
  <2>2. IsBusy(c) BY <2>1 DEF IsBusy
  <2> QED BY <2>1, <2>2, ActionEnds
\* Steps that put a caller that acts on nothing somewhere else.
<1>7. ASSUME NEW c \in Callers, NEW t, NEW hooks, disp[c].place \notin {"act", "release"},
             \/ disp' = [disp EXCEPT ![c] = Firing(t, hooks)]
             \/ disp' = [disp EXCEPT ![c] = Resting],
             UNCHANGED <<claims, sentReleases, fired, late, cut, forgets>>,
             c = "drain" => proc' = "draining",
             c # "drain" => proc' = proc, proc' # "down"
      PROVE  HookInv'
  <2>1. DispOK' /\ (\A d \in Callers : d # c => disp'[d] = disp[d]) /\ disp'[c].place \in {"claim", "rest"}
    BY <1>7, PutDoes
  <2>2. ~IsBusy(c) /\ ~IsBusy(c)' /\ DrainRests' BY <1>7, <2>1 DEF IsBusy, DrainRests, Callers
  <2> QED BY <1>7, <2>1, <2>2, QuietStep
<1>8. CASE ForwardProgress \/ \E t \in Transitions \ {"Progress"} : ForwardCompleted(t)
  <2>1. /\ disp["fwd"].place = "rest" /\ proc # "down" /\ UNCHANGED <<proc, claims, sentReleases, fired, late, cut, forgets>>
        /\ \E t : disp' = [disp EXCEPT !["fwd"] = Firing(t, attached)]
    BY <1>8 DEF ForwardProgress, ForwardCompleted, hookHist, hookSent
  <2>2. "fwd" \in Callers BY DEF Callers
  <2>3. PICK t, hooks : hooks = attached /\ disp' = [disp EXCEPT !["fwd"] = Firing(t, attached)] BY <2>1
  <2>4. \/ disp' = [disp EXCEPT !["fwd"] = Firing(t, hooks)]
        \/ disp' = [disp EXCEPT !["fwd"] = Resting]
    BY <2>3
  <2>5. UNCHANGED <<claims, sentReleases, fired, late, cut, forgets>> /\ proc' = proc /\ proc' # "down"
        /\ disp["fwd"].place \notin {"act", "release"}
    BY <2>1
  <2> QED BY <1>7, <2>2, <2>4, <2>5
<1>9. CASE BeginDrain
  <2>1. /\ proc = "up" /\ proc' = "draining" /\ UNCHANGED <<claims, sentReleases, fired, late, cut, forgets>>
        /\ \/ disp' = [disp EXCEPT !["drain"] = Firing("Cancelled", attached)]
           \/ disp' = [disp EXCEPT !["drain"] = Resting]
    BY <1>9 DEF BeginDrain, hookHist, hookSent
  <2>2. "drain" \in Callers /\ disp["drain"].place = "rest" BY <2>1 DEF Callers, DrainRests
  <2>3. PICK t, hooks : t = "Cancelled" /\ hooks = attached OBVIOUS
  <2>4. \/ disp' = [disp EXCEPT !["drain"] = Firing(t, hooks)]
        \/ disp' = [disp EXCEPT !["drain"] = Resting]
    BY <2>1, <2>3
  <2> QED BY <1>7, <2>1, <2>2, <2>4
<1>10. CASE DrainDone \/ BootDone
  <2>1. PICK c \in {"drain", "boot"} :
           /\ disp[c].place = "claim" /\ UNCHANGED <<proc, claims, sentReleases, fired, late, cut, forgets>>
           /\ disp' = [disp EXCEPT ![c] = Resting] /\ proc # "down" /\ (c = "drain" => proc = "draining")
    BY <1>10 DEF DrainDone, BootDone, hookHist, hookSent
  <2>2. c \in Callers BY DEF Callers
  <2> QED BY <1>7, <2>1, <2>2
<1>11. ASSUME NEW p \in {"rest", "forget", "over"}, Move("fwd", p), disp["fwd"].place \in {"claim", "forget"},
              UNCHANGED <<proc, sentReleases, fired, late, cut>>,
              \/ UNCHANGED <<claims, forgets>>
              \/ claims' = {} /\ forgets' = forgets + 1
       PROVE  HookInv'
  <2>1. "fwd" \in Callers BY DEF Callers
  <2>2. DispOK' /\ (\A d \in Callers : d # "fwd" => disp'[d] = disp[d]) /\ disp'["fwd"].place = p
    <3>1. /\ DispOK' /\ \A d \in Callers : d # "fwd" => disp'[d] = disp[d]
          /\ disp'["fwd"] = [todo |-> disp["fwd"].todo, t |-> disp["fwd"].t, place |-> p]
      BY <1>11, <2>1, MoveDoes
    <3> QED BY <3>1
  <2>3. ~IsBusy("fwd") /\ ~IsBusy("fwd")' /\ DrainRests' BY <1>11, <2>2 DEF IsBusy, DrainRests, Callers
  <2> QED BY <1>11, <2>1, <2>2, <2>3, QuietStep
<1>12. CASE ProgressFired \/ CompletedFired \/ ForgetGoal
  BY <1>11, <1>12 DEF ProgressFired, CompletedFired, ForgetGoal, FwdFired, hookHist, hookSent
<1>13. CASE DropDispatch
  <2>0. PICK c \in Callers : c = "drain" BY DEF Callers
  <2>1. /\ proc = "draining" /\ NextHook(c) /\ UNCHANGED <<proc, claims, late, forgets>>
        /\ \/ /\ disp[c].place = "claim" /\ UNCHANGED <<fired, late, cut>>
              /\ UNCHANGED sentReleases
           \/ /\ IsBusy(c) /\ UNCHANGED fired /\ cut' = cut \cup {Current(c)}
              /\ \/ sentReleases' = sentReleases
                 \/ sentReleases' = [sentReleases EXCEPT ![Current(c)[1]] = @ + 1]
           \/ IsBusy(c) /\ TookEffect(c) /\ UNCHANGED <<cut, sentReleases>>
    BY <1>13, <2>0 DEF DropDispatch, CutOff, AtPlace, IsBusy, hookSent
  <2>2. CASE IsBusy(c)
    <3>1. disp[c].place # "claim" BY <2>2 DEF IsBusy
    <3> QED BY <2>1, <2>2, <3>1, ActionEnds
  <2>3. CASE ~IsBusy(c)
    <3>1. disp'[c] = [todo |-> Tail(disp[c].todo), t |-> disp[c].t, place |-> "claim"] BY <2>1, NextDoes
    <3>2. disp'[c].place = "claim" BY <3>1
    <3>3. ~IsBusy(c)' /\ DrainRests' BY <2>0, <2>1, <3>2 DEF IsBusy, DrainRests
    <3> QED BY <2>1, <2>3, <3>3, NextDoes, QuietStep
  <2> QED BY <2>2, <2>3
\* Statements of dropped dispatches land.
<1>17. ASSUME NEW g \in Hooks, ClaimLands(g) \/ ReleaseLands(g) PROVE HookInv'
  <2> DEFINE it == <<g, "Cancelled">>
  <2>1. /\ UNCHANGED <<proc, disp, fired, late, forgets>>
        /\ \/ /\ UNCHANGED sentReleases
              /\ claims' = claims \cup {it} /\ cut' = cut \cup ({it} \ claims)
           \/ /\ sentReleases' = [sentReleases EXCEPT ![g] = @ - 1] /\ sentReleases[g] > 0
              /\ claims' = claims \ {it} /\ cut' = cut
    BY <1>17 DEF ClaimLands, ReleaseLands
  <2>2. sentReleases' \in [Hooks -> Nat] BY <2>1 DEF CountsOK
  <2>4. CountsOK' /\ DispOK' /\ DrainRests' BY <2>1, <2>2 DEF CountsOK, DispOK, DrainRests
  <2>5. BusyHasWork' BY <2>1 DEF BusyHasWork, IsBusy
  <2>6. PaidFor'
    <3> SUFFICES ASSUME NEW h \in Hooks
                 PROVE  fired'[h] + sentReleases'[h] + Cardinality(BusyOn(h)') <= Claimed(h)' + late'[h] + forgets'
      BY DEF PaidFor
    <3>1. BusyOn(h)' = BusyOn(h) BY <2>1 DEF BusyOn, IsBusy
    <3>2. fired[h] \in Nat /\ late[h] \in Nat /\ forgets \in Nat /\ Cardinality(BusyOn(h)) \in Nat
          /\ sentReleases[h] \in Nat
      BY BusyFinite DEF CountsOK
    <3>3. fired[h] + sentReleases[h] + Cardinality(BusyOn(h)) <= Claimed(h) + late[h] + forgets BY DEF PaidFor
    <3>4. \/ sentReleases'[h] = sentReleases[h] /\ Claimed(h)' >= Claimed(h)
          \/ sentReleases'[h] = sentReleases[h] - 1 /\ Claimed(h)' >= Claimed(h) - 1
      <4>1. CASE UNCHANGED sentReleases /\ claims' = claims \cup {it} BY <4>1 DEF Claimed
      <4>2. CASE sentReleases' = [sentReleases EXCEPT ![g] = @ - 1] /\ claims' = claims \ {it}
        <5>1. CASE g = h BY <4>2, <5>1 DEF CountsOK, Claimed
        <5>2. CASE g # h BY <4>2, <5>2 DEF CountsOK, Claimed
        <5> QED BY <5>1, <5>2
      <4> QED BY <2>1, <4>1, <4>2
    <3>5. Claimed(h) \in {0, 1} /\ Claimed(h)' \in {0, 1} BY DEF Claimed
    <3> QED BY <2>1, <3>1, <3>2, <3>3, <3>4, <3>5
  <2>7. ClaimsBacked'
    <3> SUFFICES ASSUME NEW h \in Hooks, NEW t \in Transitions, <<h, t>> \in claims'
                 PROVE  Backed(h, t)'
      BY DEF ClaimsBacked
    <3>1. CASE <<h, t>> \in claims BY <2>1, <3>1 DEF ClaimsBacked, Backed, Current, IsBusy
    <3>2. CASE <<h, t>> \notin claims BY <2>1, <3>2 DEF Backed
    <3> QED BY <3>1, <3>2
  <2> QED BY <2>4, <2>5, <2>6, <2>7
<1>14. CASE Exit \/ Kill
  <2>1. proc # "down" /\ Stop BY <1>14 DEF Exit, Kill
  <2> QED BY <2>1, StopKeeps
<1>15. CASE BootHooks BY <1>15, BootKeeps
<1>16. ASSUME NEW c \in Callers, TryClaim(c) \/ RunAction(c) PROVE HookInv'
  BY <1>16, TryClaimKeeps, RunActionKeeps
<1> QED BY <1>2, <1>3, <1>4, <1>5, <1>6, <1>8, <1>9, <1>10, <1>12, <1>13, <1>14, <1>15, <1>16, <1>17
  DEF HooksNext

LEMMA HookInvariance == HooksSpec => []HookInv
<1>1. HooksInit => HookInv
  <2> SUFFICES ASSUME HooksInit PROVE HookInv OBVIOUS
  <2>1. DispOK /\ CountsOK /\ DrainRests /\ \A c \in Callers : ~IsBusy(c)
    BY DEF HooksInit, DispOK, CountsOK, DrainRests, IsBusy, Resting, Callers
  <2>2. \A h \in Hooks : fired[h] = 0 /\ late[h] = 0 /\ forgets = 0 /\ Claimed(h) = 0
    BY DEF HooksInit, Claimed
  <2>3. \A h : Cardinality(BusyOn(h)) = 0
    <3> TAKE h
    <3>1. BusyOn(h) = {} BY <2>1 DEF BusyOn
    <3> QED BY <3>1, FS_EmptySet
  <2>6. \A h \in Hooks : sentReleases[h] = 0 BY DEF HooksInit
  <2>4. PaidFor BY <2>2, <2>3, <2>6 DEF PaidFor
  <2>5. BusyHasWork /\ ClaimsBacked BY <2>1 DEF HooksInit, BusyHasWork, ClaimsBacked
  <2> QED BY <2>1, <2>4, <2>5 DEF HookInv
<1>2. HookInv /\ [HooksNext]_hookVars => HookInv' BY HookStep
<1> QED BY <1>1, <1>2, PTL DEF HooksSpec

\* dispatch: for any hooks and however forwarder, drain, boot sweep and kills interleave,
\* an action takes effect once, plus once per unnoticed effect and per forgotten claim.
THEOREM HookOnce == HooksSpec => []HookFiresOnce
<1>1. HookInv => HookFiresOnce
  <2> SUFFICES ASSUME HookInv, NEW h \in Hooks PROVE fired[h] <= 1 + late[h] + forgets
    BY DEF HookFiresOnce
  <2>1. fired[h] + sentReleases[h] + Cardinality(BusyOn(h)) <= Claimed(h) + late[h] + forgets BY DEF HookInv, PaidFor
  <2>2. Claimed(h) \in {0, 1} BY DEF Claimed
  <2>3. fired[h] \in Nat /\ sentReleases[h] \in Nat /\ late[h] \in Nat /\ forgets \in Nat /\ Cardinality(BusyOn(h)) \in Nat
    BY BusyFinite DEF HookInv, CountsOK
  <2> QED BY <2>1, <2>2, <2>3
<1> QED BY <1>1, HookInvariance, PTL

\* A claim that nobody acts on stands for an effect, or for a dispatch that was cut off.
THEOREM ClaimIsEarned == HooksSpec => []ClaimMeansFired
<1>1. HookInv => ClaimMeansFired BY BackedIsMeant DEF HookInv
<1> QED BY <1>1, HookInvariance, PTL
=============================================================================
