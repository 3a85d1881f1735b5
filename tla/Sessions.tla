------------------------------ MODULE Sessions ------------------------------
(***************************************************************************)
(* SessionManager (crates/core/src/session/manager.rs): a concurrent map   *)
(* of sessions with a soft cap, a sweeper of idle sessions, and callbacks  *)
(* that tell other parts a session is gone.  Callers share the map without *)
(* a lock: every line that touches it is a step.  What a callback does     *)
(* with the id (a commit of the workspace, McpRuntimeManager's             *)
(* dispose_session) is not modelled.                                       *)
(***************************************************************************)
EXTENDS Naturals, FiniteSets

CONSTANTS SessionIds,  \* ids of sessions
          Users,       \* concurrent callers of the manager
          MaxSessions, \* max_sessions, 0 disables the cap
          Ttl,         \* ttl, in ticks
          MaxTick,     \* bound: last tick
          MaxSessionCalls \* bound: calls of the manager's methods

ASSUME SessionsAssumption ==
    {MaxSessions, Ttl, MaxTick, MaxSessionCalls} \subseteq Nat /\ IsFiniteSet(Users)

VARIABLES seen,     \* last_access of each session in the map, 0 when absent
          tick,     \* the clock
          user,     \* per caller: place, the id it asks for, the session it would evict
          sweep,    \* the sweeper: the ids it collected and those it has not removed yet
          callbacks, \* spawned on_expire callbacks that have not run
          sessionCalls, \* counter
          owed      \* history: ids of sessions dropped since a callback last ran for them

sessionVars == <<seen, tick, user, sweep, callbacks, sessionCalls, owed>>
Live == {i \in SessionIds : seen[i] > 0}

SessionsInit ==
    /\ seen = [i \in SessionIds |-> 0] /\ tick = 1
    /\ user = [u \in Users |-> [place |-> "idle", id |-> "none", victim |-> "none"]]
    /\ sweep = [ids |-> {}, left |-> {}] /\ callbacks = {} /\ owed = {}
    /\ sessionCalls = 0

Called == sessionCalls < MaxSessionCalls /\ sessionCalls' = sessionCalls + 1
UserAt(u, p) == user[u].place = p
UserTo(u, p) == user' = [user EXCEPT ![u].place = p]
Drop(i) == /\ seen' = [seen EXCEPT ![i] = 0]
           /\ owed' = IF i \in Live THEN owed \cup {i} ELSE owed

\* remove().is_some(), and fire_expire if it was there.
DropQuietly(i) == Drop(i) /\ UNCHANGED callbacks
DropAnd(i) ==
    /\ Drop(i)
    /\ callbacks' = IF i \in Live THEN callbacks \cup {i} ELSE callbacks

(***************************************************************************)
(* get_or_create and create: contains_key, enforce_cap, insert.            *)
(***************************************************************************)
GetOrCreate(u, i) ==
    /\ UserAt(u, "idle") /\ Called
    /\ user' = [user EXCEPT ![u].place = IF i \in Live THEN "entry" ELSE "cap", ![u].id = i]
    /\ UNCHANGED <<seen, tick, sweep, callbacks, owed>>

CapReachedM == MaxSessions > 0 /\ Cardinality(Live) > MaxSessions
CapReached == MaxSessions > 0 /\ Cardinality(Live) >= MaxSessions

Oldest(i) == i \in Live /\ \A j \in Live : seen[i] <= seen[j]

EnforceCap(u) ==
    /\ UserAt(u, "cap")
    /\ IF CapReached
          THEN \E i \in SessionIds : Oldest(i) /\ user' = [user EXCEPT ![u].place = "evict",
                                                                      ![u].victim = i]
          ELSE UserTo(u, "entry")
    /\ UNCHANGED <<seen, tick, sweep, callbacks, sessionCalls, owed>>

Evict(u) ==
    /\ UserAt(u, "evict") /\ DropAnd(user[u].victim)
    /\ user' = [user EXCEPT ![u].place = "cap", ![u].victim = "none"]
    /\ UNCHANGED <<tick, sweep, sessionCalls>>

InsertSession(u) ==
    /\ UserAt(u, "entry")
    /\ user' = [user EXCEPT ![u] = [place |-> "idle", id |-> "none", victim |-> "none"]]
    /\ seen' = [seen EXCEPT ![user[u].id] = tick]
    /\ UNCHANGED <<tick, sweep, callbacks, sessionCalls, owed>>

(***************************************************************************)
(* The other calls, each one entry lock.                                   *)
(***************************************************************************)
\* get and push_message.
Touch(i) ==
    /\ Called /\ i \in Live /\ seen' = [seen EXCEPT ![i] = tick]
    /\ UNCHANGED <<tick, user, sweep, callbacks, owed>>

\* A clone taken at some earlier time, with the last_access of then, replaces the entry.
UpdateSession(i, at) ==
    /\ Called /\ i \in Live /\ at <= tick /\ seen' = [seen EXCEPT ![i] = at]
    /\ UNCHANGED <<tick, user, sweep, callbacks, owed>>

DeleteSession(i) ==
    /\ Called /\ i \in Live /\ DropAnd(i)
    /\ UNCHANGED <<tick, user, sweep>>

(***************************************************************************)
(* The sweeper: collect, remove each, call back for each it collected.     *)
(***************************************************************************)
Expired(i) == i \in Live /\ tick >= seen[i] + Ttl

SweepCollect ==
    /\ sweep.ids = {} /\ \E i \in SessionIds : Expired(i)
    /\ LET ids == {i \in SessionIds : Expired(i)} IN sweep' = [ids |-> ids, left |-> ids]
    /\ UNCHANGED <<seen, tick, user, callbacks, sessionCalls, owed>>

SweepRemove(i) ==
    /\ i \in sweep.left /\ sweep' = [sweep EXCEPT !.left = @ \ {i}] /\ Drop(i)
    /\ UNCHANGED <<tick, user, callbacks, sessionCalls>>

\* A callback for every id it collected, whether or not the removal found it.
SweepCall ==
    /\ sweep.ids # {} /\ sweep.left = {} /\ sweep' = [ids |-> {}, left |-> {}]
    /\ callbacks' = callbacks \cup sweep.ids
    /\ UNCHANGED <<seen, tick, user, sessionCalls, owed>>

RunCallback(i) ==
    /\ i \in callbacks /\ callbacks' = callbacks \ {i} /\ owed' = owed \ {i}
    /\ UNCHANGED <<seen, tick, user, sweep, sessionCalls>>

SessionTick ==
    /\ tick < MaxTick /\ tick' = tick + 1
    /\ UNCHANGED <<seen, user, sweep, callbacks, sessionCalls, owed>>

SessionsNext ==
    \/ \E u \in Users, i \in SessionIds : GetOrCreate(u, i)
    \/ \E u \in Users : EnforceCap(u) \/ Evict(u) \/ InsertSession(u)
    \/ \E i \in SessionIds : Touch(i) \/ DeleteSession(i) \/ RunCallback(i) \/ SweepRemove(i)
    \/ \E i \in SessionIds : \E at \in 1..MaxTick : UpdateSession(i, at)
    \/ SweepCollect \/ SweepCall \/ SessionTick

SessionsSpec == SessionsInit /\ [][SessionsNext]_sessionVars

(***************************************************************************)
(* Properties.                                                             *)
(***************************************************************************)
\* The cap is soft: the map passes max_sessions by at most one session for each further
\* caller between enforce_cap and its insert (enforce_cap, get_or_create).
SessionsBounded ==
    MaxSessions > 0 => Cardinality(Live) < MaxSessions + Cardinality(Users)

\* A session leaves the map, by whichever of eviction, delete and sweeper, only with an
\* on_expire callback that runs after it has left: one is spawned, or the sweeper that
\* removed it is about to, also when the id is used again and dropped again meanwhile.
CloseIsAnnounced == owed \subseteq callbacks \cup sweep.ids
=============================================================================
