--------------------------- MODULE ConfigApproval ---------------------------
(***************************************************************************)
(* Changes of agents.yaml an agent proposes for itself: the propose and    *)
(* apply operations of ConfigTool (crates/core/src/agent/config_tool.rs),  *)
(* the ApprovalCorrelator that parks a proposal until the operator answers *)
(* or it expires, and the recovery of staged proposals after a restart.    *)
(***************************************************************************)
EXTENDS Naturals, FiniteSets

CONSTANTS Patches,    \* proposals
          Keys,       \* dotted keys of an agent they may set or remove
          Applies,    \* concurrent calls of op=apply
          MaxParks,   \* bound: entries ever parked
          MaxTroubles \* bound: restarts, expiries, and steps of propose and apply that fail

ASSUME ApprovalAssumption == {MaxParks, MaxTroubles} \subseteq Nat /\ IsFiniteSet(Patches)

VARIABLES pending,   \* ApprovalCorrelator.pending: the channel parked per patch, 0 when none
          receivers, \* ConfigTool.pending_receivers: likewise
          decided,   \* what each channel carries: open, a decision, or dropped
          parks,     \* channels made so far
          staged,    \* staging files
          proposing, \* proposals parked and not yet staged
          overdue,   \* proposals whose expires_at has passed
          hand,      \* the entry on_inbound has taken out, with the message
          apply,     \* per call of apply: place, patch, channel and snapshot
          target,    \* the key each proposal changes
          yaml,      \* patches whose change agents.yaml holds
          reported,  \* patches whose apply returned applied = true
          \* history and bounds
          approved,  \* patches their own binding has approved
          undone,    \* patches taken out again by another apply than the one that put them in
          troubles

approvalVars == <<pending, receivers, decided, parks, staged, proposing, overdue, hand, apply,
                  target, yaml, reported, approved, undone, troubles>>
Channels == 1..MaxParks
EmptyHand == [patch |-> "none", chan |-> 0, own |-> FALSE, cmd |-> "none"]
Returned == [place |-> "idle", patch |-> "none", chan |-> 0, snap |-> {}]

ApprovalInit ==
    /\ target \in [Patches -> Keys]
    /\ pending = [p \in Patches |-> 0] /\ receivers = pending
    /\ decided = [c \in Channels |-> "open"] /\ parks = 0
    /\ staged = {} /\ proposing = {} /\ overdue = {} /\ hand = EmptyHand
    /\ apply = [a \in Applies |-> Returned] /\ yaml = {} /\ reported = {}
    /\ approved = {} /\ undone = {} /\ troubles = 0

Trouble == troubles < MaxTroubles /\ troubles' = troubles + 1

(***************************************************************************)
(* ApprovalCorrelator.                                                     *)
(***************************************************************************)
\* An entry that is replaced or removed without an answer drops its responder.
Dropping(p) == [c \in Channels |-> IF c = pending[p] /\ decided[c] = "open"
                                   THEN "dropped" ELSE decided[c]]
Park(p) ==
    /\ parks < MaxParks /\ parks' = parks + 1
    /\ pending' = [pending EXCEPT ![p] = parks + 1] /\ decided' = Dropping(p)

\* on_inbound takes the entry out, and puts it back when another binding sent the message.
Inbound(p, own, cmd) ==
    /\ hand = EmptyHand /\ pending[p] > 0
    /\ hand' = [patch |-> p, chan |-> pending[p], own |-> own, cmd |-> cmd]
    /\ pending' = [pending EXCEPT ![p] = 0]
    /\ UNCHANGED <<receivers, decided, parks, staged, proposing, overdue, apply, yaml, reported,
                   approved, undone, troubles>>

SameBindingM == TRUE
SameBinding == hand.own

PutBack ==
    /\ hand # EmptyHand /\ ~SameBinding /\ hand' = EmptyHand
    /\ pending' = [pending EXCEPT ![hand.patch] = hand.chan]
    /\ decided' = Dropping(hand.patch)
    /\ UNCHANGED <<receivers, parks, staged, proposing, overdue, apply, yaml, reported, approved,
                   undone, troubles>>

Answer ==
    /\ hand # EmptyHand /\ SameBinding /\ hand' = EmptyHand
    /\ decided' = [decided EXCEPT ![hand.chan] = hand.cmd]
    /\ approved' = IF hand.own /\ hand.cmd = "approved" THEN approved \cup {hand.patch}
                                                        ELSE approved
    /\ UNCHANGED <<pending, receivers, parks, staged, proposing, overdue, apply, yaml, reported,
                   undone, troubles>>

ReapExpired(p) ==
    /\ p \in overdue /\ pending[p] > 0 /\ pending' = [pending EXCEPT ![p] = 0]
    /\ decided' = [decided EXCEPT ![pending[p]] = "expired"]
    /\ UNCHANGED <<receivers, parks, staged, proposing, overdue, hand, apply, yaml, reported,
                   approved, undone, troubles>>

Expire(p) ==
    /\ Trouble /\ p \notin overdue /\ overdue' = overdue \cup {p}
    /\ UNCHANGED <<pending, receivers, decided, parks, staged, proposing, hand, apply, yaml,
                   reported, approved, undone>>

(***************************************************************************)
(* handle_propose: parked first, staged second, undone when staging fails. *)
(***************************************************************************)
Propose(p) ==
    /\ p \notin proposing \cup staged \cup reported /\ p \notin overdue /\ receivers[p] = 0
    /\ Park(p) /\ receivers' = [receivers EXCEPT ![p] = parks + 1]
    /\ proposing' = proposing \cup {p}
    /\ UNCHANGED <<staged, overdue, hand, apply, yaml, reported, approved, undone, troubles>>

Stage(p) ==
    /\ p \in proposing /\ proposing' = proposing \ {p}
    /\ \/ staged' = staged \cup {p} /\ UNCHANGED <<pending, receivers, decided, troubles>>
       \/ /\ Trouble /\ receivers' = [receivers EXCEPT ![p] = 0] \* cancel_patch
          /\ pending' = [pending EXCEPT ![p] = 0] /\ decided' = Dropping(p)
          /\ UNCHANGED staged
    /\ UNCHANGED <<parks, overdue, hand, apply, yaml, reported, approved, undone>>

(***************************************************************************)
(* handle_apply.                                                           *)
(***************************************************************************)
ApplyAt(a, place) == apply[a].place = place
Return(a) == apply' = [apply EXCEPT ![a] = Returned]

\* The parked receiver, or a new one for the staging file (recover_receiver_for_patch).
ApplyBegin(a, p) ==
    /\ ApplyAt(a, "idle")
    /\ \/ /\ receivers[p] > 0 /\ receivers' = [receivers EXCEPT ![p] = 0]
          /\ apply' = [apply EXCEPT ![a] = [place |-> "read", patch |-> p,
                                            chan |-> receivers[p], snap |-> {}]]
          /\ UNCHANGED <<pending, decided, parks, staged>>
       \/ /\ receivers[p] = 0 /\ p \in staged \ overdue /\ Park(p)
          /\ apply' = [apply EXCEPT ![a] = [place |-> "read", patch |-> p,
                                            chan |-> parks + 1, snap |-> {}]]
          /\ UNCHANGED <<receivers, staged>>
       \/ /\ receivers[p] = 0 /\ p \in staged \cap overdue /\ staged' = staged \ {p}
          /\ UNCHANGED <<pending, receivers, decided, parks, apply>>
    /\ UNCHANGED <<proposing, overdue, hand, yaml, reported, approved, undone, troubles>>

\* Without the staging file the receiver goes back; the key passed the denylist before.
ReadStaging(a) ==
    /\ ApplyAt(a, "read")
    /\ IF apply[a].patch \in staged
          THEN apply' = [apply EXCEPT ![a].place = "await"] /\ UNCHANGED receivers
          ELSE Return(a) /\ receivers' = [receivers EXCEPT ![apply[a].patch] = apply[a].chan]
    /\ UNCHANGED <<pending, decided, parks, staged, proposing, overdue, hand, yaml, reported,
                   approved, undone, troubles>>

\* rx.await consumes the channel; only an approval goes on, with the snapshot for rollback.
AwaitDecision(a) ==
    /\ ApplyAt(a, "await") /\ decided[apply[a].chan] # "open"
    /\ IF decided[apply[a].chan] = "approved"
          THEN apply' = [apply EXCEPT ![a].place = "patch", ![a].snap = yaml, ![a].chan = 0]
          ELSE Return(a)
    /\ decided' = [decided EXCEPT ![apply[a].chan] = "dropped"]
    /\ UNCHANGED <<pending, receivers, parks, staged, proposing, overdue, hand, yaml, reported,
                   approved, undone, troubles>>

\* apply under YAML_UPSERT_LOCK, which replaces an earlier change of the key, or its error.
Replaced(p) == {q \in yaml \ {p} : target[q] = target[p]}
ApplyPatch(a) ==
    /\ ApplyAt(a, "patch")
    /\ \/ /\ yaml' = (yaml \ Replaced(apply[a].patch)) \cup {apply[a].patch}
          /\ undone' = undone \cup Replaced(apply[a].patch)
          /\ apply' = [apply EXCEPT ![a].place = "reload"] /\ UNCHANGED troubles
       \/ Trouble /\ Return(a) /\ UNCHANGED <<yaml, undone>>
    /\ UNCHANGED <<pending, receivers, decided, parks, staged, proposing, overdue, hand, reported,
                   approved>>

ReloadOk(a) ==
    /\ ApplyAt(a, "reload") /\ Return(a)
    /\ reported' = reported \cup {apply[a].patch} /\ staged' = staged \ {apply[a].patch}
    /\ UNCHANGED <<pending, receivers, decided, parks, proposing, overdue, hand, yaml, approved,
                   undone, troubles>>

\* restore writes the whole file as it was at the snapshot; it may fail.
Overlapping(a) == {apply[b].patch : b \in {c \in Applies \ {a} : ApplyAt(c, "reload")}}
ReloadRejected(a) ==
    /\ Trouble /\ ApplyAt(a, "reload") /\ Return(a)
    /\ \/ /\ yaml' = apply[a].snap
          /\ undone' = undone \cup ((yaml \ apply[a].snap) \cap (reported \cup Overlapping(a)))
       \/ UNCHANGED <<yaml, undone>>
    /\ UNCHANGED <<pending, receivers, decided, parks, staged, proposing, overdue, hand, reported,
                   approved>>

(***************************************************************************)
(* A restart forgets channels, receivers and calls, and parks each staged  *)
(* proposal that has not expired again (recover_pending_from_staging).     *)
(***************************************************************************)
Restart ==
    /\ Trouble
    /\ LET alive == staged \ overdue IN
       /\ parks + Cardinality(alive) <= MaxParks /\ parks' = parks + Cardinality(alive)
       /\ \E chan \in [alive -> (parks + 1)..(parks + Cardinality(alive))] :
             /\ \A p, q \in alive : p # q => chan[p] # chan[q]
             /\ pending' = [p \in Patches |-> IF p \in alive THEN chan[p] ELSE 0]
             /\ receivers' = pending'
       /\ staged' = alive
    /\ apply' = [a \in Applies |-> Returned] /\ hand' = EmptyHand /\ proposing' = {}
    /\ decided' = [c \in Channels |-> IF c <= parks THEN "dropped" ELSE "open"]
    /\ UNCHANGED <<overdue, yaml, reported, approved, undone>>

ApprovalStep ==
    \/ \E p \in Patches : \/ Inbound(p, FALSE, "approved")
                          \/ \E cmd \in {"approved", "rejected"} : Inbound(p, TRUE, cmd)
    \/ PutBack \/ Answer \/ Restart
    \/ \E p \in Patches : ReapExpired(p) \/ Expire(p) \/ Propose(p) \/ Stage(p)
    \/ \E a \in Applies : \E p \in Patches : ApplyBegin(a, p)
    \/ \E a \in Applies : \/ ReadStaging(a) \/ AwaitDecision(a) \/ ApplyPatch(a)
                          \/ ReloadOk(a) \/ ReloadRejected(a)

ApprovalNext == ApprovalStep /\ UNCHANGED target

ApprovalSpec == ApprovalInit /\ [][ApprovalNext]_approvalVars

(***************************************************************************)
(* Properties.                                                             *)
(***************************************************************************)
\* agents.yaml follows the operator: a change is in it only if the binding that proposed
\* it approved it, whatever other bindings, re-parked receivers, expiry and restarts do in
\* between, and a change reported as applied is still there unless another apply took it
\* out, by a change of the same key or by a rollback to an older snapshot (on_inbound,
\* handle_apply).
YamlFollowsDecisions ==
    /\ yaml \subseteq approved
    /\ reported \subseteq yaml \cup undone
=============================================================================
