---------------------------- MODULE FlowLifecycle ----------------------------
(***************************************************************************)
(* What a flow promises to its owner, whoever drives it: it moves along    *)
(* its lifecycle graph (docs/src/taskflow/model.md), a cancel request is   *)
(* sticky and leaves only the way to Cancelled, and a terminal flow stays  *)
(* as it is until it is pruned for good.  Nothing is said about revisions, *)
(* journals, retries or who takes a step.                                  *)
(***************************************************************************)
CONSTANT Flows

VARIABLE life   \* life[f] = [status, cancel]

Terminal == {"Cancelled", "Finished", "Failed"}
Active == {"Created", "Running", "Waiting"}
Unborn == [status |-> "Absent", cancel |-> FALSE]

(* The documented lifecycle: the direct ways out of each active status.    *)
Successors == [Created |-> {"Running", "Cancelled"},
               Running |-> {"Waiting", "Finished", "Failed", "Cancelled"},
               Waiting |-> {"Running", "Failed", "Cancelled"}]

Init == life = [f \in Flows |-> Unborn]

Become(f, l) == life' = [life EXCEPT ![f] = l]

Create(f) ==
    /\ life[f] = Unborn
    /\ Become(f, [status |-> "Created", cancel |-> FALSE])

Advance(f, next) ==
    /\ life[f].status \in Active
    /\ next \in Successors[life[f].status]
    /\ life[f].cancel => next = "Cancelled"
    /\ Become(f, [life[f] EXCEPT !.status = next])

RequestCancel(f) ==
    /\ life[f].status \in Active
    /\ Become(f, [life[f] EXCEPT !.cancel = TRUE])

Prune(f) ==
    /\ life[f].status \in Terminal
    /\ Become(f, [status |-> "Pruned", cancel |-> FALSE])

Next == \E f \in Flows :
    \/ Create(f)
    \/ \E next \in Active \cup Terminal : Advance(f, next)
    \/ RequestCancel(f)
    \/ Prune(f)

Spec == Init /\ [][Next]_life
==============================================================================
