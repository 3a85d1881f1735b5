------------------------------ MODULE MCProgress -----------------------------
(***************************************************************************)
(* Progress of flows, of the loop of a goal and of a circuit breaker.      *)
(* They share no state, so a behaviour is one of a single part, chosen at  *)
(* the start, under the fairness of that part: the engine's tick loop and  *)
(* the clock, the spawned task of run_goal, and time.                      *)
(***************************************************************************)
EXTENDS TaskFlow, DriverLoop, CircuitBreaker

VARIABLE part

allVars == <<part, flowVars, loopVars, vars>>

OfFlow(A) == part = "flow" /\ A /\ UNCHANGED <<part, loopVars, vars>>
OfGoal(A) == part = "goal" /\ A /\ UNCHANGED <<part, flowVars, vars>>
OfBreaker(A) == part = "breaker" /\ A /\ UNCHANGED <<part, flowVars, loopVars>>

MCInit == part \in {"flow", "goal", "breaker"} /\ FlowInit /\ LoopInit /\ Init
MCNext == OfFlow(FlowNext) \/ OfGoal(LoopNext) \/ OfBreaker(Next)

MCSpec ==
    /\ MCInit /\ [][MCNext]_allVars
    /\ WF_allVars(OfFlow(EngineStep)) /\ WF_allVars(OfFlow(Clock))
    /\ WF_allVars(OfGoal(RunGoalStep))
    /\ WF_allVars(OfBreaker(Tick))
=============================================================================
