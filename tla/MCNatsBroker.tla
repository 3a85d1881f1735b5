----------------------------- MODULE MCNatsBroker -----------------------------
(***************************************************************************)
(* Model-checking instances of NatsBroker.                                 *)
(*                                                                         *)
(* MixedSpec adds up two state spaces over the same variables: the whole   *)
(* broker, whose operator does not replay, and the disk queue by itself,   *)
(* whose callers come and go without publish(), monitor and breaker and    *)
(* whose operator replays as well.                                         *)
(***************************************************************************)
EXTENDS NatsBroker, TLC

VARIABLE scope
mixedVars == <<scope, brokerVars>>

MixedInit == BrokerInit /\ scope \in {"broker", "queue"}

MixedNext ==
    /\ UNCHANGED scope
    /\ \/ scope = "broker" /\ BrokerNext /\ rpc' = "idle"
       \/ scope = "queue" /\ Next /\ UNCHANGED broker

MixedSpec == MixedInit /\ [][MixedNext]_mixedVars

BrokerSymmetry == Permutations(Writers) \cup Permutations(Drainers)
                     \cup Permutations(Events \ Poison)
=============================================================================
