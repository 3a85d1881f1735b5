----------------------------- MODULE MCTaskFlow -----------------------------
(* TaskFlow on small instances.  Clients are interchangeable: no action and *)
(* no property below names one of them.                                    *)
EXTENDS TaskFlow, TLC

ClientSymmetry == Permutations(Clients)
=============================================================================
