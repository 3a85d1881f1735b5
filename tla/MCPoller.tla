------------------------------ MODULE MCPoller ------------------------------
(***************************************************************************)
(* Model-checking instances of Poller.                                     *)
(***************************************************************************)
EXTENDS Poller, TLC

\* Bound: two events only if both are reloads, pauses or resumes.
MCBound == events > 1 => history \cap {"crash", "sqlite", "reset", "manual"} = {}

PollerSymmetry == Permutations(Tasks) \cup Permutations(Admins) \cup Permutations(Runners)
=============================================================================
