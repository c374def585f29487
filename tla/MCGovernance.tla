---------------------------- MODULE MCGovernance ----------------------------
(* Headers that vote for everything or for nothing, and deployments that lock
   in by vote, by timeout, late, and not at all.  Each is evaluated by
   itself, so that sharing the votes loses nothing. *)
EXTENDS Governance, TLC

CONSTANTS no, yes

MCMask == no :> {} @@ yes :> {1, 2, 3, 4}

MCDeployments ==
  {[bit |-> 1, start |-> 1, timeout |-> 4, period |-> 2, num |-> 1, den |-> 1, min |-> 0, lot |-> FALSE],
   [bit |-> 2, start |-> 0, timeout |-> 3, period |-> 2, num |-> 1, den |-> 2, min |-> 7, lot |-> TRUE],
   [bit |-> 3, start |-> 0, timeout |-> 1, period |-> 1, num |-> 1, den |-> 1, min |-> 4, lot |-> TRUE],
   [bit |-> 4, start |-> 2, timeout |-> 5, period |-> 1, num |-> 1, den |-> 1, min |-> 0, lot |-> FALSE]}
=============================================================================
