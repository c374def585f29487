----------------------------- MODULE Compliance -----------------------------
(***************************************************************************)
(* The pure decision function of crates/compliance (controls.rs): may an   *)
(* account send an amount of a regulated asset at a height, and what is    *)
(* its spend window afterwards.                                            *)
(***************************************************************************)
EXTENDS Integers

CONSTANT NoLimit   \* a policy without a spend limit

Permits(control, a) == CASE control.kind = "any"   -> TRUE
                         [] control.kind = "allow" -> a \in control.list
                         [] control.kind = "deny"  -> a \notin control.list

\* The window the limit is counted in at height h: the old one, or a fresh
\* one once window_blocks have passed since it began.
WindowAt(w, h, blocks) == IF h - w.start >= blocks THEN [start |-> h, spent |-> 0] ELSE w

TransferAllowed(policy, to, amount, h, w) ==
  /\ ~policy.frozen
  /\ Permits(policy.control, to)
  /\ policy.limit # NoLimit =>
       WindowAt(w, h, policy.limit.blocks).spent + amount <= policy.limit.max

WindowAfter(policy, amount, h, w) ==
  IF policy.limit = NoLimit THEN w
  ELSE [WindowAt(w, h, policy.limit.blocks) EXCEPT !.spent = @ + amount]
=============================================================================
