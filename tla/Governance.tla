----------------------------- MODULE Governance -----------------------------
(***************************************************************************)
(* Miner-signalled activation (crates/governance: lib.rs) over the block   *)
(* tree of crates/chain: blockchain.rs.  A block is the sequence of votes  *)
(* of its chain from height 1, which is what its hash commits to; genesis  *)
(* is the empty sequence and votes for nothing.  Which branch is heavier   *)
(* is the matter of Blockchain: here a competing block may win or lose.    *)
(***************************************************************************)
EXTENDS Integers, Sequences, FiniteSets, FiniteSetsExt, SequencesExt, Functions

CONSTANTS Vote,          \* the headers a miner may produce, as far as votes go
          Mask,          \* vote -> the version bits it sets
          Deployments,   \* [bit, start, timeout, period, num, den, min, lot]
          Grace,         \* tx_domain_grace_blocks
          UndoWindow,    \* REORG_UNDO_WINDOW
          MaxHeight, MaxBlocks   \* bounds of the model

\* What Deployment::new and Threshold::new refuse to construct otherwise.
ASSUME DeploymentAssumption ==
  \A d \in Deployments : /\ d.period \in Nat \ {0} /\ d.den \in Nat \ {0} /\ d.num \in 0..d.den
                         /\ d.start \in Nat /\ d.timeout \in Nat /\ d.timeout > d.start
                         /\ d.min \in Nat /\ d.lot \in BOOLEAN

ASSUME BoundAssumption == MaxHeight \in Nat

ASSUME GraceAssumption == Grace \in Nat

VARIABLES index,     \* the blocks stored, on any branch
          active,    \* the active chain
          signals    \* its SignalLog: height -> version bits

vars == <<index, active, signals>>

-----------------------------------------------------------------------------
(* The state machine of one deployment. *)

Signals(sig, h, bit) == h \in DOMAIN sig /\ bit \in sig[h]

\* Blocks of window n (heights n * period up to the next boundary) that vote.
SignalingCount(d, n, sig) ==
  Cardinality({h \in n * d.period .. (n + 1) * d.period - 1 : Signals(sig, h, d.bit)})

IsMet(d, count) == count * d.den >= d.num * d.period

\* Mutant: the window that only begins at the boundary is counted.
NextStateEarly(d, prev, n, sig) ==
  CASE prev = "Defined"  -> IF n * d.period >= d.start THEN "Started" ELSE prev
    [] prev = "Started"  -> IF IsMet(d, SignalingCount(d, n, sig)) THEN "LockedIn"
                            ELSE IF n * d.period < d.timeout THEN prev
                            ELSE IF d.lot THEN "LockedIn" ELSE "Failed"
    [] prev = "LockedIn" -> IF n * d.period >= d.min THEN "Active" ELSE prev
    [] OTHER             -> prev

\* The state at boundary n, from the state and the votes of window n - 1.
NextState(d, prev, n, sig) ==
  CASE prev = "Defined"  -> IF n * d.period >= d.start THEN "Started" ELSE prev
    [] prev = "Started"  -> IF IsMet(d, SignalingCount(d, n - 1, sig)) THEN "LockedIn"
                            ELSE IF n * d.period < d.timeout THEN prev
                            ELSE IF d.lot THEN "LockedIn" ELSE "Failed"
    [] prev = "LockedIn" -> IF n * d.period >= d.min THEN "Active" ELSE prev
    [] OTHER             -> prev

\* The state in force for the block at height h: a walk over its windows.
StateAt(d, h, sig) ==
  LET walk[n \in Nat] == IF n = 0 THEN "Defined" ELSE NextState(d, walk[n - 1], n, sig)
  IN walk[h \div d.period]

\* The boundaries up to the one governing h at which the deployment is Active.
ActiveBoundaries(d, h, sig) ==
  {n \in 1 .. h \div d.period : StateAt(d, n * d.period, sig) = "Active"}

DeploymentActiveAt(d, h, sig) == ActiveBoundaries(d, h, sig) # {}

\* The signatures a block at height h may carry if d is the tx-domain fork.
TxDomainMode(d, h, sig) ==
  IF ~DeploymentActiveAt(d, h, sig) THEN "legacy"
  ELSE IF h < Min(ActiveBoundaries(d, h, sig)) * d.period + Grace THEN "grace" ELSE "bound"

-----------------------------------------------------------------------------
(* What deployment_states reports at height h. *)

CeilWindow(d, h) == ((h + d.period - 1) \div d.period) * d.period

EarliestActivation(d) ==
  Max({Max({CeilWindow(d, d.start), d.period}) + 2 * d.period, CeilWindow(d, d.min)})

\* The first Active boundary below hi, by bisection: Active is terminal.
FirstActive(d, sig, hi) ==
  LET search[r \in Nat \X Nat] ==
        LET mid == r[1] + (r[2] - r[1]) \div 2
        IN IF r[1] >= r[2] THEN r[1]
           ELSE IF StateAt(d, mid * d.period, sig) = "Active" THEN search[<<r[1], mid>>]
           ELSE search[<<mid + 1, r[2]>>]
  IN search[<<0, hi>>] * d.period

\* Mutant: a locked-in deployment is reported for the very next boundary.
ActivationHeightNext(d, h, sig) ==
  LET next == StateAt(d, h + 1, sig)
  IN IF next = "Active" THEN FirstActive(d, sig, (h + 1) \div d.period)
     ELSE IF next = "LockedIn" THEN ((h + 1) \div d.period + 1) * d.period ELSE 0

\* The activation height, once it is known; 0 before.
ActivationHeight(d, h, sig) ==
  LET next == StateAt(d, h + 1, sig)
      candidate == Max({((h + 1) \div d.period + 1) * d.period, CeilWindow(d, d.min)})
  IN IF next = "Active" THEN FirstActive(d, sig, (h + 1) \div d.period)
     ELSE IF next = "LockedIn" /\ StateAt(d, candidate, sig) = "Active" THEN candidate ELSE 0

-----------------------------------------------------------------------------
(* The signal log along a branch. *)

\* The height of the last block two chains share.
ForkHeight(b, c) == Max({n \in 0 .. Min({Len(b), Len(c)}) : SubSeq(b, 1, n) = SubSeq(c, 1, n)})

Record(sig, b, from) ==
  [h \in DOMAIN sig \cup (from + 1 .. Len(b)) |->
     IF h \in from + 1 .. Len(b) THEN Mask[b[h]] ELSE sig[h]]
RemoveAbove(sig, from, to) == Restrict(sig, DOMAIN sig \ (from + 1 .. to))

\* What replaying a chain from genesis records.
Replayed(b) == Record(<<>>, b, 0)

\* Mutant: the active chain's votes above the fork stay.
BranchSignalsFromKept(parent) == Record(signals, parent, ForkHeight(active, parent))

\* The log a block on parent is judged by before it is executed.
BranchSignalsFrom(parent) ==
  LET fork == ForkHeight(active, parent)
  IN Record(RemoveAbove(signals, fork, Len(active)), parent, fork)

\* Disconnect one chain to the fork, connect the other.
Switched(sig, from, to) ==
  LET fork == ForkHeight(from, to)
  IN Record(RemoveAbove(sig, fork, Len(from)), to, fork)

-----------------------------------------------------------------------------
(* Importing a block. *)

Init == index = {} /\ active = <<>> /\ signals = <<>>

New(p, v) == p \in index \cup {<<>>} /\ Append(p, v) \notin index
RoomFor(p) == Len(p) < MaxHeight /\ Cardinality(index) < MaxBlocks

\* Whether the undo ring may cover the blocks above the fork.  It may hold
\* fewer logs than the window (a replay clears it), so that a shallow fork
\* is sometimes replayed as well.
MayBeIncremental(b) == Len(active) - ForkHeight(active, b) <= UndoWindow

ConnectToActive(v) ==
  /\ New(active, v) /\ RoomFor(active)
  /\ active' = Append(active, v) /\ index' = index \cup {active'}
  /\ signals' = Record(signals, active', Len(active))

\* A heavier branch: switched to over the undo logs, or replayed when the
\* fork is older than they reach.
Reorg(p, v) ==
  LET b == Append(p, v)
  IN /\ p # active /\ New(p, v) /\ RoomFor(p)
     /\ active' = b /\ index' = index \cup {b}
     /\ \/ MayBeIncremental(b) /\ signals' = Switched(signals, active, b)
        \/ signals' = Replayed(b)

\* A lighter branch, or one that turns out invalid: executed in place and the
\* old chain connected again, or replayed on the side.
Restored(b) == \/ MayBeIncremental(b) /\ signals' = Switched(Switched(signals, active, b), b, active)
               \/ signals' = signals

StoreSideBlock(p, v) ==
  /\ p # active /\ New(p, v) /\ RoomFor(p)
  /\ index' = index \cup {Append(p, v)} /\ Restored(Append(p, v))
  /\ UNCHANGED active

RefuseBranch(p, v) ==
  /\ p # active /\ New(p, v)
  /\ Restored(Append(p, v)) /\ UNCHANGED <<index, active>>

Next == \/ \E v \in Vote : ConnectToActive(v)
        \/ \E p \in index \cup {<<>>}, v \in Vote :
             Reorg(p, v) \/ StoreSideBlock(p, v) \/ RefuseBranch(p, v)

Spec == Init /\ [][Next]_vars

-----------------------------------------------------------------------------
(* Properties. *)

\* The log has an entry for the heights of the active chain and no other,
\* the store holds a block with all its ancestors, and the head is stored.
TypeOK ==
  /\ \A b \in index : b \in Seq(Vote) /\ Len(b) \in 1..MaxHeight
  /\ \A b \in index : Len(b) > 1 => Front(b) \in index
  /\ active \in index \cup {<<>>}
  /\ DOMAIN signals = 1..Len(active)
  /\ \A h \in DOMAIN signals : signals[h] \subseteq UNION {Mask[v] : v \in Vote}

\* For every stored block, on the active chain or not, the log reconstructed
\* by branch_signals_from is the one a replay of its chain from genesis
\* records; so the gates before execution (branch_tx_domain_mode,
\* branch_shielded_v2_active, block_size_limit) and the execution on any of
\* its paths judge a block by the same rules, those its own branch voted in.
BranchSignalsExact ==
  /\ TypeOK
  /\ \A p \in index \cup {<<>>} : BranchSignalsFrom(p) = Replayed(p)

\* What is in force for a block was settled by its ancestors and no later
\* block changes it: as the chain grows, state_at for a height stays what it
\* was when the block at that height was built; an active rule stays active,
\* and signatures go from legacy through grace to bound, never back.
RulesSettled ==
  \A d \in Deployments, h \in 1..Len(active) :
    LET seen == Replayed(SubSeq(active, 1, h - 1))
        rank(m) == CASE m = "legacy" -> 0 [] m = "grace" -> 1 [] m = "bound" -> 2
    IN /\ StateAt(d, h, signals) = StateAt(d, h, seen)
       /\ DeploymentActiveAt(d, h, signals) = (StateAt(d, h, seen) = "Active")
       /\ DeploymentActiveAt(d, h, seen) => DeploymentActiveAt(d, h + 1, signals)
       /\ rank(TxDomainMode(d, h, seen)) <= rank(TxDomainMode(d, h + 1, signals))

\* When a deployment of the kind that must activate does so at the latest.
LatestActivation(d) ==
  Max({Max({CeilWindow(d, d.timeout), Max({CeilWindow(d, d.start), d.period}) + d.period}) + d.period,
       CeilWindow(d, d.min)})

\* What deployment_states announced at any height of the chain comes true:
\* the rule is in force from the announced height and not one block earlier,
\* never before the earliest height reported, and nothing is in force that
\* was not announced.  With lockinontimeout it is in force at the latest one
\* window after the timeout, whatever the miners vote.
ForecastExact ==
  \A d \in Deployments, h \in 0..Len(active) :
    LET told == ActivationHeight(d, h, Replayed(SubSeq(active, 1, h)))
        inForce(k) == StateAt(d, k, signals) = "Active"
    IN /\ told # 0 => /\ told >= EarliestActivation(d)
                      /\ \A k \in 1 .. Len(active) + 1 : inForce(k) <=> k >= told
       /\ inForce(h + 1) => told # 0
       /\ d.lot /\ h + 1 >= LatestActivation(d) => inForce(h + 1)
=============================================================================
