------------------------------- MODULE MCSync -------------------------------
(***************************************************************************)
(* The instance of SyncWorker.  The network's chain is 1 - 2 - 3, block 4  *)
(* is a fork of our own at height 1, and 1 - 5 - 6 is a rival chain        *)
(* whose block 5 is not valid.  Peer a is prompt, b announces the          *)
(* network's chain but serves no block, d serves the invalid one.  Block 3 *)
(* is the checkpoint where there is one.                                   *)
(***************************************************************************)
EXTENDS SyncWorker

MCBlocks == 1 .. 6
MCPrev == [b \in MCBlocks |-> CASE b = 4 -> 0 [] b = 5 -> 1 [] OTHER -> b - 1]
MCChain[b \in MCBlocks \cup {0}] == IF b = 0 THEN <<>> ELSE Append(MCChain[MCPrev[b]], b)
MCTip == [p \in Peers |-> IF p = "d" THEN 6 ELSE 3]

Quiet == told = Peers /\ faults = MaxFaults

\* On a fork, proving the linkage to the checkpoint, with gossip or a fault
ForkedPinned ==
    /\ head = 4 /\ seeds = {"a"} /\ legacy = {} /\ cp.pins # {}
    /\ (told = {} /\ faults = MaxFaults) \/ (told = Peers /\ faults = 0)

\* On a fork, with a peer that only serves single blocks
ForkedLegacy ==
    /\ head = 4 /\ seeds = {"a"} /\ legacy = {"a"} /\ cp.pins = {}
    /\ told = {} /\ faults = 0

\* Behind, with a second peer that announces what it does not serve ..
Withheld == head = 2 /\ seeds = {"a", "b"} /\ legacy = {} /\ cp.pins = {} /\ Quiet

\* .. or that serves a chain with an invalid block
Misled == head = 1 /\ seeds = {"a", "d"} /\ legacy = {} /\ cp.pins = {} /\ Quiet

\* On a fork, offered that chain for the linkage proof
ForkedMisled == head = 4 /\ seeds = {"d"} /\ legacy = {} /\ cp.pins # {} /\ Quiet

MCInit == Init /\ (ForkedPinned \/ ForkedMisled \/ ForkedLegacy \/ Withheld \/ Misled)

MCSpec == MCInit /\ [][Next]_vars /\ Fairness

=============================================================================
