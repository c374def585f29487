---------------------------- MODULE MCProducer ----------------------------
(***************************************************************************)
(* Remote blocks 1-2 and the side branch 3-4 from 1; 5 is a first block    *)
(* that alone outweighs them.  6..11 are what this node would mine on      *)
(* genesis and on each of them, 12..15 on those of its own blocks that a   *)
(* remote block of the same height can displace; its block on 3 is one its *)
(* own import refuses.                                                     *)
(***************************************************************************)
EXTENDS Producer

MCBlocks == 1 .. 15
MCPrev == [b \in MCBlocks |->
    CASE b \in {1, 5, 6} -> 0
      [] b \in {2, 3, 7} -> 1
      [] b = 8 -> 2
      [] b \in {4, 9} -> 3
      [] b = 10 -> 4
      [] b = 11 -> 5
      [] b >= 12 -> b - 6]
MCChain[b \in MCBlocks \cup {0}] == IF b = 0 THEN <<>> ELSE Append(MCChain[MCPrev[b]], b)
MCWork[b \in MCBlocks \cup {0}] ==
    IF b = 0 THEN 0 ELSE MCWork[MCPrev[b]] + (CASE b = 4 -> 2 [] b = 5 -> 5 [] OTHER -> 1)
MCOwn == 6 .. 15
MCPinSets == {{}, {1}, {2}}
MCNoPins == {{}}
MCFaults == {{}, {"peer"}, {"mined"}}

(* A run meets a restart, or a change of the claim or of the switch, or a  *)
(* failing disk.  One that restarts has a peer, and one whose disk fails is *)
(* on the chain without pins.                                              *)
Scenarios ==
    /\ Cardinality({i \in 1 .. 2 : <<turns, restarts>>[i] = 0}) + Cardinality(faults) = 1
    /\ restarts = 0 => claim = 2
    /\ faults # {} => claim = 2 /\ baked = {}

MCInit == Init /\ Scenarios

MCSpec == MCInit /\ [][Next]_vars /\ Fairness
============================================================================
