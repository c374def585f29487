--------------------------- MODULE MCBlockchain ---------------------------
(***************************************************************************)
(* Small instances of Blockchain.  Hashes are 0..N with 0 the genesis.     *)
(* One transaction is enough for a double commit, a wrong state root and a *)
(* dropped transaction; the version bit is set by the blocks without it,   *)
(* so that signals are told apart without more blocks.                     *)
(***************************************************************************)
EXTENDS Blockchain

CONSTANTS N, Weights, t1

MCHash == 0..N
MCTx == {t1}
MCBits == {0, 1}

(* A block that fails a header check is never executed, so its body does   *)
(* not matter.                                                             *)
MCOffered ==
    {b \in Block : /\ b.hash # 0 /\ b.prev # b.hash
                   /\ b.work \in Weights
                   /\ b.bits = (IF b.txs = {} THEN 1 ELSE 0)
                   /\ b.header \/ (b.txs = {} /\ b.root = {} /\ b.prev = 0)}

MCOfferedEmpty ==
    {b \in MCOffered : b.txs = {} /\ b.root = {}}
===========================================================================
