----------------------------- MODULE MCMempool ------------------------------
(***************************************************************************)
(* Instances of Mempool.  Two signers; a run of three nonces with a        *)
(* replacement for the first, one legacy signature, one heavy transaction  *)
(* and one note two transactions spend.                                    *)
(***************************************************************************)
EXTENDS Mempool

CONSTANT N1

MCTx(s, n, tip, out, w, note, bound) ==
    [signer |-> s, nonce |-> n, tip |-> tip, outflow |-> out, weight |-> w,
     note |-> note, bound |-> bound]

a0 == MCTx(1, 0, 0, 1, 1, None, TRUE)
a0rbf == MCTx(1, 0, 1, 2, 2, None, TRUE)
a1 == MCTx(1, 1, 0, 1, 1, N1, TRUE)
a2 == MCTx(1, 2, 0, 1, 1, None, TRUE)
b0 == MCTx(2, 0, 2, 2, 3, N1, FALSE)

MCMixed == {a0, a0rbf, a1, a2, b0}
MCRun == {a0, a1, a2}

MCTwoBalances == {<<1, 2>>, <<3, 2>>}
MCRich == {<<9>>}
=============================================================================
