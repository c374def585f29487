----------------------------- MODULE MCExecution -----------------------------
(* A small economy for TLC.  A behaviour draws its transactions from one
   menu, so that the interactions inside a subsystem are explored without
   multiplying them with those of all the others. *)
EXTENDS Execution, TLC

CONSTANTS alice, bob, carol, dave, treasury, miner, oracle, xusd, shop,   \* accounts
          ka, kb, kc, kd, kt, ko                                          \* keys

MCAccount == {alice, bob, carol, dave, treasury, miner, oracle, xusd, shop}
MCKey == {ka, kb, kc, kd, kt, ko}
MCHybrid == MCKey \ {kd}
MCImplicitOf == ka :> alice @@ kb :> bob @@ kc :> carol @@ kd :> dave @@ kt :> treasury
MCNames == {shop}

Holding(n) == [NoAccount EXCEPT !.bal = n]
MCGenesis ==
  alice :> Holding(20) @@ bob :> Holding(14) @@ treasury :> Holding(20) @@ dave :> Holding(40)
    @@ carol :> [NoAccount EXCEPT !.bal = 9, !.locked = 3, !.unlock = 2]
    @@ oracle :> [NoAccount EXCEPT !.bal = 9, !.key = ko]

MCActiveFrom == [f \in {"fee-auction", "shielded-v2", "tx-timestamp", "suite-2"} |->
                   CASE f = "fee-auction" -> 1 [] f = "shielded-v2" -> 1
                     [] f = "tx-timestamp" -> 2 [] f = "suite-2" -> 2]

Send(a, k, act) == [signer |-> a, key |-> k, act |-> act, signed |-> TRUE]
Alice(act) == Send(alice, ka, act)
Bob(act) == Send(bob, kb, act)
Carol(act) == Send(carol, kc, act)
Dave(act) == Send(dave, kd, act)

Transfer(to, n) == [kind |-> "transfer", to |-> to, amount |-> n]
Tipped(n, a) == [kind |-> "tipped", tip |-> n, inner |-> a]
Stamped(t, a) == [kind |-> "timestamped", at |-> t, inner |-> a]

Gold == <<alice, "GLD">>
Issue(n) == [kind |-> "tokenIssue", symbol |-> "GLD", amount |-> n, to |-> alice]
TokenTo(to, n) == [kind |-> "tokenTransfer", asset |-> Gold, to |-> to, amount |-> n]
Policy(frozen, control, limit) == [frozen |-> frozen, control |-> control, limit |-> limit]
AnyOne == [kind |-> "any"]
SetPolicy(p) == [kind |-> "tokenSetPolicy", asset |-> Gold, policy |-> p]

Payments ==
  {Alice(Transfer(bob, 3)), Bob(Transfer(shop, 2)), Carol([kind |-> "claimVesting"]),
   Carol([kind |-> "registerName", name |-> shop]),
   Carol([kind |-> "nftSetMeta", class |-> Sns, id |-> shop, meta |-> bob]),
   Carol([kind |-> "transferName", name |-> shop, to |-> alice])}

Assets ==
  {Alice(Issue(3)), Alice(TokenTo(bob, 2)), Bob(TokenTo(carol, 1)),
   Bob([kind |-> "tokenBurn", asset |-> Gold, amount |-> 1]),
   Alice(SetPolicy(Policy(FALSE, [kind |-> "deny", list |-> {carol}], [max |-> 2, blocks |-> 2]))),
   Alice(SetPolicy(Policy(TRUE, AnyOne, NoLimit)))}

Escrows ==
  {Alice([kind |-> "htlcLock", to |-> bob, amount |-> 4, lock |-> 1, timeout |-> 3]),
   Bob([kind |-> "htlcClaim", id |-> <<alice, 0>>, preimage |-> 1]),
   Bob([kind |-> "htlcClaim", id |-> <<alice, 1>>, preimage |-> 2]),
   Alice([kind |-> "htlcRefund", id |-> <<alice, 0>>]),
   Alice(Tipped(2, Transfer(bob, 1)))}

Vaults ==
  {Bob([kind |-> "vaultDeposit", amount |-> 3]), Bob([kind |-> "vaultMint", amount |-> 2]),
   Bob([kind |-> "vaultWithdraw", amount |-> 2]), Bob([kind |-> "vaultBurn", amount |-> 1]),
   Bob([kind |-> "tokenBurn", asset |-> XUSD, amount |-> 1]),
   Send(oracle, ko, [kind |-> "oracleUpdate", price |-> 2])}

V1(vb, nfs, outs, anchor) == [kind |-> "shielded", vb |-> vb, nullifiers |-> nfs, outs |-> outs,
                              anchor |-> anchor, valid |-> TRUE]
V2(suite, in, out, nfs, outs, anchor) ==
  [kind |-> "shieldedV2", suite |-> suite, in |-> in, out |-> out, nullifiers |-> nfs,
   outs |-> outs, anchor |-> anchor, valid |-> TRUE]
Pools ==
  {Alice(V1(-4, <<>>, 1, 0)), Alice(V1(3, <<1>>, 1, 1)), Bob(V1(2, <<2>>, 0, 1)),
   Alice(V2(1, 3, 0, <<>>, 1, 0)), Alice(V2(2, 4, 0, <<>>, 1, 0)), Bob(V2(2, 0, 3, <<1>>, 1, 1)),
   Carol(V2(2, 0, 4, <<2>>, 0, 1)), Carol(Transfer(alice, 6))}

Pay3 == Transfer(carol, 3)
Approval(i, k, n) == [position |-> i, key |-> k, nonce |-> n]
Treasury(k, act) == Send(treasury, k, act)
NewPolicy(s, m) == [kind |-> "setMultisig", signers |-> s, threshold |-> m]
Exec(inner, approvals) == [kind |-> "exec", inner |-> inner, approvals |-> approvals]
TheProposal == <<treasury, ka, 0, Pay3>>
Boards ==
  {Treasury(kt, NewPolicy(<<ka, kb>>, 2)),
   Alice([kind |-> "propose", account |-> treasury, inner |-> Pay3]),
   Bob([kind |-> "approve", account |-> treasury, proposal |-> TheProposal]),
   Carol([kind |-> "approve", account |-> treasury, proposal |-> TheProposal]),
   Bob([kind |-> "cancel", account |-> treasury, proposal |-> TheProposal]),
   Treasury(ka, Exec(NewPolicy(<<kc, kb>>, 2), {Approval(1, ka, 1), Approval(2, kb, 1)})),
   Treasury(kb, Exec(Transfer(carol, 2), {Approval(2, kb, 1), Approval(2, kb, 2), Approval(1, ka, 2)}))}

\* A member of the board is the one the proposal pays.
PaidMember ==
  {Treasury(kt, NewPolicy(<<ka, kb>>, 2)),
   Alice([kind |-> "propose", account |-> treasury, inner |-> Transfer(bob, 3)]),
   Bob([kind |-> "approve", account |-> treasury, proposal |-> <<treasury, ka, 0, Transfer(bob, 3)>>])}

\* A proposal the treasury cannot pay.
Overdrawn ==
  {Treasury(kt, NewPolicy(<<ka, kb>>, 2)),
   Alice([kind |-> "propose", account |-> treasury, inner |-> Transfer(carol, 30)]),
   Bob([kind |-> "approve", account |-> treasury, proposal |-> <<treasury, ka, 0, Transfer(carol, 30)>>]),
   Carol(Transfer(treasury, 2))}

Offer == [owner |-> alice, key |-> ka, give |-> Gold, amount |-> 2, want |-> Sov, min |-> 3, expiry |-> 2]
Fill(n) == [kind |-> "intentSettle", intent |-> Offer, solver |-> bob, deliver |-> n, signed |-> TRUE]
Intents ==
  {Alice(Issue(3)), Bob(Fill(4)), Bob(Fill(2)), Alice([kind |-> "intentCancel", intent |-> Offer]),
   Alice([kind |-> "rotateKey", key |-> kc, proof |-> TRUE]),
   Alice(SetPolicy(Policy(FALSE, [kind |-> "allow", list |-> {alice, bob}], NoLimit)))}

Run(gas, cmds, writes) == [gas |-> gas, cmds |-> cmds, writes |-> writes]
CallAlice(run) == [kind |-> "call", contract |-> alice, len |-> 1, run |-> run]
Cmd(to, n) == [asset |-> Gold, to |-> to, amount |-> n]
Contracts ==
  {Alice([kind |-> "deploy", len |-> 1, code |-> 1]), Alice(Issue(2)),
   Bob(CallAlice(Run(2, <<Cmd(bob, 1), Cmd(alice, 1)>>, 1 :> 7))),
   Bob(CallAlice(Run(1, <<Cmd(bob, 1), Cmd(carol, 2)>>, 2 :> 8))),
   Carol([kind |-> "nftMint", symbol |-> "ART", id |-> 1, to |-> bob, meta |-> Absent]),
   Bob([kind |-> "nftTransfer", class |-> <<carol, "ART">>, id |-> 1, to |-> alice])}

\* Old keys, envelopes, and transactions that must be rejected.
Envelopes ==
  {Dave(Transfer(bob, 1)), Dave([kind |-> "rotateKey", key |-> kt, proof |-> TRUE]),
   Send(dave, kt, Stamped(1, Transfer(bob, 1))), Alice(Stamped(3, Tipped(1, Transfer(bob, 2)))),
   Alice(Tipped(1, Stamped(2, Transfer(bob, 2)))), Bob(Exec(Transfer(alice, 1), {})),
   Bob(Tipped(30, Transfer(alice, 1)))}

MCMenus == {Payments, Assets, Escrows, Vaults, Pools, Boards, Intents, Contracts, Envelopes,
            PaidMember, Overdrawn}
MCPayoutMenus == {PaidMember}
MCAction == UNION {Nodes(t.act) : t \in UNION MCMenus}
=============================================================================
