------------------------------ MODULE Execution ------------------------------
(***************************************************************************)
(* The state transition (crates/runtime: execution.rs, gas.rs,             *)
(* shielded_v2.rs): a block is opened with its coinbase, transactions are  *)
(* applied one by one with a journal of pre-images, and the outcome is     *)
(* checked against the ledger's invariants (crates/verify: invariants.rs). *)
(* A refused block is rolled back, and a connected one can be disconnected *)
(* again.                                                                  *)
(***************************************************************************)
EXTENDS Payments

CONSTANTS
  Hybrid,              \* the keys with a post-quantum half
  Names,               \* accounts whose identifier is a registrable *.sov name
  Genesis,             \* account -> its genesis state
  Menus,               \* the sets of transactions a behaviour draws from
  Miner,               \* the account every block pays
  OracleAccount,
  BaseReward, HalvingInterval, MiningBudget, MaxSupply, GasPrice, NameFee,
  MaxCode, MaxSigners,
  PriceScale, SeedPrice, MinRatioPct, MaxOracleMove,
  DrainBlocks, DrainLimit, MaxV2Notes,
  ActiveFrom,          \* feature -> the height it activates at
  PqRotation, PqSunset, PqThreshold,
  MaxAge, Tolerance,   \* bounds on a declared creation time
  MaxHeight, MaxBlockTxs, MaxNonce,  \* bounds of the model
  MaxNesting           \* carriers around an action: decoding bounds them, the walk stops there

ASSUME ExecutionAssumption ==
  /\ {BaseReward, MiningBudget, GasPrice, NameFee, MaxHeight, MaxBlockTxs, MaxNonce, MaxNesting} \subseteq Nat
  /\ HalvingInterval \in Nat \ {0} /\ PriceScale \in Nat \ {0} /\ MinRatioPct \in Nat \ {0}
  /\ Hybrid \subseteq Key /\ Names \subseteq Account /\ Miner \in Account
  /\ DOMAIN Genesis \subseteq Account /\ IsFiniteSet(DOMAIN Genesis)
  /\ Genesis = [a \in DOMAIN Genesis |-> Genesis[a]]
  /\ \A a \in DOMAIN Genesis : Genesis[a] \in AccountRecord /\ Genesis[a] # NoAccount
  /\ MaxNesting >= 2

\* The mark of a missing entry is no lock that an action places.
ASSUME AbsentAssumption ==
  \A a \in Action : a.kind = "htlcLock" =>
    Absent \notin [locker : Account, to : Account, amount : Nat, lock : {a.lock}, timeout : {a.timeout}]

\* The kinds of action; four carry one inner action.
Carriers == {"exec", "propose", "tipped", "timestamped"}
Kinds == Carriers \cup
  {"transfer", "claimVesting", "deploy", "call", "rotateKey", "setMultisig", "approve", "cancel",
   "shielded", "shieldedV2", "htlcLock", "htlcClaim", "htlcRefund",
   "tokenIssue", "tokenTransfer", "tokenBurn", "tokenSetPolicy", "intentSettle", "intentCancel",
   "registerName", "transferName", "nftMint", "nftTransfer", "nftSetMeta",
   "vaultDeposit", "vaultWithdraw", "vaultMint", "vaultBurn", "oracleUpdate"}

\* What decoding guarantees of an action: amounts are unsigned, accounts are
\* accounts, lists are finite.
ASSUME ActionAssumption ==
  /\ \A m \in Menus : \A t \in m : t.signer \in Account /\ t.key \in Key /\ t.act \in Action
  /\ \A a \in Action :
       /\ a.kind \in Kinds /\ (a.kind \in Carriers => a.inner \in Action)
       /\ a.kind \in {"transfer", "htlcLock", "tokenIssue", "tokenTransfer", "tokenBurn",
                     "vaultDeposit", "vaultWithdraw", "vaultMint", "vaultBurn"} => a.amount \in Nat
       /\ a.kind \in {"transfer", "htlcLock", "tokenIssue", "tokenTransfer", "transferName",
                     "nftMint", "nftTransfer"} => a.to \in Account
       /\ a.kind \in {"propose", "approve", "cancel"} => a.account \in Account
       /\ a.kind = "tipped" => a.tip \in Nat
       /\ a.kind = "exec" => IsFiniteSet(a.approvals)
       /\ a.kind = "rotateKey" => a.key \in Key
       /\ a.kind = "deploy" => a.code \in Code
       /\ a.kind \in {"nftMint", "nftSetMeta"} => a.meta \in Account \cup {Absent}
       /\ a.kind = "shielded" => a.vb \in Int
       /\ a.kind = "shieldedV2" => a.in \in Nat /\ a.out \in Nat
       /\ a.kind = "intentSettle" => a.intent.owner \in Account /\ {a.intent.amount, a.deliver} \subseteq Nat
       /\ a.kind = "call" /\ a.run # Absent =>
            /\ a.run.gas \in Nat /\ IsFiniteSet(DOMAIN a.run.writes)
            /\ a.run.cmds \in Seq(Range(a.run.cmds))
            /\ \A c \in Range(a.run.cmds) : c.amount \in Nat /\ c.to \in Account

VARIABLES led,      \* the ledger
          undo,     \* the journal of the block being connected
          open,     \* whether a block is being connected
          height,   \* the height of that block, else of the head
          size,     \* transactions applied in it
          past,     \* per connected block: its journal and what it was built on
          menu,     \* the transactions this behaviour draws from
          before,   \* what the block in progress was begun on; the program keeps
                    \* its supply and asset counters (TransitionPre)
          \* Observed by the properties, never read by the program:
          cast,     \* <<proposal, key>>: which keys have voted for a proposal
          last      \* the transaction of the last step and its outcome

vars == <<led, undo, open, height, size, past, menu, before, cast, last>>

Active(feature, h) == h >= ActiveFrom[feature]

-----------------------------------------------------------------------------
(* The action tree, which is a chain. *)

\* The action after n steps of the walk down the chain, which stays at the leaf.
Layers(a) ==
  LET at[n \in 0..MaxNesting] ==
        IF n = 0 THEN a ELSE IF at[n - 1].kind \in Carriers THEN at[n - 1].inner ELSE at[n - 1]
  IN at
Nodes(a) == Range(Layers(a))
Leaf(a) == Layers(a)[MaxNesting]

\* Intrinsic gas in units: one per action, one more per carrier, per
\* approval and per hybrid envelope.  A carrier nested in its own kind is
\* priced as a leaf.
GasFor(a) ==
  LET at == Layers(a)
      approvals(n) == IF at[n].kind = "exec" THEN Cardinality(at[n].approvals) ELSE 0
      \* what the layers from the one k steps above the last on cost
      gas[k \in 0..MaxNesting] ==
        LET n == MaxNesting - k
        IN IF k = 0 \/ at[n].kind \notin {"exec", "tipped", "timestamped"} THEN 1
           ELSE 1 + approvals(n) + (IF at[n + 1].kind = at[n].kind THEN 1 ELSE gas[k - 1])
  IN gas[MaxNesting]
IntrinsicFee(tx) == (GasFor(tx.act) + (IF tx.key \in Hybrid THEN 1 ELSE 0)) * GasPrice

Dormant(a, h) ==
  \E n \in Nodes(a) : \/ n.kind = "tipped" /\ ~Active("fee-auction", h)
                      \/ n.kind = "shieldedV2" /\ ~Active("shielded-v2", h)
                      \/ n.kind = "timestamped" /\ ~Active("tx-timestamp", h)

NestedTimestamp(a) ==
  a.kind \in Carriers /\ \E n \in Nodes(a.inner) : n.kind = "timestamped"

\* The declared time against the block's own, which is its height here.
Timely(a, h) ==
  a.kind = "timestamped" => /\ a.inner.kind \notin {"exec", "rotateKey"}
                            /\ a.at <= h + Tolerance
                            /\ a.at >= h - MaxAge

Unstamped(a) == IF a.kind = "timestamped" THEN a.inner ELSE a

OversizedData(a) == a.kind \in {"deploy", "call"} /\ MaxCode # 0 /\ a.len > MaxCode

-----------------------------------------------------------------------------
(* Authorization. *)

\* The signer's account as the transaction starts with it, its key bound on
\* first use; Absent when the key may not act for it.
SignerCopy(st, tx) ==
  LET policy == MultisigOf(st, tx.signer)
      acct == AccountOf(st, tx.signer)
      claims == IF IsImplicit(tx.signer) THEN Get(ImplicitOf, tx.key) = tx.signer
                                         ELSE tx.act.kind = "rotateKey"
  IN IF policy # Absent
     THEN IF tx.key \in Range(policy.signers) /\ tx.act.kind = "exec" THEN acct ELSE Absent
     ELSE IF acct.key = tx.key THEN acct
     ELSE IF acct.key = Absent /\ claims THEN [acct EXCEPT !.key = tx.key]
     ELSE Absent

NeedsHybrid(acct, h) == \/ h >= PqSunset
                        \/ h >= PqRotation /\ Total(acct) >= PqThreshold

\* A multisig policy of hybrid keys only may be installed by the old keys
\* until the sunset.
Migrates(a, h) == /\ h < PqSunset
                  /\ a.kind = "setMultisig"
                  /\ a.signers # <<>> /\ Range(a.signers) \subseteq Hybrid

PqRefuses(tx, acct, h) ==
  /\ tx.key \notin Hybrid
  /\ \/ h >= PqSunset
     \/ /\ NeedsHybrid(acct, h)
        /\ ~(tx.act.kind = "rotateKey" /\ tx.act.key \in Hybrid)
        /\ ~(tx.act.kind = "exec" /\ Migrates(tx.act.inner, h))

\* From the rotation height on the old pools close: no deposits into v1, no
\* v1 at all after the sunset, and only proof suite 2 in v2.
PoolRetired(a, h) ==
  LET leaf == Leaf(a)
  IN /\ h >= PqRotation \/ h >= PqSunset
     /\ \/ leaf.kind = "shieldedV2" /\ ~(Active("suite-2", h) /\ leaf.suite = 2)
        \/ leaf.kind = "shielded" /\ (h >= PqSunset \/ leaf.vb < 0)

-----------------------------------------------------------------------------
(* The signer's own account. *)

ClaimVesting(x, h) ==
  Checked(x.s.locked # 0 /\ h >= x.s.unlock, x,
          [Earn(x, x.s.locked) EXCEPT !.s.locked = 0, !.s.unlock = 0])

Deploy(x, a) == Checked(a.len > 0, x, [x EXCEPT !.s.code = a.code])

-----------------------------------------------------------------------------
(* Contracts.  What the VM returns (external: crates/vm) is part of the
   action: Absent for a trap, else the gas it used, the token transfers it
   queued and the storage it wrote. *)

WriteStorage(st, contract, writes) ==
  PutAll(st, "storage", [key \in {<<contract, k>> : k \in DOMAIN writes} |-> writes[key[2]]])

\* Mutant: the storage is committed before the transfers are checked.
CallWritesFirst(x, a, h) ==
  IF AccountOf(x.st, a.contract).code = Absent \/ a.run = Absent THEN Failed(x)
  ELSE LET fee == a.run.gas * GasPrice
           written == [Pay(x, fee) EXCEPT !.fee = @ + fee,
                                          !.st = WriteStorage(@, a.contract, a.run.writes)]
           settled == SettleContractTransfers(written.st, a.contract, a.run.cmds, h)
       IN Checked(x.s.bal >= fee, x,
                  Checked(settled # Absent, written, [written EXCEPT !.st = settled]))


Call(x, a, h) ==
  IF AccountOf(x.st, a.contract).code = Absent \/ a.run = Absent THEN Failed(x)
  ELSE LET fee == a.run.gas * GasPrice
           charged == [Pay(x, fee) EXCEPT !.fee = @ + fee]
           settled == SettleContractTransfers(x.st, a.contract, a.run.cmds, h)
       IN Checked(x.s.bal >= fee, x,
                  Checked(settled # Absent, charged,
                          [charged EXCEPT !.st = WriteStorage(settled, a.contract, a.run.writes)]))

-----------------------------------------------------------------------------
(* Shielded pools.  "valid" stands for what the proof system decides. *)

DrainAllows(w, n, h) == DrainBlocks # 0 => WindowAt(w, h, DrainBlocks).spent + n <= DrainLimit
Drain(st, window, n, h) ==
  IF n = 0 \/ DrainBlocks = 0 THEN st
  ELSE PutCell(st, window, [WindowAt(Cell(st, window), h, DrainBlocks) EXCEPT !.spent = @ + n])

Fresh(st, pool, nullifiers) ==
  IsInjective(nullifiers) /\ Range(nullifiers) \cap Cell(st, pool).spent = {}

\* vb < 0 shields, vb > 0 de-shields.
Shielded(x, a, h) ==
  LET in == IF a.vb < 0 THEN -a.vb ELSE 0
      out == IF a.vb > 0 THEN a.vb ELSE 0
  IN Checked(/\ a.valid /\ AnchorKnown1(x.st, a.anchor)
             /\ out > 0 => DrainAllows(Cell(x.st, "drain1"), out, h)
             /\ in <= x.s.bal /\ out <= Cell(x.st, "value1")
             /\ Fresh(x.st, "pool1", a.nullifiers), x,
             LET applied == ApplyNotes(x.st, "pool1", Range(a.nullifiers), a.outs)
                 moved == IF a.vb = 0 THEN applied
                          ELSE PutCell(applied, "value1", Cell(applied, "value1") - a.vb)
             IN [Earn(x, a.vb) EXCEPT !.st = Drain(moved, "drain1", out, h)])

V2Acceptable(st, a, balance, h) ==
  /\ a.suite = IF Active("suite-2", h) THEN 2 ELSE 1
  /\ a.valid /\ (a.nullifiers # <<>> \/ a.outs > 0)
  /\ a.nullifiers # <<>> => AnchorKnown2(st, a.anchor)
  /\ Fresh(st, "pool2", a.nullifiers)
  /\ Cell(st, "pool2").notes + a.outs <= MaxV2Notes
  /\ a.in <= balance
  /\ a.out <= Cell(st, "value2") + a.in
  /\ a.out > 0 => DrainAllows(Cell(st, "drain2"), a.out, h)

\* A direct withdrawal may pay the fee out of what it withdraws.
FeeFunded(st, tx, balance, fee, h) ==
  /\ balance < fee
  /\ tx.act.kind = "shieldedV2" /\ tx.act.suite = 2
  /\ Active("shielded-v2", h) /\ Active("suite-2", h)
  /\ V2Acceptable(st, tx.act, balance, h)
  /\ tx.act.in = 0 /\ tx.act.out # 0
  /\ balance + tx.act.out >= fee

\* deferred: the fee still to be taken from the payout.
ShieldedV2(x, a, deferred, h) ==
  LET applied == ApplyNotes(x.st, "pool2", Range(a.nullifiers), a.outs)
      shielded == IF a.in = 0 THEN applied ELSE PutCell(applied, "value2", Cell(applied, "value2") + a.in)
      paid == IF a.out = 0 THEN shielded ELSE PutCell(shielded, "value2", Cell(shielded, "value2") - a.out)
  IN IF ~V2Acceptable(x.st, a, x.s.bal, h) THEN Reject(x)
     ELSE [Earn(x, a.out - a.in - deferred) EXCEPT !.st = Drain(paid, "drain2", a.out, h)]

-----------------------------------------------------------------------------
(* Hash-time-locked escrow.  The lock is named by its transaction, that is
   by signer and nonce; a preimage matches a lock when they are equal here. *)

HtlcLock(x, tx, a) ==
  LET id == <<tx.signer, tx.nonce>>
      htlc == [locker |-> tx.signer, to |-> a.to, amount |-> a.amount, lock |-> a.lock, timeout |-> a.timeout]
  IN Checked(x.s.bal >= a.amount /\ id \notin DOMAIN x.st.led.htlcs, x,
             [Pay(x, a.amount) EXCEPT !.st = LockHtlc(@, id, htlc)])

Settle(x, id) == [Earn(x, x.st.led.htlcs[id].amount) EXCEPT !.st = SettleHtlc(@, id)]

HtlcClaim(x, tx, a, h) ==
  LET htlc == x.st.led.htlcs[a.id]
  IN Checked(/\ a.id \in DOMAIN x.st.led.htlcs
             /\ tx.signer = htlc.to /\ h < htlc.timeout /\ a.preimage = htlc.lock, x,
             Settle(x, a.id))

HtlcRefund(x, tx, a, h) ==
  LET htlc == x.st.led.htlcs[a.id]
  IN Checked(/\ a.id \in DOMAIN x.st.led.htlcs
             /\ tx.signer = htlc.locker /\ h >= htlc.timeout, x,
             Settle(x, a.id))

-----------------------------------------------------------------------------
(* Intents: an owner's signed offer, filled by the solver who sends the
   transaction.  The intent is its own identifier. *)

\* One leg: whether from can part with the amount of the asset, and the
\* movement.  The solver's native funds are the copy x.s.
LegAllowed(x, asset, from, to, amount, funds, h) ==
  IF asset = Sov THEN funds >= amount
  ELSE /\ Token(x.st, asset) # Absent
       /\ OutgoingAllowed(x.st, asset, from, to, amount, h)
       /\ TokenBalance(x.st, asset, from) >= amount
       /\ Fits(TokenBalance(x.st, asset, to) + amount)

TokenLeg(st, asset, from, to, amount, h) ==
  IF asset = Sov THEN st
  ELSE Meter(MoveToken(st, asset, from, to, amount), asset, from, amount, h)

SettleLegs(x, tx, a, h) ==
  LET i == a.intent
      native == (IF i.give = Sov THEN i.amount ELSE 0) - (IF i.want = Sov THEN a.deliver ELSE 0)
      owner == AccountOf(x.st, i.owner)
      st1 == SetAccount(x.st, i.owner, [owner EXCEPT !.bal = @ - native])
      st2 == TokenLeg(st1, i.give, i.owner, tx.signer, i.amount, h)
  IN [Earn(x, native) EXCEPT !.st = Put(TokenLeg(st2, i.want, tx.signer, i.owner, a.deliver, h),
                                        "intents", i, TRUE)]

IntentSettle(x, tx, a, h) ==
  LET i == a.intent
      owner == AccountOf(x.st, i.owner)
  IN Checked(/\ a.solver = tx.signer /\ i.owner # tx.signer
             /\ MultisigOf(x.st, i.owner) = Absent
             /\ owner.key = i.key
             /\ NeedsHybrid(owner, h) => i.key \in Hybrid
             /\ a.signed /\ h <= i.expiry
             /\ i \notin DOMAIN x.st.led.intents
             /\ i.give # i.want /\ a.deliver >= i.min
             /\ LegAllowed(x, i.give, i.owner, tx.signer, i.amount, owner.bal, h)
             /\ LegAllowed(x, i.want, tx.signer, i.owner, a.deliver, x.s.bal, h), x,
             SettleLegs(x, tx, a, h))

IntentCancel(x, tx, a) ==
  Checked(a.intent.owner = tx.signer /\ a.intent \notin DOMAIN x.st.led.intents, x,
          [x EXCEPT !.st = Put(@, "intents", a.intent, TRUE)])

-----------------------------------------------------------------------------
(* Keys, names and collections. *)

RotateKey(x, a, hybridOnly) ==
  Checked(a.proof /\ (hybridOnly => a.key \in Hybrid), x, [x EXCEPT !.s.key = a.key])

RegisterName(x, tx, a) ==
  Checked(/\ a.name \in Names
          /\ Get(x.st.led.nfts, <<Sns, a.name>>) = Absent /\ ~Exists(x.st, a.name)
          /\ x.s.bal >= NameFee, x,
          [Pay(x, NameFee) EXCEPT !.fee = @ + NameFee,
                                  !.st = MintNft(@, Sns, a.name, tx.signer, Absent)])

TransferName(x, tx, a) ==
  Checked(NftOwner(x.st, Sns, a.name) = tx.signer, x,
          [x EXCEPT !.st = TransferNft(@, Sns, a.name, a.to)])

NftMint(x, tx, a) ==
  LET class == <<tx.signer, a.symbol>>
  IN Checked(a.symbol # "" /\ NftOwner(x.st, class, a.id) = Absent, x,
             [x EXCEPT !.st = Put(MintNft(@, class, a.id, a.to, a.meta), "classes", class,
                                  GetOr(x.st.led.classes, class, 0) + 1)])

NftTransfer(x, tx, a) ==
  Checked(NftOwner(x.st, a.class, a.id) = tx.signer, x,
          [x EXCEPT !.st = TransferNft(@, a.class, a.id, a.to)])

NftSetMeta(x, tx, a) ==
  Checked(NftOwner(x.st, a.class, a.id) = tx.signer, x,
          [x EXCEPT !.st = SetNftMeta(@, a.class, a.id, a.meta)])

-----------------------------------------------------------------------------
(* Multisig: a policy of n keys, m of which must approve.  A proposal keeps
   its approvals as positions in the policy's key list. *)

\* Mutant: pending proposals outlive the policy they were voted under.
SetMultisigKeepsProposals(x, tx, a, hybridOnly) ==
  Checked(/\ Len(a.signers) \in 1..MaxSigners /\ IsInjective(a.signers)
          /\ a.threshold \in 1..Len(a.signers)
          /\ hybridOnly => Range(a.signers) \subseteq Hybrid, x,
          [x EXCEPT !.st = Put(@, "multisig", tx.signer,
                               [signers |-> a.signers, threshold |-> a.threshold])])


SetMultisig(x, tx, a, hybridOnly) ==
  Checked(/\ Len(a.signers) \in 1..MaxSigners /\ IsInjective(a.signers)
          /\ a.threshold \in 1..Len(a.signers)
          /\ hybridOnly => Range(a.signers) \subseteq Hybrid, x,
          [x EXCEPT !.st = RemoveProposalsFor(
             Put(@, "multisig", tx.signer, [signers |-> a.signers, threshold |-> a.threshold]),
             tx.signer)])

Position(policy, key) == CHOOSE i \in DOMAIN policy.signers : policy.signers[i] = key

\* The transaction's key may vote for the vault.
MayVote(st, tx, account, h) ==
  /\ MultisigOf(st, account) # Absent
  /\ tx.key \in Range(MultisigOf(st, account).signers)
  /\ NeedsHybrid(AccountOf(st, account), h) => tx.key \in Hybrid

ProposalId(tx, a) == <<a.account, tx.key, tx.nonce, a.inner>>

ProposeMultisig(x, tx, a, h) ==
  LET policy == MultisigOf(x.st, a.account)
      proposal == [account |-> a.account, act |-> a.inner, approvers |-> <<Position(policy, tx.key)>>]
  IN Checked(MayVote(x.st, tx, a.account, h) /\ a.inner.kind = "transfer", x,
             IF policy.threshold <= 1 THEN ExecuteProposal(x, a.account, a.inner)
             ELSE [x EXCEPT !.st = Put(@, "proposals", ProposalId(tx, a), proposal)])

\* Approvals that count now: the stored ones the current policy still
\* accepts, and the sender's.
Approvers(st, tx, account, proposal, h) ==
  LET policy == MultisigOf(st, account)
      kept == IF NeedsHybrid(AccountOf(st, account), h)
              THEN SelectSeq(proposal.approvers, LAMBDA i : Get(policy.signers, i) \in Hybrid)
              ELSE proposal.approvers
      mine == Position(policy, tx.key)
  IN IF mine \in Range(kept) THEN kept ELSE Append(kept, mine)

ApproveMultisig(x, tx, a, h) ==
  LET proposal == Get(x.st.led.proposals, a.proposal)
      approvers == Approvers(x.st, tx, a.account, proposal, h)
      paid == ExecuteProposal(x, a.account, proposal.act)
  IN Checked(/\ MayVote(x.st, tx, a.account, h)
             /\ proposal # Absent /\ proposal.account = a.account, x,
             IF Len(approvers) >= MultisigOf(x.st, a.account).threshold
             THEN [paid EXCEPT !.st = Put(@, "proposals", a.proposal, Absent)]
             ELSE [x EXCEPT !.st = Put(@, "proposals", a.proposal, [proposal EXCEPT !.approvers = approvers])])

CancelMultisig(x, tx, a, h) ==
  Checked(/\ MayVote(x.st, tx, a.account, h)
          /\ a.proposal \in DOMAIN x.st.led.proposals
          /\ x.st.led.proposals[a.proposal].account = a.account, x,
          [x EXCEPT !.st = Put(@, "proposals", a.proposal, Absent)])

-----------------------------------------------------------------------------
(* xUSD: minted against collateral in a vault at the oracle's price. *)

OraclePrice(st) == IF Cell(st, "oracle") = Absent THEN SeedPrice ELSE Cell(st, "oracle")
MaxDebt(collateral, price) == (((collateral * price) \div PriceScale) * 100) \div MinRatioPct
IsHealthy(vault, price) == vault.debt <= MaxDebt(vault.collateral, price)

VaultDeposit(x, tx, a) ==
  Checked(a.amount # 0 /\ x.s.bal >= a.amount, x,
          [Pay(x, a.amount) EXCEPT
             !.st = SetVault(@, tx.signer, [VaultOf(x.st, tx.signer) EXCEPT !.collateral = @ + a.amount])])

VaultWithdraw(x, tx, a) ==
  LET vault == [VaultOf(x.st, tx.signer) EXCEPT !.collateral = @ - a.amount]
  IN Checked(a.amount # 0 /\ vault.collateral >= 0 /\ IsHealthy(vault, OraclePrice(x.st)), x,
             [Earn(x, a.amount) EXCEPT !.st = SetVault(@, tx.signer, vault)])

VaultMint(x, tx, a) ==
  LET vault == [VaultOf(x.st, tx.signer) EXCEPT !.debt = @ + a.amount]
      info == GetOr(x.st.led.tokens, XUSD, [issuer |-> XusdIssuer, issued |-> 0, burned |-> 0])
      held == TokenBalance(x.st, XUSD, tx.signer) + a.amount
  IN Checked(/\ a.amount # 0 /\ IsHealthy(vault, OraclePrice(x.st))
             /\ Fits(info.issued + a.amount) /\ Fits(held), x,
             [x EXCEPT !.st = SetVault(SetTokenBalance(
                SetToken(@, XUSD, [info EXCEPT !.issued = @ + a.amount]), XUSD, tx.signer, held),
                tx.signer, vault)])

VaultBurn(x, tx, a) ==
  LET vault == [VaultOf(x.st, tx.signer) EXCEPT !.debt = @ - a.amount]
      info == Token(x.st, XUSD)
      held == TokenBalance(x.st, XUSD, tx.signer) - a.amount
  IN Checked(/\ a.amount # 0 /\ held >= 0 /\ vault.debt >= 0
             /\ info # Absent /\ Fits(info.burned + a.amount), x,
             [x EXCEPT !.st = SetVault(SetTokenBalance(
                SetToken(@, XUSD, [info EXCEPT !.burned = @ + a.amount]), XUSD, tx.signer, held),
                tx.signer, vault)])

OracleUpdate(x, tx, a) ==
  LET current == OraclePrice(x.st)
  IN Checked(/\ tx.signer = OracleAccount /\ a.price # 0
             /\ current > 0 => a.price \in (current \div MaxOracleMove)..(current * MaxOracleMove), x,
             [x EXCEPT !.st = PutCell(@, "oracle", a.price)])

-----------------------------------------------------------------------------
(* One transaction. *)

\* The action itself, its carriers resolved.  A tip or a timestamp that got
\* this far was nested where it may not be.
Dispatch(x, tx, a, deferred, hybridOnly, h) ==
  CASE a.kind = "transfer"       -> DoPlainTransfer(x, tx, a)
    [] a.kind = "claimVesting"   -> ClaimVesting(x, h)
    [] a.kind = "deploy"         -> Deploy(x, a)
    [] a.kind = "call"           -> Call(x, a, h)
    [] a.kind = "shielded"       -> Shielded(x, a, h)
    [] a.kind = "shieldedV2"     -> ShieldedV2(x, a, deferred, h)
    [] a.kind = "htlcLock"       -> HtlcLock(x, tx, a)
    [] a.kind = "htlcClaim"      -> HtlcClaim(x, tx, a, h)
    [] a.kind = "htlcRefund"     -> HtlcRefund(x, tx, a, h)
    [] a.kind = "tokenIssue"     -> TokenIssue(x, tx, a)
    [] a.kind = "tokenTransfer"  -> TokenTransfer(x, tx, a, h)
    [] a.kind = "tokenBurn"      -> TokenBurn(x, tx, a, h)
    [] a.kind = "tokenSetPolicy" -> TokenSetPolicy(x, tx, a)
    [] a.kind = "intentSettle"   -> IntentSettle(x, tx, a, h)
    [] a.kind = "intentCancel"   -> IntentCancel(x, tx, a)
    [] a.kind = "rotateKey"      -> RotateKey(x, a, hybridOnly)
    [] a.kind = "registerName"   -> RegisterName(x, tx, a)
    [] a.kind = "transferName"   -> TransferName(x, tx, a)
    [] a.kind = "nftMint"        -> NftMint(x, tx, a)
    [] a.kind = "nftTransfer"    -> NftTransfer(x, tx, a)
    [] a.kind = "nftSetMeta"     -> NftSetMeta(x, tx, a)
    [] a.kind = "setMultisig"    -> SetMultisig(x, tx, a, hybridOnly)
    [] a.kind = "propose"        -> ProposeMultisig(x, tx, a, h)
    [] a.kind = "approve"        -> ApproveMultisig(x, tx, a, h)
    [] a.kind = "cancel"         -> CancelMultisig(x, tx, a, h)
    [] a.kind = "vaultDeposit"   -> VaultDeposit(x, tx, a)
    [] a.kind = "vaultWithdraw"  -> VaultWithdraw(x, tx, a)
    [] a.kind = "vaultMint"      -> VaultMint(x, tx, a)
    [] a.kind = "vaultBurn"      -> VaultBurn(x, tx, a)
    [] a.kind = "oracleUpdate"   -> OracleUpdate(x, tx, a)
    [] a.kind = "exec"           -> Failed(x)
    [] a.kind \in {"tipped", "timestamped"} -> Reject(x)

\* Positions of the policy whose key signed this very execution.
Endorsements(policy, tx, a, hybridOnly, h) ==
  {i \in DOMAIN policy.signers :
     /\ [position |-> i, key |-> policy.signers[i], nonce |-> tx.nonce] \in a.approvals
     /\ hybridOnly => policy.signers[i] \in Hybrid \/ Migrates(a.inner, h)}

Resolve(x, tx, deferred, hybridOnly, h) ==
  LET a == Unstamped(tx.act)
      run(y, inner) == Dispatch(y, tx, inner, deferred, hybridOnly, h)
  IN IF a.kind = "tipped"
     THEN IF a.inner.kind \in {"tipped", "exec", "rotateKey"} \/ x.s.bal < a.tip THEN Reject(x)
          ELSE run([Pay(x, a.tip) EXCEPT !.tip = a.tip], a.inner)
     ELSE IF a.kind = "exec"
     THEN LET policy == MultisigOf(x.st, tx.signer)
          IN Checked(/\ a.inner.kind \notin {"exec", "rotateKey"}
                     /\ policy # Absent
                     /\ Cardinality(Endorsements(policy, tx, a, hybridOnly, h)) >= policy.threshold, x,
                     run(x, a.inner))
     ELSE run(x, a)

\* Mutant: the tip is taken and never paid.
CommitKeepsTip(x, tx) == [x EXCEPT !.st = Credit(SetAccount(@, tx.signer, x.s), Miner, x.fee)]

\* Write the signer back, then pay the miner what it is owed.
Commit(x, tx) ==
  [x EXCEPT !.st = Credit(Credit(SetAccount(@, tx.signer, x.s), Miner, x.fee), Miner, x.tip)]

ApplyTransaction(st, tx, h) ==
  LET acct == SignerCopy(st, tx)
      fee == IntrinsicFee(tx)
      funded == FeeFunded(st, tx, acct.bal, fee, h)
      deferred == IF funded THEN fee ELSE 0
      x == [st |-> st, s |-> [acct EXCEPT !.nonce = @ + 1, !.bal = @ - fee + deferred],
            fee |-> fee, tip |-> 0, res |-> "ok"]
  IN IF \/ ~tx.signed \/ acct = Absent
        \/ tx.nonce # acct.nonce
        \/ PqRefuses(tx, acct, h) \/ PoolRetired(tx.act, h)
        \/ Dormant(tx.act, h) \/ NestedTimestamp(tx.act) \/ ~Timely(tx.act, h)
        \/ OversizedData(Unstamped(tx.act))
        \/ acct.bal < fee /\ ~funded
     THEN [st |-> st, s |-> NoAccount, fee |-> 0, tip |-> 0, res |-> "reject"]
     ELSE Commit(Resolve(x, tx, deferred, NeedsHybrid(acct, h), h), tx)

-----------------------------------------------------------------------------
(* Blocks. *)

RewardAt(h, mined) ==
  LET halvings == (h - 1) \div HalvingInterval
      halved[n \in 0..halvings] == IF n = 0 THEN BaseReward ELSE halved[n - 1] \div 2
      scheduled == halved[halvings]
  IN IF mined >= MiningBudget THEN 0
     ELSE IF scheduled < MiningBudget - mined THEN scheduled ELSE MiningBudget - mined

Coinbase(st, h) ==
  LET reward == RewardAt(h, Cell(st, "mined"))
  IN IF reward = 0 THEN st
     ELSE PutCell(Credit(st, Miner, reward), "mined", Cell(st, "mined") + reward)

-----------------------------------------------------------------------------
(* What a block must leave behind, whatever its transactions did. *)

HolderSum(l, asset) == SumOf([k \in {k \in DOMAIN l.balances : k[1] = asset} |-> l.balances[k]])

CheckLedger(l) ==
  /\ TotalSupply(l) <= MaxSupply /\ l.cells.mined <= MiningBudget
  /\ \A asset \in DOMAIN l.tokens : l.tokens[asset].issued - l.tokens[asset].burned = HolderSum(l, asset)
  /\ \A k \in DOMAIN l.balances : k[1] \in DOMAIN l.tokens
  /\ DOMAIN l.policies \subseteq DOMAIN l.tokens
  /\ \A k \in DOMAIN l.windows : k[1] \in DOMAIN l.policies

\* Mutant: the transition is checked for the asset counters only.
CheckTransitionTokens(pre, post) ==
  /\ DOMAIN pre.tokens \subseteq DOMAIN post.tokens
  /\ \A asset \in DOMAIN pre.tokens : post.tokens[asset].issued >= pre.tokens[asset].issued

\* Supply moves by what was mined; assets are permanent, their counters grow.
CheckTransition(pre, post) ==
  /\ post.cells.mined >= pre.cells.mined
  /\ TotalSupply(post) - TotalSupply(pre) = post.cells.mined - pre.cells.mined
  /\ DOMAIN pre.tokens \subseteq DOMAIN post.tokens
  /\ \A asset \in DOMAIN pre.tokens :
       /\ post.tokens[asset].issued >= pre.tokens[asset].issued
       /\ post.tokens[asset].burned >= pre.tokens[asset].burned

-----------------------------------------------------------------------------
(* A block's life. *)

Init ==
  /\ led = [EmptyLedger EXCEPT !.accounts = Genesis]
  /\ undo = <<>> /\ open = FALSE /\ height = 0 /\ size = 0 /\ past = <<>>
  /\ menu \in Menus
  /\ before = Absent /\ cast = {} /\ last = Absent

\* Open the next block: start a journal and mint the coinbase.
BeginBlock ==
  /\ ~open /\ height < MaxHeight
  /\ LET st == Coinbase([led |-> led, undo |-> <<>>], height + 1)
     IN led' = st.led /\ undo' = st.undo
  /\ open' = TRUE /\ height' = height + 1 /\ size' = 0
  /\ before' = [led |-> led, cast |-> cast] /\ last' = Absent
  /\ UNCHANGED <<past, menu, cast>>

\* The action a transaction comes down to; a proposal is not looked into.
Effective(a) ==
  LET at == Layers(a)
      wraps(n) == at[n].kind \in {"timestamped", "tipped", "exec"}
  IN at[CHOOSE n \in 0..MaxNesting : (n = MaxNesting \/ ~wraps(n)) /\ \A m \in 0..n - 1 : wraps(m)]

Votes(tx, res) ==
  LET a == Effective(tx.act)
  IN IF res # "ok" THEN {}
     ELSE IF a.kind = "propose" THEN {<<ProposalId(tx, a), tx.key>>}
     ELSE IF a.kind = "approve" THEN {<<a.proposal, tx.key>>} ELSE {}

Signed(t, n) == [signer |-> t.signer, key |-> t.key, act |-> t.act, signed |-> t.signed, nonce |-> n]

\* Apply the block's next transaction.
Include(tx) ==
  LET x == ApplyTransaction([led |-> led, undo |-> undo], tx, height)
  IN /\ open /\ size < MaxBlockTxs
     /\ x.res # "reject"
     /\ led' = x.st.led /\ undo' = x.st.undo /\ size' = size + 1
     /\ cast' = cast \cup Votes(tx, x.res)
     /\ last' = [tx |-> tx, res |-> x.res]
     /\ UNCHANGED <<open, height, past, menu, before>>

RollBack ==
  /\ led' = ApplyUndo(led, undo) /\ undo' = <<>>
  /\ open' = FALSE /\ height' = height - 1 /\ size' = 0
  /\ cast' = before.cast /\ before' = Absent /\ last' = Absent
  /\ UNCHANGED <<past, menu>>

\* The block holds a transaction that is rejected.
Abort(tx) ==
  /\ open /\ size < MaxBlockTxs
  /\ ApplyTransaction([led |-> led, undo |-> undo], tx, height).res = "reject"
  /\ RollBack

\* Every transaction applied, but the roots are not those the header
\* commits to (any block may claim any roots), or a check fails.
Refuse == open /\ RollBack

\* Every transaction applied and checked: the block joins the chain with its
\* journal.
Seal ==
  /\ open
  /\ CheckTransition(before.led, led) /\ CheckLedger(led)
  /\ past' = Append(past, [undo |-> undo, before |-> before])
  /\ undo' = <<>> /\ open' = FALSE /\ size' = 0
  /\ before' = Absent /\ last' = Absent
  /\ UNCHANGED <<led, height, menu, cast>>

\* A reorganisation takes the head block back.
Disconnect ==
  /\ ~open /\ past # <<>>
  /\ led' = ApplyUndo(led, past[Len(past)].undo)
  /\ past' = SubSeq(past, 1, Len(past) - 1) /\ height' = height - 1
  /\ cast' = past[Len(past)].before.cast /\ last' = Absent
  /\ UNCHANGED <<undo, open, size, menu, before>>

Next == \/ BeginBlock \/ Seal \/ Refuse \/ Disconnect
        \/ \E t \in menu, n \in 0..MaxNonce : Include(Signed(t, n)) \/ Abort(Signed(t, n))

Spec == Init /\ [][Next]_vars

-----------------------------------------------------------------------------
(* Properties. *)

\* The state is well formed: balances, counters and pools are never
\* negative, and no map holds a value the code would have removed.
TypeOK ==
  /\ \A a \in DOMAIN led.accounts :
       a \in Account /\ led.accounts[a].bal \in Nat /\ led.accounts[a].locked \in Nat
         /\ led.accounts[a].key \in Key \cup {Absent} /\ led.accounts[a] # NoAccount
  /\ \A k \in DOMAIN led.balances : led.balances[k] \in 1..MaxToken
  /\ \A a \in DOMAIN led.vaults : led.vaults[a].collateral \in Nat /\ led.vaults[a].debt \in Nat
  /\ {led.cells[c] : c \in {"mined", "escrow", "collateral", "value1", "value2"}} \subseteq Nat
  /\ open \in BOOLEAN /\ height \in 0..MaxHeight /\ size \in 0..MaxBlockTxs
  /\ Len(past) = IF open THEN height - 1 ELSE height

GenesisSupply == SumOf([a \in DOMAIN Genesis |-> Total(Genesis[a])])

\* Between blocks Ledger::total_supply is the genesis supply plus what the
\* coinbases minted, whatever blocks were connected, refused half way or
\* disconnected, and it never mints past the budget: what a transaction
\* creates or destroys, check_transition_pre refuses.
SupplyConserved ==
  ~open => /\ TotalSupply(led) = GenesisSupply + led.cells.mined
           /\ led.cells.mined <= MiningBudget

\* Whether a transaction runs a stored transfer that writes its own signer.
RunsOnSigner(tx) ==
  LET a == Effective(tx.act)
      run == IF a.kind = "propose" THEN a.inner
             ELSE IF a.kind = "approve" /\ a.proposal \in DOMAIN led.proposals
                  THEN led.proposals[a.proposal].act ELSE Absent
  IN run # Absent /\ run.kind = "transfer"
       /\ tx.signer \in {a.account, ResolveRecipient([led |-> led, undo |-> undo], run.to)}

\* Already a single transaction, whatever its kind and outcome, leaves the
\* total supply as it was, unless it runs a stored proposal on its own
\* signer: fees, tips, escrows, vaults, pools and contract calls only move
\* value, so a block template of such transactions passes the check.
TxConserves ==
  [][last' # Absent /\ ~RunsOnSigner(last'.tx) => TotalSupply(led') = TotalSupply(led)]_vars

\* "value moves only when the inner action executes, so supply is conserved"
\* (MultisigProposal): proposing or approving leaves the supply as it was.
ProposalsConserve ==
  [][last' # Absent /\ Effective(last'.tx.act).kind \in {"propose", "approve"} =>
       TotalSupply(led') = TotalSupply(led)]_vars

\* The aggregate counters agree with what they count: htlc_locked with the
\* open escrows, vault_collateral with the vaults, and each asset's issued
\* minus burned with its holders' balances; and no xUSD circulates that some
\* vault does not owe.
AssetsBacked ==
  /\ TypeOK
  /\ led.cells.escrow = SumOf([id \in DOMAIN led.htlcs |-> led.htlcs[id].amount])
  /\ led.cells.collateral = SumOf([a \in DOMAIN led.vaults |-> led.vaults[a].collateral])
  /\ \A k \in DOMAIN led.balances : k[1] \in DOMAIN led.tokens
  /\ \A asset \in DOMAIN led.tokens :
       led.tokens[asset].issued - led.tokens[asset].burned = HolderSum(led, asset)
  /\ XUSD \in DOMAIN led.tokens =>
       led.tokens[XUSD].issued - led.tokens[XUSD].burned
         <= SumOf([a \in DOMAIN led.vaults |-> led.vaults[a].debt])

\* apply_undo gives back exactly the ledger a block was begun on, at every
\* point of a block that may still be rejected and for every block that may
\* still be disconnected: each handler journals every write it makes.
UndoExact ==
  /\ open => ApplyUndo(led, undo) = before.led
  /\ ~open /\ past # <<>> => ApplyUndo(led, past[Len(past)].undo) = past[Len(past)].before.led

\* A transaction that is mined with a failed receipt has moved nothing but
\* its fees: only the accounts of its signer and of the miner differ, and a
\* failed approval may at most have cleared the proposal it approved.
FailureIsClean ==
  [][last' # Absent /\ last'.res = "failed" =>
       /\ \A f \in DOMAIN led \ {"accounts", "proposals"} : led'[f] = led[f]
       /\ \A a \in Account \ {last'.tx.signer, Miner} : Get(led'.accounts, a) = Get(led.accounts, a)
       /\ \A id \in DOMAIN led'.proposals : Get(led.proposals, id) = led'.proposals[id]]_vars

\* Whether enough keys of the vault's present policy stand behind the step.
Endorsed(v, tx) ==
  LET policy == led.multisig[v]
      a == Effective(tx.act)
      voters == {k \in Range(policy.signers) :
                   IF tx.signer = v THEN \E ap \in tx.act.approvals : ap.key = k /\ ap.nonce = tx.nonce
                   ELSE a.account = v /\ <<IF a.kind = "propose" THEN ProposalId(tx, a) ELSE a.proposal, k>> \in cast'}
  IN /\ tx.signer = v \/ a.kind \in {"propose", "approve"}
     /\ Cardinality(voters) >= policy.threshold

\* A transaction takes more than its fee out of an account under an m-of-n
\* policy only when m keys of the policy then in force have signed for it:
\* for that very execution, or for the proposal it completes.
VaultSpends ==
  [][last' # Absent =>
       \A v \in DOMAIN led.multisig :
         LET charge == IF last'.tx.signer = v THEN IntrinsicFee(last'.tx) ELSE 0
         IN GetOr(led'.accounts, v, NoAccount).bal < GetOr(led.accounts, v, NoAccount).bal - charge
              => Endorsed(v, last'.tx)]_vars
=============================================================================
