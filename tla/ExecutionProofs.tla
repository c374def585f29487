-------------------------- MODULE ExecutionProofs --------------------------
(***************************************************************************)
(* What execution guarantees for every ledger, transaction and block.      *)
(***************************************************************************)
EXTENDS Execution, LedgerProofs

-----------------------------------------------------------------------------
(* Blocks: a chain of ledgers, each led back to by the next one's journal. *)

\* The reward is a number, and never more than the budget has left.
LEMMA RewardType ==
    ASSUME NEW h \in Nat \ {0}, NEW mined \in Nat
    PROVE  RewardAt(h, mined) \in Nat /\ (mined <= MiningBudget => mined + RewardAt(h, mined) <= MiningBudget)
<1> DEFINE N == (h - 1) \div HalvingInterval
           step == [p \in (1..N) \X Nat |-> p[2] \div 2]
           Halved(g) == g = [n \in 0..N |-> IF n = 0 THEN BaseReward ELSE g[n - 1] \div 2]
           halved == CHOOSE g : Halved(g)
<1>0. N \in Nat /\ BaseReward \in Nat /\ MiningBudget \in Nat
  BY ExecutionAssumption
<1>1. RewardAt(h, mined) = IF mined >= MiningBudget THEN 0
                           ELSE IF halved[N] < MiningBudget - mined THEN halved[N] ELSE MiningBudget - mined
  BY Zenon DEF RewardAt
<1> HIDE DEF N
<1>2. PICK g : Iterated(g, N, Nat, BaseReward, step)
  <2>1. step \in [(1..N) \X Nat -> Nat]
    OBVIOUS
  <2> HIDE DEF step
  <2> QED
    BY Zenon, <1>0, <2>1, Iterates
<1>3. g \in [0..N -> Nat] /\ g[0] = BaseReward /\ \A n \in 1..N : g[n] = step[<<n, g[n - 1]>>]
  <2> HIDE DEF step
  <2> QED
    BY Zenon, <1>2 DEF Iterated
<1>4. ASSUME NEW n \in 0..N PROVE g[n] = IF n = 0 THEN BaseReward ELSE g[n - 1] \div 2
  <2>1. n # 0 => n \in 1..N /\ n - 1 \in 0..N
    BY <1>0
  <2>2. n # 0 => <<n, g[n - 1]>> \in (1..N) \X Nat
    BY Zenon, <1>3, <2>1
  <2> QED
    BY Zenon, <1>3, <2>1, <2>2
<1>5. Halved(g)
  BY Zenon, <1>3, <1>4
<1>6. Halved(halved)
  <2> HIDE DEF Halved
  <2> QED
    BY Zenon, <1>5
<1> HIDE DEF halved
<1> DEFINE T == {n \in Nat : n <= N => halved[n] \in Nat}
<1>7. \A n \in Nat : n \in T
  <2>1. 0 \in T
    BY <1>0, <1>6
  <2>2. ASSUME NEW n \in Nat, n \in T PROVE n + 1 \in T
    BY <1>0, <1>6, <2>2, (n + 1) - 1 = n
  <2> HIDE DEF T
  <2> QED
    BY Zenon, <2>1, <2>2, NatSetInduction
<1>8. halved[N] \in Nat
  BY <1>0, <1>7
<1> QED
  BY <1>0, <1>1, <1>8

LEMMA CreditGrows ==
    ASSUME NEW st, Native(st.led), NEW n \in Nat
    PROVE  LET p == Credit(st, Miner, n)
           IN Native(p.led) /\ Journals(st, p) /\ TotalSupply(p.led) = TotalSupply(st.led) + n
<1>1. /\ Miner \in Account /\ n \in Int /\ TotalSupply(st.led) \in Nat
      /\ AccountOf(st, Miner).bal + n >= 0
  BY ExecutionAssumption, SupplyType, AccountType DEF Parts, AccountRecord
<1> DEFINE q == SetAccount(st, Miner, [AccountOf(st, Miner) EXCEPT !.bal = @ + n])
<1>2. Credited(st, q, Miner, n)
  BY Zenon, <1>1, CreditAdds
<1>3. Credit(st, Miner, n) = IF n = 0 THEN st ELSE q
  BY Zenon DEF Credit
<1> HIDE DEF q
<1>4. Journals(st, st)
  BY Zenon DEF Journals
<1> QED
  BY <1>1, <1>2, <1>3, <1>4 DEF Credited

\* The coinbase mints what it adds to the mined counter.
LEMMA CoinbaseKeeps ==
    ASSUME NEW st, Native(st.led), NEW h \in Nat \ {0}
    PROVE  Native(Coinbase(st, h).led) /\ Journals(st, Coinbase(st, h))
<1> DEFINE mined == Cell(st, "mined")
           reward == RewardAt(h, mined)
           p == Credit(st, Miner, reward)
<1>1. mined \in Nat
  BY Zenon DEF Native, Typed, Cell
<1>2. reward \in Nat
  BY Zenon, <1>1, RewardType
<1> HIDE DEF mined, reward
<1>3. Native(p.led) /\ Journals(st, p)
  BY Zenon, <1>2, CreditGrows
<1>4. mined + reward \in Nat
  BY <1>1, <1>2
<1>5. Coinbase(st, h) \in {st, PutCell(p, "mined", mined + reward)}
  BY Zenon DEF Coinbase, mined, reward
<1> HIDE DEF p
<1>6. Moves(p, PutCell(p, "mined", mined + reward), Miner, 0)
  BY Zenon, <1>3, <1>4, MinedMoves
<1>7. Native(PutCell(p, "mined", mined + reward).led) /\ Journals(st, PutCell(p, "mined", mined + reward))
  BY Zenon, <1>3, <1>6 DEF Moves, Journals
<1>8. Journals(st, st)
  BY Zenon DEF Journals
<1> QED
  BY Zenon, <1>5, <1>7, <1>8

\* A ledger a chain may stand on: the supply is what was allocated and mined.
Settled(l) ==
  /\ Native(l)
  /\ TotalSupply(l) = GenesisSupply + l.cells.mined /\ l.cells.mined <= MiningBudget

\* The ledger block i of the chain left behind.
After(i) == IF i # Len(past) THEN past[i + 1].before.led ELSE IF open THEN before.led ELSE led

\* The journal of the block in progress leads back to the ledger it was begun
\* on, and the journal of every connected block from the ledger it left, which
\* is the one its successor was begun on; and all of these are settled.
ChainInv ==
  /\ open \in BOOLEAN /\ Journal(past) /\ menu \in Menus /\ Native(led)
  /\ height = Len(past) + (IF open THEN 1 ELSE 0)
  /\ open => Good([led |-> led, undo |-> undo], before.led) /\ Settled(before.led)
  /\ ~open => Settled(led)
  /\ \A i \in 1..Len(past) :
       Good([led |-> After(i), undo |-> past[i].undo], past[i].before.led) /\ Settled(past[i].before.led)

LEMMA GenesisType == GenesisSupply \in Nat
<1>1. \A a \in DOMAIN Genesis : Total(Genesis[a]) \in Nat
  BY ExecutionAssumption DEF Total, AccountRecord
<1> QED
  BY Zenon, <1>1, ExecutionAssumption, SumNat DEF GenesisSupply

LEMMA ChainInvInit == Init => ChainInv
<1> SUFFICES ASSUME Init PROVE ChainInv
  BY Zenon
<1>1. Journal(<<>>) /\ past = <<>> /\ Len(past) = 0
  BY DEF Journal, Init
<1>2. Tidy(<<>>) /\ Tidy(Genesis) /\ DOMAIN <<>> = {}
  <2>1. DOMAIN <<>> = {} /\ IsFiniteSet({})
    BY FS_EmptySet
  <2> QED
    BY <2>1, ExecutionAssumption, LedgerAssumption DEF Tidy, IsMap
<1>3. Shape(led)
  BY <1>2 DEF Init, EmptyLedger, Shape, MapNames, CellNames, IsMap
<1>4. open = FALSE /\ menu \in Menus /\ height = 0 /\ 1..Len(past) = {}
  BY <1>1 DEF Init
<1>5. /\ led.accounts = Genesis /\ led.htlcs = <<>> /\ led.vaults = <<>> /\ led.nfts = <<>> /\ led.proposals = <<>>
      /\ led.cells.mined = 0 /\ led.cells.value1 = 0 /\ led.cells.value2 = 0
      /\ led.cells.escrow = 0 /\ led.cells.collateral = 0
  BY Zenon DEF Init, EmptyLedger
<1> HIDE DEF Init
<1>6. HtlcSum(led) = 0 /\ CollateralSum(led) = 0
  <2>1. \A f : DOMAIN f = {} => SumOf(f) = 0
    BY Zenon, SumEmpty
  <2>2. DOMAIN [id \in DOMAIN led.htlcs |-> led.htlcs[id].amount] = {}
        /\ DOMAIN [a \in DOMAIN led.vaults |-> led.vaults[a].collateral] = {}
    BY Zenon, <1>2, <1>5
  <2> QED
    BY Zenon, <2>1, <2>2 DEF HtlcSum, CollateralSum
<1>7. Native(led)
  <2>1. Typed(led)
    BY <1>2, <1>3, <1>5, ExecutionAssumption DEF Typed
  <2> QED
    BY Zenon, <1>5, <1>6, <2>1 DEF Native, Backed
<1>8. TotalSupply(led) = GenesisSupply + 0 /\ MiningBudget >= 0
  <2>1. TotalSupply(led) = GenesisSupply + 0 + 0 + 0 + 0
    BY Zenon, <1>5 DEF TotalSupply, GenesisSupply
  <2> QED
    BY <2>1, GenesisType, ExecutionAssumption
<1>9. Settled(led)
  BY Zenon, <1>5, <1>7, <1>8 DEF Settled
<1>10. Journal(past)
  BY Zenon, <1>1
<1>11. height = Len(past) + (IF open THEN 1 ELSE 0)
  BY <1>1, <1>4
<1> QED
  BY Zenon, <1>4, <1>7, <1>9, <1>10, <1>11 DEF ChainInv

\* What CheckTransition and CheckLedger leave the chain standing on.
LEMMA SealSettles ==
    ASSUME NEW l, Native(l), NEW pre, Settled(pre), CheckTransition(pre, l), CheckLedger(l)
    PROVE  Settled(l)
<1>1. TotalSupply(l) \in Nat /\ TotalSupply(pre) \in Nat /\ l.cells.mined \in Nat /\ pre.cells.mined \in Nat
  BY Zenon, SupplyType DEF Settled, Parts, Native, Typed
<1>2. /\ TotalSupply(l) - TotalSupply(pre) = l.cells.mined - pre.cells.mined
      /\ TotalSupply(pre) = GenesisSupply + pre.cells.mined /\ l.cells.mined <= MiningBudget
  BY Zenon DEF CheckTransition, CheckLedger, Settled
<1>3. TotalSupply(l) = GenesisSupply + l.cells.mined
  BY <1>1, <1>2, GenesisType
<1> QED
  BY Zenon, <1>2, <1>3 DEF Settled

\* The blocks of the chain that a step leaves where they were.
LEMMA PastStands ==
    ASSUME ChainInv, NEW i \in 1..Len(past), i \in 1..Len(past'), past'[i] = past[i], After(i)' = After(i)
    PROVE  Good([led |-> After(i)', undo |-> past'[i].undo], past'[i].before.led) /\ Settled(past'[i].before.led)
BY Zenon DEF ChainInv

LEMMA BeginBlockKeeps == ChainInv /\ BeginBlock => ChainInv'
<1> SUFFICES ASSUME ChainInv, BeginBlock PROVE ChainInv'
  BY Zenon
<1> DEFINE st0 == [led |-> led, undo |-> <<>>]
           st == Coinbase(st0, height + 1)
<1>1. ~open /\ led' = st.led /\ undo' = st.undo /\ open' = TRUE /\ before'.led = led /\ height' = height + 1
       /\ past' = past /\ menu' = menu
  BY Zenon DEF BeginBlock
<1>2. Native(led) /\ Settled(led) /\ height = Len(past) /\ Len(past) \in Nat
  BY <1>1 DEF ChainInv, Journal
<1>3. Good(st0, led) /\ st0.led = led
  BY Zenon, <1>2, UndoesNothing DEF Good, Native, Typed
<1> HIDE DEF st0
<1>4. Native(st.led) /\ Journals(st0, st)
  <2>1. height + 1 \in Nat \ {0}
    BY <1>2
  <2> QED
    BY Zenon, <1>2, <1>3, <2>1, CoinbaseKeeps
<1> HIDE DEF st
<1>5. Good(st, led)
  BY Zenon, <1>3, <1>4 DEF Journals
<1>6. Good([led |-> st.led, undo |-> st.undo], led)
  BY Zenon, <1>5 DEF Good
<1>7. \A i \in 1..Len(past) : After(i)' = After(i)
  BY Zenon, <1>1 DEF After
<1>8. \A i \in 1..Len(past') :
        Good([led |-> After(i)', undo |-> past'[i].undo], past'[i].before.led) /\ Settled(past'[i].before.led)
  BY Zenon, <1>1, <1>7, PastStands
<1>9. /\ open' \in BOOLEAN /\ Journal(past') /\ menu' \in Menus /\ Native(led')
      /\ height' = Len(past') + (IF open' THEN 1 ELSE 0)
  BY Zenon, <1>1, <1>2, <1>4 DEF ChainInv
<1>10. open' /\ Good([led |-> led', undo |-> undo'], before'.led) /\ Settled(before'.led)
  BY Zenon, <1>1, <1>2, <1>6
<1> QED
  BY Zenon, <1>8, <1>9, <1>10 DEF ChainInv

LEMMA RollBackKeeps == ChainInv /\ open /\ RollBack => ChainInv'
<1> SUFFICES ASSUME ChainInv, open, RollBack PROVE ChainInv'
  BY Zenon
<1>1. ApplyUndo(led, undo) = before.led /\ Settled(before.led) /\ Native(before.led)
  BY Zenon, UndoesApplies DEF ChainInv, Good, Settled
<1>2. led' = before.led /\ open' = FALSE /\ past' = past /\ menu' = menu /\ height' = height - 1
  BY Zenon, <1>1 DEF RollBack
<1>3. height = Len(past) + 1 /\ Len(past) \in Nat
  BY DEF ChainInv, Journal
<1>4. \A i \in 1..Len(past) : After(i)' = After(i)
  BY Zenon, <1>2 DEF After
<1>5. \A i \in 1..Len(past') :
        Good([led |-> After(i)', undo |-> past'[i].undo], past'[i].before.led) /\ Settled(past'[i].before.led)
  BY Zenon, <1>2, <1>4, PastStands
<1>6. /\ open' \in BOOLEAN /\ Journal(past') /\ menu' \in Menus /\ Native(led')
      /\ height' = Len(past') + (IF open' THEN 1 ELSE 0)
  <2>1. height' = Len(past') + 0
    BY <1>2, <1>3
  <2> QED
    BY Zenon, <1>1, <1>2, <2>1 DEF ChainInv
<1>7. ~open' /\ Settled(led')
  BY Zenon, <1>1, <1>2
<1> QED
  BY Zenon, <1>5, <1>6, <1>7 DEF ChainInv

LEMMA SealKeeps == ChainInv /\ Seal => ChainInv'
<1> SUFFICES ASSUME ChainInv, Seal PROVE ChainInv'
  BY Zenon
<1> DEFINE block == [undo |-> undo, before |-> before]
<1>0. Len(past) \in Nat /\ past \in Seq(Range(past))
  BY DEF ChainInv, Journal, Range
<1>1. /\ open /\ past' = Append(past, block) /\ open' = FALSE /\ led' = led /\ menu' = menu /\ height' = height
      /\ CheckTransition(before.led, led) /\ CheckLedger(led)
  BY Zenon DEF Seal
<1>2. Len(past') = Len(past) + 1 /\ past'[Len(past) + 1] = block
       /\ \A i \in 1..Len(past) : past'[i] = past[i]
  BY <1>0, <1>1
<1>3. Journal(past')
  <2>1. PICK S : past \in Seq(S)
    BY Zenon DEF ChainInv, Journal
  <2>2. past \in Seq(S \cup {block}) /\ block \in S \cup {block}
    BY <2>1
  <2>3. past' \in Seq(S \cup {block})
    BY <1>1, <2>2
  <2> QED
    BY Zenon, <2>3 DEF Journal
<1>4. \A i \in 1..Len(past) : After(i)' = After(i)
  BY <1>0, <1>1, <1>2 DEF After
<1>5. \A i : i = Len(past') => After(i)' = led
  BY Zenon, <1>1 DEF After
<1>6. Good([led |-> led, undo |-> undo], before.led) /\ Settled(before.led) /\ Native(led)
  BY Zenon, <1>1 DEF ChainInv
<1>7. Settled(led)
  BY Zenon, <1>1, <1>6, SealSettles
<1>8. ASSUME NEW i \in 1..Len(past')
      PROVE  Good([led |-> After(i)', undo |-> past'[i].undo], past'[i].before.led) /\ Settled(past'[i].before.led)
  <2>1. CASE i \in 1..Len(past)
    BY Zenon, <2>1, <1>2, <1>4, PastStands
  <2>2. CASE i = Len(past) + 1
    <3>1. After(i)' = led /\ past'[i] = block
      BY Zenon, <2>2, <1>2, <1>5
    <3>2. past'[i].undo = undo /\ past'[i].before = before
      BY <3>1
    <3> QED
      BY Zenon, <1>6, <3>1, <3>2
  <2> QED
    BY <1>0, <1>2, <2>1, <2>2
<1>9. /\ open' \in BOOLEAN /\ menu' \in Menus /\ Native(led')
      /\ height' = Len(past') + (IF open' THEN 1 ELSE 0)
  <2>1. height = Len(past) + 1
    BY Zenon, <1>1 DEF ChainInv
  <2>2. height' = Len(past') + 0
    BY <1>0, <1>1, <1>2, <2>1
  <2> QED
    BY Zenon, <1>1, <1>6, <2>2 DEF ChainInv
<1>10. ~open' /\ Settled(led')
  BY Zenon, <1>1, <1>7
<1> QED
  BY Zenon, <1>3, <1>8, <1>9, <1>10 DEF ChainInv

LEMMA DisconnectKeeps == ChainInv /\ Disconnect => ChainInv'
<1> SUFFICES ASSUME ChainInv, Disconnect PROVE ChainInv'
  BY Zenon
<1> DEFINE n == Len(past)
<1>0. Len(past) \in Nat /\ past \in Seq(Range(past))
  BY DEF ChainInv, Journal, Range
<1>1. /\ ~open /\ n > 0 /\ led' = ApplyUndo(led, past[n].undo) /\ past' = SubSeq(past, 1, n - 1)
      /\ open' = open /\ menu' = menu /\ height' = height - 1 /\ height = n
  BY <1>0 DEF Disconnect, ChainInv
<1>2. After(n) = led
  BY Zenon, <1>1 DEF After
<1>3. Good([led |-> led, undo |-> past[n].undo], past[n].before.led) /\ Settled(past[n].before.led)
  BY <1>0, <1>1, <1>2 DEF ChainInv
<1>4. led' = past[n].before.led /\ Settled(led') /\ Native(led')
  BY Zenon, <1>1, <1>3, UndoesApplies DEF Good, Settled
<1>5. Len(past') = n - 1 /\ past' \in Seq(Range(past)) /\ \A i \in 1..n - 1 : past'[i] = past[i]
  <2>1. \A i \in 1..n - 1 : past[i] \in Range(past)
    BY <1>0 DEF Range
  <2>2. past' = SubSeq(past, 1, n - 1) /\ 1 \in Int /\ n - 1 \in Int
    BY <1>0, <1>1
  <2>3. /\ past' \in Seq(Range(past))
        /\ Len(past') = IF 1 <= n - 1 THEN n - 1 - 1 + 1 ELSE 0
        /\ \A i \in 1..n - 1 - 1 + 1 : past'[i] = past[1 + i - 1]
    BY <2>1, <2>2
  <2>4. n \in Nat /\ n > 0
    BY Zenon, <1>0, <1>1
  <2> HIDE DEF n
  <2>5. n - 1 - 1 + 1 = n - 1 /\ (IF 1 <= n - 1 THEN n - 1 - 1 + 1 ELSE 0) = n - 1
    BY <2>4
  <2>6. \A i \in 1..n - 1 : 1 + i - 1 = i
    BY <2>4
  <2> QED
    BY Zenon, <2>3, <2>5, <2>6
<1>6. \A i \in 1..n - 1 : After(i)' = After(i)
  BY <1>0, <1>1, <1>4, <1>5 DEF After
<1>7. \A i \in 1..Len(past') :
        Good([led |-> After(i)', undo |-> past'[i].undo], past'[i].before.led) /\ Settled(past'[i].before.led)
  <2>1. 1..Len(past') \subseteq 1..Len(past)
    BY <1>0, <1>5
  <2> QED
    BY Zenon, <1>5, <1>6, <2>1, PastStands
<1>8. /\ open' \in BOOLEAN /\ Journal(past') /\ menu' \in Menus
      /\ height' = Len(past') + (IF open' THEN 1 ELSE 0)
  <2>1. height' = Len(past') + 0
    BY <1>0, <1>1, <1>5
  <2> QED
    BY Zenon, <1>1, <1>5, <2>1 DEF ChainInv, Journal
<1>9. ~open' /\ Native(led') /\ Settled(led')
  BY Zenon, <1>1, <1>4
<1> QED
  BY Zenon, <1>7, <1>8, <1>9 DEF ChainInv

LEMMA JournalsLeadBack == ChainInv => UndoExact
<1> SUFFICES ASSUME ChainInv PROVE UndoExact
  BY Zenon
<1>1. ASSUME open PROVE ApplyUndo(led, undo) = before.led
  BY Zenon, <1>1, UndoesApplies DEF ChainInv, Good
<1>2. ASSUME ~open, past # <<>> PROVE ApplyUndo(led, past[Len(past)].undo) = past[Len(past)].before.led
  <2>1. Len(past) \in Nat /\ Len(past) # 0
    BY <1>2 DEF ChainInv, Journal
  <2>2. After(Len(past)) = led
    BY Zenon, <1>2 DEF After
  <2>3. Good([led |-> led, undo |-> past[Len(past)].undo], past[Len(past)].before.led)
    BY <2>1, <2>2 DEF ChainInv
  <2> QED
    BY Zenon, <2>3, UndoesApplies DEF Good
<1> QED
  BY Zenon, <1>1, <1>2 DEF UndoExact

-----------------------------------------------------------------------------
(* What a transaction pays for and comes down to. *)

\* The walk down an action meets actions only.
LEMMA LayersType ==
    ASSUME NEW a \in Action
    PROVE  LET at == Layers(a)
           IN /\ at[0] = a /\ \A n \in 0..MaxNesting : at[n] \in Action
              /\ \A n \in 1..MaxNesting : at[n] = IF at[n - 1].kind \in Carriers THEN at[n - 1].inner ELSE at[n - 1]
<1> DEFINE N == MaxNesting
           below(b) == IF b.kind \in Carriers THEN b.inner ELSE b
           step == [p \in (1..N) \X Action |-> below(p[2])]
           Walk(g) == g = [n \in 0..N |-> IF n = 0 THEN a ELSE below(g[n - 1])]
<1>0. N \in Nat /\ \A b \in Action : below(b) \in Action
  BY Zenon, ExecutionAssumption, ActionAssumption
<1> HIDE DEF below
<1>1. step \in [(1..N) \X Action -> Action]
  BY Zenon, <1>0
<1>a. PICK g : Iterated(g, N, Action, a, step)
  <2> HIDE DEF step, N
  <2> QED
    BY Zenon, <1>0, <1>1, Iterates
<1>2. g \in [0..N -> Action] /\ g[0] = a /\ \A n \in 1..N : g[n] = step[<<n, g[n - 1]>>]
  <2> HIDE DEF step, N
  <2> QED
    BY Zenon, <1>a DEF Iterated
<1>3. ASSUME NEW n \in 1..N PROVE g[n] = below(g[n - 1])
  <2>1. n - 1 \in 0..N
    BY <1>0
  <2>2. <<n, g[n - 1]>> \in (1..N) \X Action
    BY Zenon, <1>2, <2>1
  <2> QED
    BY Zenon, <1>2, <2>2
<1>4. Walk(g)
  <2>1. \A n \in 0..N : n = 0 \/ n \in 1..N
    BY <1>0
  <2>2. \A n \in 0..N : g[n] = IF n = 0 THEN a ELSE below(g[n - 1])
    BY Zenon, <1>2, <1>3, <2>1
  <2> QED
    BY Zenon, <1>2, <2>2
<1> DEFINE at == Layers(a)
<1>5. Walk(at)
  <2>1. at = CHOOSE f : Walk(f)
    BY Zenon DEF Layers, below
  <2> HIDE DEF at, Walk
  <2> QED
    BY Zenon, <1>4, <2>1
<1> HIDE DEF at
<1>6. at[0] = a /\ \A n \in 1..N : at[n] = below(at[n - 1])
  BY <1>0, <1>5
<1> DEFINE T == {n \in Nat : n <= N => at[n] \in Action}
<1>7. \A n \in Nat : n \in T
  <2>1. 0 \in T
    BY Zenon, <1>6
  <2>2. ASSUME NEW n \in Nat, n \in T PROVE n + 1 \in T
    BY <1>0, <1>6, <2>2, (n + 1) - 1 = n
  <2> HIDE DEF T
  <2> QED
    BY Zenon, <2>1, <2>2, NatSetInduction
<1> QED
  BY <1>0, <1>6, <1>7 DEF at, below

LEMMA GasType ==
    ASSUME NEW a \in Action
    PROVE  GasFor(a) \in Nat
<1> DEFINE N == MaxNesting
           at == Layers(a)
           approvals(n) == IF at[n].kind = "exec" THEN Cardinality(at[n].approvals) ELSE 0
           cost(k, v) == LET n == N - k
                         IN IF at[n].kind \notin {"exec", "tipped", "timestamped"} THEN 1
                            ELSE 1 + approvals(n) + (IF at[n + 1].kind = at[n].kind THEN 1 ELSE v)
           step == [p \in (1..N) \X Nat |-> cost(p[1], p[2])]
           Priced(g) == g = [k \in 0..N |-> LET n == N - k
                               IN IF k = 0 \/ at[n].kind \notin {"exec", "tipped", "timestamped"} THEN 1
                                  ELSE 1 + approvals(n) + (IF at[n + 1].kind = at[n].kind THEN 1 ELSE g[k - 1])]
           gas == CHOOSE g : Priced(g)
<1>0. N \in Nat
  BY Zenon, ExecutionAssumption
<1>1. GasFor(a) = gas[N]
  BY Zenon DEF GasFor
<1>2. \A n \in 0..N : approvals(n) \in Nat
  <2>1. \A b \in Action : b.kind = "exec" => Cardinality(b.approvals) \in Nat
    BY Zenon, ActionAssumption, FS_CardinalityType
  <2>2. \A n \in 0..N : at[n] \in Action
    BY Zenon, LayersType
  <2> QED
    BY Zenon, <2>1, <2>2
<1> HIDE DEF approvals, at, N
<1>3. \A k \in 1..N, v \in Nat : cost(k, v) \in Nat
  BY <1>0, <1>2
<1>4. \A g : Priced(g) <=> g = [k \in 0..N |-> IF k = 0 THEN 1 ELSE cost(k, g[k - 1])]
  BY Zenon
<1> HIDE DEF cost, Priced
<1>5. PICK g : Iterated(g, N, Nat, 1, step)
  <2>1. step \in [(1..N) \X Nat -> Nat]
    BY Zenon, <1>3
  <2> HIDE DEF step
  <2> QED
    BY Zenon, <1>0, <2>1, Iterates
<1>6. g \in [0..N -> Nat] /\ g[0] = 1 /\ \A k \in 1..N : g[k] = step[<<k, g[k - 1]>>]
  <2> HIDE DEF step
  <2> QED
    BY Zenon, <1>5 DEF Iterated
<1>7. ASSUME NEW k \in 0..N PROVE g[k] = IF k = 0 THEN 1 ELSE cost(k, g[k - 1])
  <2>1. k # 0 => k \in 1..N /\ k - 1 \in 0..N
    BY <1>0
  <2>2. k # 0 => <<k, g[k - 1]>> \in (1..N) \X Nat
    BY Zenon, <1>6, <2>1
  <2> QED
    BY Zenon, <1>6, <2>1, <2>2
<1>8. Priced(g)
  BY Zenon, <1>4, <1>6, <1>7
<1>9. Priced(gas)
  BY Zenon, <1>8
<1> HIDE DEF gas
<1> DEFINE T == {k \in Nat : k <= N => gas[k] \in Nat}
<1>10. gas[0] = 1 /\ \A k \in 1..N : gas[k] = cost(k, gas[k - 1])
  BY <1>0, <1>4, <1>9
<1>11. \A k \in Nat : k \in T
  <2>1. 0 \in T
    BY <1>10
  <2>2. ASSUME NEW k \in Nat, k \in T PROVE k + 1 \in T
    BY <1>0, <1>3, <1>10, <2>2, (k + 1) - 1 = k
  <2> HIDE DEF T
  <2> QED
    BY Zenon, <2>1, <2>2, NatSetInduction
<1> QED
  BY <1>0, <1>1, <1>11

LEMMA FeeType ==
    ASSUME NEW tx, tx.act \in Action
    PROVE  IntrinsicFee(tx) \in Nat
BY GasType, ExecutionAssumption DEF IntrinsicFee

\* A transaction comes down to the action that Resolve dispatches.
LEMMA EffectiveIs ==
    ASSUME NEW a \in Action
    PROVE  LET W == {"timestamped", "tipped", "exec"}
           IN /\ a.kind \notin W => Effective(a) = a
              /\ a.kind \in W /\ a.inner.kind \notin W => Effective(a) = a.inner
              /\ a.kind \in W /\ a.inner.kind \in W /\ a.inner.inner.kind \notin W => Effective(a) = a.inner.inner
<1> DEFINE at == Layers(a)
           N == MaxNesting
           wraps(n) == at[n].kind \in {"timestamped", "tipped", "exec"}
<1>1. N \in Nat /\ N >= 2
  BY Zenon, ExecutionAssumption
<1>2. /\ at[0] = a /\ (wraps(0) => at[1] = a.inner)
      /\ wraps(0) /\ wraps(1) => at[2] = a.inner.inner
  <2>1. 1 \in 1..N /\ 2 \in 1..N /\ 1 - 1 = 0 /\ 2 - 1 = 1
    BY <1>1
  <2>2. /\ at[0] = a
        /\ \A n \in 1..N : at[n] = IF at[n - 1].kind \in Carriers THEN at[n - 1].inner ELSE at[n - 1]
    BY Zenon, LayersType
  <2> HIDE DEF at, N
  <2> QED
    BY Zenon, <2>1, <2>2 DEF Carriers
<1>3. Effective(a) = at[CHOOSE n \in 0..N : (n = N \/ ~wraps(n)) /\ \A m \in 0..n - 1 : wraps(m)]
  BY Zenon DEF Effective
<1> HIDE DEF at, N
<1>5. ASSUME NEW n \in 0..2, ~wraps(n), \A m \in 0..n - 1 : wraps(m) PROVE Effective(a) = at[n]
  <2> DEFINE c == CHOOSE k \in 0..N : (k = N \/ ~wraps(k)) /\ \A m \in 0..k - 1 : wraps(m)
  <2> HIDE DEF wraps
  <2>1. n \in 0..N
    BY <1>1
  <2>2. c \in 0..N /\ (c = N \/ ~wraps(c)) /\ \A m \in 0..c - 1 : wraps(m)
    BY Zenon, <1>5, <2>1
  <2> HIDE DEF c
  <2>3. c = n
    BY <1>1, <1>5, <2>2
  <2> QED
    BY Zenon, <1>3, <2>3 DEF c, wraps
<1> QED
  BY <1>2, <1>5, 0..-1 = {}, 0..0 = {0}, 0..1 = {0, 1}

-----------------------------------------------------------------------------
(* Every handler moves coin, and creates or destroys none. *)

LEMMA CopiesKeep ==
    ASSUME NEW x, Running(x), NEW s, NEW a \in Action, NEW h, NEW hybridOnly
    PROVE  /\ Keeps(x, ClaimVesting(x, h), s, 0)
           /\ a.kind = "deploy" => Keeps(x, Deploy(x, a), s, 0)
           /\ a.kind = "rotateKey" => Keeps(x, RotateKey(x, a, hybridOnly), s, 0)
<1>0. Keeps(x, Failed(x), s, 0)
  BY Zenon, FailedKeeps
<1>1. Keeps(x, ClaimVesting(x, h), s, 0)
  <2> DEFINE y == [Earn(x, x.s.locked) EXCEPT !.s.locked = 0, !.s.unlock = 0]
  <2>1. /\ DOMAIN y = DOMAIN x /\ y.st = x.st /\ y.fee = x.fee /\ y.tip = x.tip
        /\ y.s = [x.s EXCEPT !.bal = @ + x.s.locked, !.locked = 0, !.unlock = 0]
    BY Zenon DEF Earn, Running
  <2>2. ClaimVesting(x, h) \in {y, Failed(x)}
    BY Zenon DEF ClaimVesting, Checked
  <2> HIDE DEF y
  <2>3. y.s.bal = x.s.bal + x.s.locked /\ y.s.locked = 0 /\ x.s.bal \in Nat /\ x.s.locked \in Nat
    BY Zenon, <2>1 DEF Running, AccountRecord
  <2>4. y.s \in AccountRecord
    <3> DEFINE b == x.s.bal + x.s.locked
               z == [x.s EXCEPT !.bal = b]
    <3>1. b \in Nat
      BY <2>3
    <3>2. y.s = [[z EXCEPT !.locked = 0] EXCEPT !.unlock = 0]
      BY Zenon, <2>1
    <3> HIDE DEF b
    <3>3. z \in AccountRecord
      BY Zenon, <3>1 DEF Running, AccountRecord
    <3> HIDE DEF z
    <3>4. \A r \in AccountRecord : [r EXCEPT !.locked = 0] \in AccountRecord
      BY Zenon DEF AccountRecord
    <3>5. \A r \in AccountRecord : [r EXCEPT !.unlock = 0] \in AccountRecord
      BY Zenon DEF AccountRecord
    <3> QED
      BY Zenon, <3>2, <3>3, <3>4, <3>5
  <2>5. Total(y.s) = Total(x.s)
    BY <2>3 DEF Total
  <2> QED
    BY <1>0, <2>1, <2>2, <2>4, <2>5, CopyKeeps
<1>2. ASSUME a.kind = "deploy" PROVE Keeps(x, Deploy(x, a), s, 0)
  <2> DEFINE y == [x EXCEPT !.s.code = a.code]
  <2>1. /\ DOMAIN y = DOMAIN x /\ y.st = x.st /\ y.fee = x.fee /\ y.tip = x.tip
        /\ y.s \in AccountRecord /\ Total(y.s) = Total(x.s)
    <3>1. a.code \in Code
      BY Zenon, <1>2, ActionAssumption
    <3> QED
      BY Zenon, <3>1 DEF Running, AccountRecord, Total
  <2>2. Deploy(x, a) \in {y, Failed(x)}
    BY Zenon DEF Deploy, Checked
  <2> HIDE DEF y
  <2> QED
    BY <1>0, <2>1, <2>2, CopyKeeps
<1>3. ASSUME a.kind = "rotateKey" PROVE Keeps(x, RotateKey(x, a, hybridOnly), s, 0)
  <2> DEFINE y == [x EXCEPT !.s.key = a.key]
  <2>1. /\ DOMAIN y = DOMAIN x /\ y.st = x.st /\ y.fee = x.fee /\ y.tip = x.tip
        /\ y.s \in AccountRecord /\ Total(y.s) = Total(x.s)
    BY Zenon, <1>3, ActionAssumption DEF Running, AccountRecord, Total
  <2>2. RotateKey(x, a, hybridOnly) \in {y, Failed(x)}
    BY Zenon DEF RotateKey, Checked
  <2> HIDE DEF y
  <2> QED
    BY <1>0, <2>1, <2>2, CopyKeeps
<1> QED
  BY Zenon, <1>1, <1>2, <1>3

LEMMA CallKeeps ==
    ASSUME NEW x, Running(x), NEW s, NEW a \in Action, a.kind = "call", NEW h
    PROVE  Keeps(x, Call(x, a, h), s, 0)
<1> DEFINE fee == a.run.gas * GasPrice
           charged == [Pay(x, fee) EXCEPT !.fee = @ + fee]
           settled == SettleContractTransfers(x.st, a.contract, a.run.cmds, h)
           w == [key \in {<<a.contract, k>> : k \in DOMAIN a.run.writes} |-> a.run.writes[key[2]]]
           written == WriteStorage(settled, a.contract, a.run.writes)
<1>0. Keeps(x, Failed(x), s, 0)
  BY Zenon, FailedKeeps
<1>1. CASE AccountOf(x.st, a.contract).code = Absent \/ a.run = Absent
  BY Zenon, <1>0, <1>1 DEF Call
<1>2. CASE ~(AccountOf(x.st, a.contract).code = Absent \/ a.run = Absent)
  <2>1. fee \in Nat /\ Len(a.run.cmds) \in Nat /\ IsFiniteSet(DOMAIN a.run.writes)
    <3>1. /\ a.run.gas \in Nat /\ IsFiniteSet(DOMAIN a.run.writes)
          /\ a.run.cmds \in Seq(Range(a.run.cmds))
      BY Zenon, <1>2, ActionAssumption
    <3>2. GasPrice \in Nat
      BY Zenon, ExecutionAssumption
    <3> QED
      BY <3>1, <3>2
  <2>2. settled = Absent \/ Moves(x.st, settled, s, 0)
    BY Zenon, <2>1, SettleStill DEF Running
  <2>3. IsFiniteSet(DOMAIN w) /\ IsMap(w)
    <3> DEFINE D == DOMAIN a.run.writes
               P == {a.contract} \X D
    <3>1. IsFiniteSet(P)
      BY Zenon, <2>1, FS_Singleton, FS_Product
    <3>2. DOMAIN w = P
      OBVIOUS
    <3> QED
      BY Zenon, <3>1, <3>2 DEF IsMap
  <2>4. written = PutAll(settled, "storage", w)
    BY Zenon DEF WriteStorage
  <2>5. \/ Call(x, a, h) = Failed(x)
        \/ x.s.bal >= fee /\ Call(x, a, h) = Failed(charged)
        \/ x.s.bal >= fee /\ settled # Absent /\ Call(x, a, h) = [charged EXCEPT !.st = written]
    <3> HIDE DEF fee, settled, written
    <3> QED
      BY Zenon, <1>2 DEF Call, Checked, fee, settled, written
  <2>6. charged = [charged EXCEPT !.st = x.st]
    BY Zenon DEF Pay, Running
  <2> HIDE DEF settled, w, fee, written
  <2>7. x.s.bal >= fee => Keeps(x, charged, s, 0)
    <3>1. Moves(x.st, x.st, s, 0)
      BY Zenon, Unmoved DEF Running
    <3>2. x.s.bal >= fee => Keeps(x, [charged EXCEPT !.st = x.st], s, 0)
      BY Zenon, <2>1, <3>1, ChargedKeeps
    <3> QED
      BY Zenon, <2>6, <3>2
  <2>8. settled # Absent => Moves(x.st, written, s, 0)
    BY <2>2, <2>3, <2>4, BatchMoves, StillTwice DEF Moves
  <2>9. x.s.bal >= fee /\ settled # Absent => Keeps(x, [charged EXCEPT !.st = written], s, 0)
    BY Zenon, <2>1, <2>8, ChargedKeeps
  <2>10. x.s.bal >= fee => Keeps(x, Failed(charged), s, 0)
    <3> HIDE DEF charged
    <3> SUFFICES ASSUME Keeps(x, charged, s, 0) PROVE Keeps(x, Failed(charged), s, 0)
      BY Zenon, <2>7
    <3>1. LET f == Failed(charged)
          IN DOMAIN f = DOMAIN charged /\ f.st = charged.st /\ f.s = charged.s /\ f.fee = charged.fee /\ f.tip = charged.tip
      BY Zenon DEF Keeps, Running, Failed
    <3> QED
      BY Zenon, <3>1, TwinKeeps
  <2> QED
    BY <1>0, <2>5, <2>9, <2>10
<1> QED
  BY Zenon, <1>1, <1>2

LEMMA DrainStill ==
    ASSUME NEW st, Native(st.led), NEW s, NEW window \in {"drain1", "drain2"}, NEW n, NEW h
    PROVE  Moves(st, Drain(st, window, n, h), s, 0)
<1>1. \A v : Moves(st, PutCell(st, window, v), s, 0)
  BY Zenon, PutCellOther DEF OtherCells, CellNames
<1> QED
  BY Zenon, <1>1, Unmoved DEF Drain

LEMMA ShieldedKeeps ==
    ASSUME NEW x, Running(x), NEW s, NEW a, a.vb \in Int, NEW h
    PROVE  Keeps(x, Shielded(x, a, h), s, 0)
<1> DEFINE in == IF a.vb < 0 THEN -a.vb ELSE 0
           out == IF a.vb > 0 THEN a.vb ELSE 0
           applied == ApplyNotes(x.st, "pool1", Range(a.nullifiers), a.outs)
           v == Cell(applied, "value1") - a.vb
           moved == IF a.vb = 0 THEN applied ELSE PutCell(applied, "value1", v)
           drained == Drain(moved, "drain1", out, h)
           y == [Earn(x, a.vb) EXCEPT !.st = drained]
<1>1. \/ Shielded(x, a, h) = Failed(x)
      \/ in <= x.s.bal /\ out <= Cell(x.st, "value1") /\ Shielded(x, a, h) = y
  <2> HIDE DEF drained
  <2> QED
    BY Zenon DEF Shielded, Checked, drained
<1>2. x.s.bal \in Nat /\ Cell(x.st, "value1") \in Nat
  BY Zenon DEF Running, AccountRecord, Native, Typed, Cell
<1>3. Moves(x.st, applied, s, 0) /\ Cell(applied, "value1") = Cell(x.st, "value1")
  BY NotesStill DEF Running
<1> HIDE DEF applied
<1>4. ASSUME in <= x.s.bal, out <= Cell(x.st, "value1") PROVE Keeps(x, y, s, 0)
  <2>1. v \in Nat /\ x.s.bal + a.vb >= 0 /\ -a.vb \in Int /\ v = Cell(applied, "value1") + (-a.vb)
    BY SMTT(30), <1>2, <1>3, <1>4
  <2>2. Moves(applied, PutCell(applied, "value1", v), s, -a.vb)
    BY Zenon, <1>3, <2>1, ValueMoves DEF Moves
  <2>3. Moves(applied, moved, s, -a.vb)
    BY <1>3, <2>2, Unmoved DEF Moves
  <2>4. Moves(x.st, moved, s, -a.vb)
    <3>1. Moves(x.st, moved, s, 0 + (-a.vb))
      BY <1>3, <2>1, <2>3, 0 \in Int, MovesTwice DEF Running
    <3> QED
      BY <2>1, <3>1
  <2> HIDE DEF moved, out
  <2>5. Moves(moved, drained, s, 0)
    BY <2>4, DrainStill DEF Moves
  <2> HIDE DEF drained
  <2>6. Moves(x.st, drained, s, -a.vb)
    BY Zenon, <2>4, <2>5, MovesOn
  <2>7. Affords(x, a.vb) /\ Offsets(-a.vb, a.vb, 0) /\ 0 \in Int
    BY <1>2, <2>1 DEF Affords, Offsets
  <2> QED
    BY Zenon, <2>1, <2>6, <2>7, Earned
<1> QED
  BY Zenon, <1>1, <1>4, FailedKeeps

LEMMA ShieldedV2Keeps ==
    ASSUME NEW x, Running(x), NEW s, NEW a, a.in \in Nat, a.out \in Nat, NEW h,
           NEW deferred \in Nat, deferred = 0 \/ (a.in = 0 /\ x.s.bal + a.out >= deferred)
    PROVE  LET y == ShieldedV2(x, a, deferred, h) IN Keeps(x, y, s, deferred) \/ y = Reject(x)
<1> DEFINE applied == ApplyNotes(x.st, "pool2", Range(a.nullifiers), a.outs)
           v == Cell(applied, "value2") + a.in
           shielded == IF a.in = 0 THEN applied ELSE PutCell(applied, "value2", v)
           w == Cell(shielded, "value2") - a.out
           paid == IF a.out = 0 THEN shielded ELSE PutCell(shielded, "value2", w)
           drained == Drain(paid, "drain2", a.out, h)
           n == a.out - a.in - deferred
           y == [Earn(x, n) EXCEPT !.st = drained]
<1>1. \/ ShieldedV2(x, a, deferred, h) = Reject(x)
      \/ /\ a.in <= x.s.bal /\ a.out <= Cell(x.st, "value2") + a.in
         /\ ShieldedV2(x, a, deferred, h) = y
  <2> HIDE DEF drained
  <2> QED
    BY Zenon DEF ShieldedV2, V2Acceptable, drained
<1> SUFFICES ASSUME a.in <= x.s.bal, a.out <= Cell(x.st, "value2") + a.in PROVE Keeps(x, y, s, deferred)
  BY Zenon, <1>1
<1>2. x.s.bal \in Nat /\ Cell(x.st, "value2") \in Nat
  BY Zenon DEF Running, AccountRecord, Native, Typed, Cell
<1>3. Moves(x.st, applied, s, 0) /\ Cell(applied, "value2") = Cell(x.st, "value2")
  BY NotesStill DEF Running
<1> HIDE DEF applied
<1>4. Moves(applied, shielded, s, a.in) /\ Cell(shielded, "value2") = Cell(x.st, "value2") + a.in
  <2>1. Moves(applied, PutCell(applied, "value2", v), s, a.in)
    BY SMTT(30), <1>2, <1>3, ValueMoves DEF Moves
  <2>2. Cell(PutCell(applied, "value2", v), "value2") = v
    BY Zenon, <1>3 DEF Cell, PutCell, Moves, Native, Typed, Shape, CellNames
  <2> QED
    BY SMTT(30), <1>2, <1>3, <2>1, <2>2, Unmoved DEF Moves
<1> HIDE DEF shielded
<1>5. Moves(shielded, paid, s, -a.out)
  <2>1. w \in Nat /\ w = Cell(shielded, "value2") + (-a.out) /\ -a.out \in Int
    BY SMTT(30), <1>2, <1>4
  <2>2. Moves(shielded, PutCell(shielded, "value2", w), s, -a.out)
    BY <1>4, <2>1, ValueMoves DEF Moves
  <2> QED
    BY SMTT(30), <1>4, <2>2, Unmoved DEF Moves
<1> HIDE DEF paid
<1>6. Moves(x.st, paid, s, a.in - a.out)
  <2>1. Moves(x.st, shielded, s, 0 + a.in) /\ a.in \in Int /\ -a.out \in Int
    BY <1>2, <1>3, <1>4, 0 \in Int, MovesTwice DEF Running
  <2>2. Moves(x.st, paid, s, (0 + a.in) + (-a.out)) /\ (0 + a.in) + (-a.out) = a.in - a.out
    BY <1>2, <1>5, <2>1, 0 + a.in \in Int, MovesTwice DEF Running
  <2> QED
    BY Zenon, <2>2
<1>7. Moves(x.st, drained, s, a.in - a.out)
  BY SMTT(30), <1>6, DrainStill, MovesOn DEF Moves
<1> HIDE DEF drained
<1>8. n \in Int /\ deferred \in Int /\ a.in - a.out \in Int /\ Affords(x, n) /\ Offsets(a.in - a.out, n, deferred)
  BY <1>2 DEF Affords, Offsets
<1> HIDE DEF n
<1> QED
  BY Zenon, <1>7, <1>8, Earned

LEMMA HtlcLockKeeps ==
    ASSUME NEW x, Running(x), NEW s, NEW tx, tx.signer \in Account, NEW a \in Action, a.kind = "htlcLock"
    PROVE  Keeps(x, HtlcLock(x, tx, a), s, 0)
<1> DEFINE id == <<tx.signer, tx.nonce>>
           t == [locker |-> tx.signer, to |-> a.to, amount |-> a.amount, lock |-> a.lock, timeout |-> a.timeout]
           st == LockHtlc(x.st, id, t)
           y == [Pay(x, a.amount) EXCEPT !.st = st]
<1>1. a.amount \in Nat /\ t.amount = a.amount /\ t # Absent
  <2>1. a.amount \in Nat /\ a.to \in Account
    BY Zenon, ActionAssumption
  <2> QED
    BY <2>1, AbsentAssumption
<1>2. \/ HtlcLock(x, tx, a) = Failed(x)
      \/ x.s.bal >= a.amount /\ id \notin DOMAIN x.st.led.htlcs /\ HtlcLock(x, tx, a) = y
  <2>1. Pay(x, a.amount).st = x.st
    BY Zenon DEF Pay, Running
  <2> QED
    BY Zenon, <2>1 DEF HtlcLock, Checked
<1> HIDE DEF t, id
<1>3. id \notin DOMAIN x.st.led.htlcs => Moves(x.st, st, s, a.amount)
  BY Zenon, <1>1, LockMoves DEF Running
<1> HIDE DEF st
<1> QED
  BY <1>1, <1>2, <1>3, Paid, FailedKeeps

LEMMA SettleKeeps ==
    ASSUME NEW x, Running(x), NEW s, NEW id \in DOMAIN x.st.led.htlcs
    PROVE  Keeps(x, Settle(x, id), s, 0)
<1> DEFINE n == x.st.led.htlcs[id].amount
           st == SettleHtlc(x.st, id)
<1>1. Moves(x.st, st, s, -n) /\ n \in Nat
  BY Zenon, SettleMoves DEF Running
<1>2. Settle(x, id) = [Earn(x, n) EXCEPT !.st = st]
  BY Zenon DEF Settle, Earn, Running
<1>3. n \in Int /\ -n \in Int /\ 0 \in Int /\ Affords(x, n) /\ Offsets(-n, n, 0)
  BY SMTT(30), <1>1 DEF Affords, Offsets, Running, AccountRecord
<1> HIDE DEF n, st
<1>4. Keeps(x, [Earn(x, n) EXCEPT !.st = st], s, 0)
  BY Zenon, <1>1, <1>3, Earned
<1> QED
  BY Zenon, <1>2, <1>4

LEMMA HtlcSettleKeeps ==
    ASSUME NEW x, Running(x), NEW s, NEW tx, NEW a, NEW h
    PROVE  Keeps(x, HtlcClaim(x, tx, a, h), s, 0) /\ Keeps(x, HtlcRefund(x, tx, a, h), s, 0)
<1>1. /\ \/ HtlcClaim(x, tx, a, h) = Failed(x)
         \/ a.id \in DOMAIN x.st.led.htlcs /\ HtlcClaim(x, tx, a, h) = Settle(x, a.id)
      /\ \/ HtlcRefund(x, tx, a, h) = Failed(x)
         \/ a.id \in DOMAIN x.st.led.htlcs /\ HtlcRefund(x, tx, a, h) = Settle(x, a.id)
  BY Zenon DEF HtlcClaim, HtlcRefund, Checked
<1> QED
  BY Zenon, <1>1, FailedKeeps, SettleKeeps

LEMMA LegStill ==
    ASSUME NEW st, Native(st.led), NEW s, NEW asset, NEW from, NEW to, NEW amount, NEW h
    PROVE  Moves(st, TokenLeg(st, asset, from, to, amount, h), s, 0)
BY Zenon, MovedStill, Unmoved DEF TokenLeg

LEMMA IntentKeeps ==
    ASSUME NEW x, Running(x), NEW tx, NEW a, NEW h,
           a.intent.owner \in Account, a.intent.amount \in Nat, a.deliver \in Nat
    PROVE  Keeps(x, IntentSettle(x, tx, a, h), tx.signer, 0)
<1> DEFINE s == tx.signer
           i == a.intent
           given == IF i.give = Sov THEN i.amount ELSE 0
           got == IF i.want = Sov THEN a.deliver ELSE 0
           native == given - got
           owner == AccountOf(x.st, i.owner)
           st1 == SetAccount(x.st, i.owner, [owner EXCEPT !.bal = @ - native])
           st2 == TokenLeg(st1, i.give, i.owner, s, i.amount, h)
           st3 == TokenLeg(st2, i.want, s, i.owner, a.deliver, h)
           st4 == Put(st3, "intents", i, TRUE)
           y == [Earn(x, native) EXCEPT !.st = st4]
<1>1. SettleLegs(x, tx, a, h) = y
  BY Zenon DEF SettleLegs
<1>2. \/ IntentSettle(x, tx, a, h) = Failed(x)
      \/ /\ i.owner # s /\ (i.give = Sov => owner.bal >= i.amount) /\ (i.want = Sov => x.s.bal >= a.deliver)
         /\ IntentSettle(x, tx, a, h) = SettleLegs(x, tx, a, h)
  BY Zenon DEF IntentSettle, Checked, LegAllowed
<1>3. owner \in AccountRecord /\ owner.bal \in Nat /\ x.s.bal \in Nat
  BY Zenon, AccountType DEF Running, AccountRecord
<1> SUFFICES ASSUME i.owner # s, i.give = Sov => owner.bal >= i.amount, i.want = Sov => x.s.bal >= a.deliver
             PROVE  Keeps(x, y, s, 0)
  BY Zenon, <1>1, <1>2, FailedKeeps
<1>4. native \in Int /\ -native \in Int /\ 0 \in Int /\ Affords(x, native) /\ Offsets(-native, native, 0)
      /\ owner.bal + (-native) >= 0 /\ owner.bal - native = owner.bal + (-native)
  BY <1>3 DEF Affords, Offsets
<1> HIDE DEF native
<1>5. Credited(x.st, st1, i.owner, -native)
  <2>1. [owner EXCEPT !.bal = @ - native] = [owner EXCEPT !.bal = @ + (-native)]
    BY Zenon, <1>4
  <2>2. Credited(x.st, SetAccount(x.st, i.owner, [owner EXCEPT !.bal = @ + (-native)]), i.owner, -native)
    BY Zenon, <1>4, CreditAdds DEF Running
  <2> QED
    BY Zenon, <2>1, <2>2
<1> HIDE DEF st1
<1>6. Moves(x.st, st1, s, -native)
  BY Zenon, <1>5 DEF Credited, Moves
<1>7. Moves(st1, st2, s, 0)
  <2>1. Native(st1.led)
    BY Zenon, <1>6 DEF Moves
  <2> QED
    BY Zenon, <2>1, LegStill
<1> HIDE DEF st2
<1>8. Moves(st2, st3, s, 0)
  <2>1. Native(st2.led)
    BY Zenon, <1>7 DEF Moves
  <2> QED
    BY Zenon, <2>1, LegStill
<1> HIDE DEF st3
<1>9. Moves(st3, st4, s, 0)
  <2>1. Native(st3.led) /\ "intents" \in OtherMaps
    BY Zenon, <1>8 DEF Moves, OtherMaps, MapNames
  <2> QED
    BY Zenon, <2>1, PutOther
<1> HIDE DEF st4
<1>10. Moves(x.st, st4, s, -native)
  BY SMTT(30), <1>6, <1>7, <1>8, <1>9, MovesOn
<1> QED
  BY Zenon, <1>4, <1>10, Earned

LEMMA IntentCancelKeeps ==
    ASSUME NEW x, Running(x), NEW s, NEW tx, NEW a
    PROVE  Keeps(x, IntentCancel(x, tx, a), s, 0)
<1>1. Moves(x.st, Put(x.st, "intents", a.intent, TRUE), s, 0)
  BY Zenon, PutOther DEF Running, OtherMaps, MapNames
<1>2. IntentCancel(x, tx, a) \in {[x EXCEPT !.st = Put(x.st, "intents", a.intent, TRUE)], Failed(x)}
  BY Zenon DEF IntentCancel, Checked
<1>3. Keeps(x, [x EXCEPT !.st = Put(x.st, "intents", a.intent, TRUE)], s, 0)
  BY Zenon, <1>1, Same
<1> QED
  BY Zenon, <1>2, <1>3, FailedKeeps

LEMMA NamesKeep ==
    ASSUME NEW x, Running(x), NEW s, NEW tx, tx.signer \in Account, NEW a \in Action
    PROVE  /\ a.kind = "registerName" => Keeps(x, RegisterName(x, tx, a), s, 0)
           /\ a.kind = "transferName" => Keeps(x, TransferName(x, tx, a), s, 0)
           /\ a.kind = "nftMint" => Keeps(x, NftMint(x, tx, a), s, 0)
           /\ a.kind = "nftTransfer" => Keeps(x, NftTransfer(x, tx, a), s, 0)
           /\ a.kind = "nftSetMeta" => Keeps(x, NftSetMeta(x, tx, a), s, 0)
<1>0. Keeps(x, Failed(x), s, 0) /\ Native(x.st.led)
  BY Zenon, FailedKeeps DEF Running
<1>1. \A k : \A v \in NftRecord : Keeps(x, [x EXCEPT !.st = Put(x.st, "nfts", k, v)], s, 0)
  BY Zenon, <1>0, NftMoves, Same
<1>2. Keeps(x, RegisterName(x, tx, a), s, 0)
  <2> DEFINE v == [owner |-> tx.signer, meta |-> Absent]
             st == Put(x.st, "nfts", <<Sns, a.name>>, v)
             y == [[Pay(x, NameFee) EXCEPT !.fee = @ + NameFee] EXCEPT !.st = st]
  <2>1. Moves(x.st, st, s, 0)
    <3>1. v \in NftRecord
      BY Zenon DEF NftRecord
    <3> HIDE DEF v
    <3> QED
      BY <1>0, <3>1, NftMoves
  <2>2. \/ RegisterName(x, tx, a) = Failed(x)
        \/ x.s.bal >= NameFee /\ RegisterName(x, tx, a) = y
    BY Zenon DEF RegisterName, Checked, MintNft, Pay, Running
  <2> HIDE DEF st
  <2>3. NameFee \in Nat
    BY Zenon, ExecutionAssumption
  <2>4. x.s.bal >= NameFee => Keeps(x, y, s, 0)
    BY Zenon, <2>1, <2>3, ChargedKeeps
  <2> HIDE DEF y
  <2> QED
    BY Zenon, <1>0, <2>2, <2>4
<1>3. ASSUME NEW class, NEW id, NEW to \in Account, NEW ok, ok => NftOwner(x.st, class, id) = tx.signer
      PROVE  Keeps(x, Checked(ok, x, [x EXCEPT !.st = TransferNft(x.st, class, id, to)]), s, 0)
  <2>1. ok => [x.st.led.nfts[<<class, id>>] EXCEPT !.owner = to] \in NftRecord
    BY <1>0, <1>3, OwnedNft DEF NftRecord
  <2> QED
    BY <1>0, <1>1, <2>1 DEF Checked, TransferNft
<1>4. ASSUME a.kind = "transferName" PROVE Keeps(x, TransferName(x, tx, a), s, 0)
  BY Zenon, <1>3, <1>4, ActionAssumption DEF TransferName
<1>5. ASSUME a.kind = "nftTransfer" PROVE Keeps(x, NftTransfer(x, tx, a), s, 0)
  BY Zenon, <1>3, <1>5, ActionAssumption DEF NftTransfer
<1>6. ASSUME a.kind = "nftSetMeta" PROVE Keeps(x, NftSetMeta(x, tx, a), s, 0)
  <2> DEFINE v == [x.st.led.nfts[<<a.class, a.id>>] EXCEPT !.meta = a.meta]
  <2>1. NftOwner(x.st, a.class, a.id) = tx.signer => v \in NftRecord
    BY <1>0, <1>6, OwnedNft, ActionAssumption DEF NftRecord
  <2> HIDE DEF v
  <2> QED
    BY Zenon, <1>0, <1>1, <2>1 DEF Checked, SetNftMeta, NftSetMeta, v
<1>7. ASSUME a.kind = "nftMint" PROVE Keeps(x, NftMint(x, tx, a), s, 0)
  <2> DEFINE class == <<tx.signer, a.symbol>>
             v == [owner |-> a.to, meta |-> a.meta]
             st == Put(x.st, "nfts", <<class, a.id>>, v)
             n == GetOr(x.st.led.classes, class, 0) + 1
             st2 == Put(st, "classes", class, n)
  <2>1. v \in NftRecord
    BY Zenon, <1>7, ActionAssumption DEF NftRecord
  <2>2. NftMint(x, tx, a) \in {[x EXCEPT !.st = st2], Failed(x)}
    BY Zenon DEF NftMint, Checked, MintNft
  <2> HIDE DEF v, n, class
  <2>3. Moves(x.st, st, s, 0)
    BY <1>0, <2>1, NftMoves
  <2>4. Native(st.led) /\ "classes" \in OtherMaps
    BY Zenon, <2>3 DEF Moves, OtherMaps, MapNames
  <2> HIDE DEF st
  <2>5. Moves(st, st2, s, 0)
    BY <2>4, PutOther
  <2> HIDE DEF st2
  <2>6. Keeps(x, [x EXCEPT !.st = st2], s, 0)
    BY <2>3, <2>5, StillTwice, Same
  <2> QED
    BY Zenon, <1>0, <2>2, <2>6
<1> QED
  BY <1>2, <1>4, <1>5, <1>6, <1>7

LEMMA SetMultisigKeeps ==
    ASSUME NEW x, Running(x), NEW s, NEW tx, NEW a, NEW hybridOnly
    PROVE  Keeps(x, SetMultisig(x, tx, a, hybridOnly), s, 0)
<1> DEFINE put == Put(x.st, "multisig", tx.signer, [signers |-> a.signers, threshold |-> a.threshold])
           st == RemoveProposalsFor(put, tx.signer)
<1>1. SetMultisig(x, tx, a, hybridOnly) \in {[x EXCEPT !.st = st], Failed(x)}
  BY Zenon DEF SetMultisig, Checked
<1>2. Moves(x.st, put, s, 0)
  BY Zenon, PutOther DEF Running, OtherMaps, MapNames
<1> HIDE DEF put
<1>3. Moves(put, st, s, 0)
  BY Zenon, <1>2, RemoveMoves DEF Moves
<1> HIDE DEF st
<1>4. Keeps(x, [x EXCEPT !.st = st], s, 0)
  BY <1>2, <1>3, StillTwice, Same
<1> QED
  BY <1>1, <1>4, FailedKeeps

\* Whether the action runs a stored transfer that writes the signer.
Hits(st, tx, a) ==
  LET run == IF a.kind = "propose" THEN a.inner
             ELSE IF a.kind = "approve" /\ a.proposal \in DOMAIN st.led.proposals
                  THEN st.led.proposals[a.proposal].act ELSE Absent
  IN run # Absent /\ run.kind = "transfer" /\ tx.signer \in {a.account, ResolveRecipient(st, run.to)}

LEMMA ExecuteKeeps ==
    ASSUME NEW x, Running(x), NEW account \in Account, NEW a \in Action, a.kind = "transfer"
    PROVE  LET y == ExecuteProposal(x, account, a)
           IN /\ Running(y) /\ Journals(x.st, y.st)
              /\ \A s : s \notin {account, ResolveRecipient(x.st, a.to)} => Keeps(x, y, s, 0)
<1> DEFINE y == ExecuteProposal(x, account, a)
<1>1. /\ DOMAIN y = DOMAIN x /\ y.s = x.s /\ y.fee = x.fee /\ y.tip = x.tip
      /\ Native(y.st.led) /\ Journals(x.st, y.st)
      /\ \A s : s \notin {account, ResolveRecipient(x.st, a.to)} => Moves(x.st, y.st, s, 0)
  BY Zenon, ExecuteMoves, ActionAssumption
<1> HIDE DEF y
<1>2. Running(y)
  BY Zenon, <1>1 DEF Running
<1>3. ASSUME NEW s, Moves(x.st, y.st, s, 0) PROVE Keeps(x, y, s, 0)
  BY <1>1, <1>2, <1>3, WealthType DEF Keeps, Wealth, Moves
<1> QED
  BY <1>1, <1>2, <1>3 DEF y

\* Carried through; and unless it pays a stored transfer from or to the
\* signer, no coin is made or lost.
Settles(x, y, tx, a, e) ==
  /\ Running(y) /\ Journals(x.st, y.st)
  /\ ~Hits(x.st, tx, a) => Keeps(x, y, tx.signer, e)

LEMMA ProposeKeeps ==
    ASSUME NEW x, Running(x), NEW tx, NEW a \in Action, a.kind = "propose", NEW h
    PROVE  Settles(x, ProposeMultisig(x, tx, a, h), tx, a, 0)
<1> DEFINE s == tx.signer
           v == [account |-> a.account, act |-> a.inner,
                 approvers |-> <<Position(MultisigOf(x.st, a.account), tx.key)>>]
           p == Put(x.st, "proposals", ProposalId(tx, a), v)
           z == [x EXCEPT !.st = p]
           y == ExecuteProposal(x, a.account, a.inner)
<1>1. a.account \in Account /\ a.inner \in Action /\ a.inner # Absent
  BY Zenon, ActionAssumption, LedgerAssumption DEF Carriers
<1>2. \/ ProposeMultisig(x, tx, a, h) = Failed(x)
      \/ a.inner.kind = "transfer" /\ ProposeMultisig(x, tx, a, h) \in {y, z}
  BY Zenon DEF ProposeMultisig, Checked
<1>3. Keeps(x, Failed(x), s, 0)
  BY Zenon, FailedKeeps
<1>4. a.inner.kind = "transfer" => StoredProposal(v)
  BY Zenon, <1>1 DEF StoredProposal
<1> HIDE DEF v
<1>5. a.inner.kind = "transfer" => Moves(x.st, p, s, 0)
  BY Zenon, <1>4, ProposalMoves DEF Running
<1> HIDE DEF p
<1>6. a.inner.kind = "transfer" => Keeps(x, z, s, 0)
  BY <1>5, Same
<1>7. a.inner.kind = "transfer" =>
        /\ Running(y) /\ Journals(x.st, y.st)
        /\ s \notin {a.account, ResolveRecipient(x.st, a.inner.to)} => Keeps(x, y, s, 0)
  BY Zenon, <1>1, ExecuteKeeps
<1> HIDE DEF y, z
<1>8. a.inner.kind = "transfer" /\ ~Hits(x.st, tx, a) => s \notin {a.account, ResolveRecipient(x.st, a.inner.to)}
  BY Zenon, <1>1 DEF Hits
<1> QED
  BY Zenon, <1>2, <1>3, <1>6, <1>7, <1>8 DEF Settles, Keeps

LEMMA ApproveKeeps ==
    ASSUME NEW x, Running(x), NEW tx, NEW a \in Action, a.kind = "approve", NEW h
    PROVE  Settles(x, ApproveMultisig(x, tx, a, h), tx, a, 0)
<1> DEFINE s == tx.signer
           v == Get(x.st.led.proposals, a.proposal)
           w == [v EXCEPT !.approvers = Approvers(x.st, tx, a.account, v, h)]
           p == Put(x.st, "proposals", a.proposal, w)
           z == [x EXCEPT !.st = p]
           y == ExecuteProposal(x, a.account, v.act)
           q == Put(y.st, "proposals", a.proposal, Absent)
           c == [y EXCEPT !.st = q]
<1>1. a.account \in Account
  BY Zenon, ActionAssumption
<1>2. \/ ApproveMultisig(x, tx, a, h) = Failed(x)
      \/ v # Absent /\ ApproveMultisig(x, tx, a, h) \in {c, z}
  BY Zenon DEF ApproveMultisig, Checked
<1>3. Keeps(x, Failed(x), s, 0)
  BY Zenon, FailedKeeps
<1> SUFFICES ASSUME v # Absent PROVE Settles(x, c, tx, a, 0) /\ Keeps(x, z, s, 0)
  <2> HIDE DEF c, z, v
  <2> QED
    BY Zenon, <1>2, <1>3 DEF Settles, Keeps
<1>4. /\ a.proposal \in DOMAIN x.st.led.proposals /\ v = x.st.led.proposals[a.proposal]
      /\ StoredProposal(v)
  BY Zenon DEF Get, GetOr, Running, Native, Typed, StoredProposal
<1>5. Hits(x.st, tx, a) <=> s \in {a.account, ResolveRecipient(x.st, v.act.to)}
  BY Zenon, <1>4, LedgerAssumption DEF Hits, StoredProposal
<1>6. v.act \in Action /\ v.act.kind = "transfer" /\ StoredProposal(w)
  BY Zenon, <1>4 DEF StoredProposal
<1> HIDE DEF v, w
<1>7. Moves(x.st, p, s, 0)
  BY Zenon, <1>6, ProposalMoves DEF Running
<1> HIDE DEF p
<1>8. Keeps(x, z, s, 0)
  BY Zenon, <1>7, Same
<1>9. /\ Running(y) /\ Journals(x.st, y.st)
      /\ s \notin {a.account, ResolveRecipient(x.st, v.act.to)} => Keeps(x, y, s, 0)
  BY Zenon, <1>1, <1>6, ExecuteKeeps
<1> HIDE DEF y
<1>10. Moves(y.st, q, s, 0)
  BY Zenon, <1>9, ProposalMoves DEF Running
<1> HIDE DEF q
<1>11. Keeps(y, c, s, 0)
  BY <1>9, <1>10, Same
<1> HIDE DEF c, z
<1>12. Running(c) /\ Journals(x.st, c.st)
  BY Zenon, <1>9, <1>11 DEF Keeps, Journals
<1> QED
  BY Zenon, <1>5, <1>8, <1>9, <1>11, <1>12, KeepsTwice DEF Settles

LEMMA CancelKeeps ==
    ASSUME NEW x, Running(x), NEW s, NEW tx, NEW a, NEW h
    PROVE  Keeps(x, CancelMultisig(x, tx, a, h), s, 0)
<1> DEFINE p == Put(x.st, "proposals", a.proposal, Absent)
<1>1. Moves(x.st, p, s, 0)
  BY Zenon, ProposalMoves DEF Running
<1>2. CancelMultisig(x, tx, a, h) \in {Failed(x), [x EXCEPT !.st = p]}
  BY Zenon DEF CancelMultisig, Checked
<1> HIDE DEF p
<1> QED
  BY <1>1, <1>2, Same, FailedKeeps

LEMMA OracleKeeps ==
    ASSUME NEW x, Running(x), NEW s, NEW tx, NEW a
    PROVE  Keeps(x, OracleUpdate(x, tx, a), s, 0)
<1> DEFINE p == PutCell(x.st, "oracle", a.price)
<1>1. Moves(x.st, p, s, 0)
  BY Zenon, PutCellOther DEF Running, OtherCells, CellNames
<1>2. OracleUpdate(x, tx, a) \in {Failed(x), [x EXCEPT !.st = p]}
  BY Zenon DEF OracleUpdate, Checked
<1> HIDE DEF p
<1> QED
  BY <1>1, <1>2, Same, FailedKeeps

LEMMA VaultDepositKeeps ==
    ASSUME NEW x, Running(x), NEW s, NEW tx, NEW a, a.amount \in Nat
    PROVE  Keeps(x, VaultDeposit(x, tx, a), s, 0)
<1> DEFINE o == VaultOf(x.st, tx.signer)
           v == [o EXCEPT !.collateral = @ + a.amount]
           p == SetVault(x.st, tx.signer, v)
<1>1. v \in VaultRecord /\ v.collateral - o.collateral = a.amount
  BY VaultType DEF Running, VaultRecord
<1>2. \/ VaultDeposit(x, tx, a) = Failed(x)
      \/ x.s.bal >= a.amount /\ VaultDeposit(x, tx, a) = [Pay(x, a.amount) EXCEPT !.st = p]
  BY Zenon DEF VaultDeposit, Checked, Pay
<1> HIDE DEF v, o
<1>3. Moves(x.st, p, s, a.amount)
  BY Zenon, <1>1, SetVaultMoves DEF Running, o
<1> HIDE DEF p
<1>4. x.s.bal >= a.amount => Keeps(x, [Pay(x, a.amount) EXCEPT !.st = p], s, 0)
  BY Zenon, <1>3, Paid
<1> QED
  BY Zenon, <1>2, <1>4, FailedKeeps

LEMMA VaultWithdrawKeeps ==
    ASSUME NEW x, Running(x), NEW s, NEW tx, NEW a, a.amount \in Nat
    PROVE  Keeps(x, VaultWithdraw(x, tx, a), s, 0)
<1> DEFINE o == VaultOf(x.st, tx.signer)
           v == [o EXCEPT !.collateral = @ - a.amount]
           p == SetVault(x.st, tx.signer, v)
           d == -a.amount
<1>1. v.collateral >= 0 => v \in VaultRecord /\ v.collateral - o.collateral = d
  BY VaultType DEF Running, VaultRecord
<1>2. \/ VaultWithdraw(x, tx, a) = Failed(x)
      \/ v.collateral >= 0 /\ VaultWithdraw(x, tx, a) = [Earn(x, a.amount) EXCEPT !.st = p]
  BY Zenon DEF VaultWithdraw, Checked, Earn
<1>3. d \in Int /\ a.amount \in Int /\ 0 \in Int /\ Affords(x, a.amount) /\ Offsets(d, a.amount, 0)
  BY SMTT(30) DEF Affords, Offsets, Running, AccountRecord
<1> HIDE DEF v, o, d
<1>4. v.collateral >= 0 => Moves(x.st, p, s, d)
  BY Zenon, <1>1, SetVaultMoves DEF Running, o
<1> HIDE DEF p
<1>5. v.collateral >= 0 => Keeps(x, [Earn(x, a.amount) EXCEPT !.st = p], s, 0)
  BY Zenon, <1>3, <1>4, Earned
<1> QED
  BY Zenon, <1>2, <1>5, FailedKeeps

LEMMA DebtStill ==
    ASSUME NEW st, Native(st.led), NEW s, NEW tx, NEW info, NEW held, NEW debt \in Nat
    PROVE  Moves(st, SetVault(SetTokenBalance(SetToken(st, XUSD, info), XUSD, tx.signer, held), tx.signer,
                              [VaultOf(st, tx.signer) EXCEPT !.debt = debt]), s, 0)
<1> DEFINE st1 == SetToken(st, XUSD, info)
           st2 == SetTokenBalance(st1, XUSD, tx.signer, held)
           o == VaultOf(st, tx.signer)
           v == [o EXCEPT !.debt = debt]
           st3 == SetVault(st2, tx.signer, v)
<1>1. st1.led.vaults = st.led.vaults /\ st2.led.vaults = st1.led.vaults
  BY Zenon DEF SetToken, SetTokenBalance, Put, Native, Typed, Shape, MapNames
<1>2. VaultOf(st2, tx.signer) = o
  BY Zenon, <1>1 DEF VaultOf
<1>3. v \in VaultRecord /\ v.collateral - o.collateral = 0
  BY VaultType DEF VaultRecord
<1> HIDE DEF st1
<1>4. Moves(st, st1, s, 0)
  BY Zenon, TokensStill DEF st1
<1>5. Native(st1.led)
  BY Zenon, <1>4 DEF Moves
<1> HIDE DEF st2
<1>6. Moves(st1, st2, s, 0)
  BY Zenon, <1>5, TokensStill DEF st2
<1>7. Native(st2.led)
  BY Zenon, <1>6 DEF Moves
<1> HIDE DEF v, o
<1>8. Moves(st2, st3, s, 0)
  BY <1>2, <1>3, <1>7, SetVaultMoves
<1> HIDE DEF st3
<1>9. Moves(st, st2, s, 0)
  BY Zenon, <1>4, <1>6, StillTwice
<1>10. Moves(st, st3, s, 0)
  BY <1>8, <1>9, StillTwice
<1> QED
  BY Zenon, <1>10 DEF st3, st2, st1, v, o

LEMMA VaultDebtKeeps ==
    ASSUME NEW x, Running(x), NEW s, NEW tx, NEW a, a.amount \in Nat
    PROVE  Keeps(x, VaultMint(x, tx, a), s, 0) /\ Keeps(x, VaultBurn(x, tx, a), s, 0)
<1> DEFINE o == VaultOf(x.st, tx.signer)
           at(i, b, n) == SetVault(SetTokenBalance(SetToken(x.st, XUSD, i), XUSD, tx.signer, b), tx.signer,
                                   [o EXCEPT !.debt = n])
<1>1. /\ o.debt + a.amount \in Nat /\ (o.debt - a.amount >= 0 => o.debt - a.amount \in Nat)
      /\ [o EXCEPT !.debt = @ - a.amount].debt = o.debt - a.amount
      /\ Native(x.st.led)
  BY VaultType DEF Running, VaultRecord
<1>2. \/ VaultMint(x, tx, a) = Failed(x)
      \/ \E i, b : VaultMint(x, tx, a) = [x EXCEPT !.st = at(i, b, o.debt + a.amount)]
  BY Zenon DEF VaultMint, Checked
<1>3. \/ VaultBurn(x, tx, a) = Failed(x)
      \/ /\ o.debt - a.amount >= 0
         /\ \E i, b : VaultBurn(x, tx, a) = [x EXCEPT !.st = at(i, b, o.debt - a.amount)]
  BY Zenon, <1>1 DEF VaultBurn, Checked
<1>4. ASSUME NEW i, NEW b, NEW n \in Nat PROVE Moves(x.st, at(i, b, n), s, 0)
  BY Zenon, <1>1, DebtStill
<1> HIDE DEF at, o
<1>5. ASSUME NEW i, NEW b, NEW n \in Nat PROVE Keeps(x, [x EXCEPT !.st = at(i, b, n)], s, 0)
  BY Zenon, <1>4, Same
<1> QED
  BY <1>1, <1>2, <1>3, <1>5, FailedKeeps

-----------------------------------------------------------------------------
(* One transaction. *)

LEMMA DispatchKeeps ==
    ASSUME NEW x, Running(x), NEW tx, tx.signer \in Account, NEW a \in Action, NEW hybridOnly, NEW h,
           NEW deferred \in Nat,
           deferred = 0 \/ (a.kind = "shieldedV2" /\ a.in = 0 /\ x.s.bal + a.out >= deferred)
    PROVE  LET y == Dispatch(x, tx, a, deferred, hybridOnly, h)
           IN y.res = "reject" \/ Settles(x, y, tx, a, deferred)
<1> DEFINE s == tx.signer
           y == Dispatch(x, tx, a, deferred, hybridOnly, h)
<1>1. /\ a.kind \in Kinds
      /\ a.kind \in {"transfer", "htlcLock", "vaultDeposit", "vaultWithdraw", "vaultMint", "vaultBurn"}
           => a.amount \in Nat
      /\ a.kind = "transfer" => a.to \in Account
      /\ a.kind = "shielded" => a.vb \in Int
      /\ a.kind = "shieldedV2" => a.in \in Nat /\ a.out \in Nat
      /\ a.kind = "intentSettle" => a.intent.owner \in Account /\ a.intent.amount \in Nat /\ a.deliver \in Nat
  BY Zenon, ActionAssumption
<1>2. ASSUME a.kind = "shieldedV2" PROVE y.res = "reject" \/ Keeps(x, y, s, deferred)
  <2>1. y = ShieldedV2(x, a, deferred, h)
    BY Zenon, <1>2 DEF Dispatch
  <2>2. Keeps(x, y, s, deferred) \/ y = Reject(x)
    BY Zenon, <1>1, <1>2, <2>1, ShieldedV2Keeps
  <2> QED
    BY Zenon, <2>2, FailedKeeps
<1>3. ASSUME a.kind \in {"propose", "approve"} PROVE Settles(x, y, tx, a, 0)
  BY Zenon, <1>3, ProposeKeeps, ApproveKeeps DEF Dispatch
<1>4. ASSUME a.kind \in {"transfer", "claimVesting", "deploy", "rotateKey", "call", "shielded", "intentSettle"}
      PROVE  Keeps(x, y, s, 0)
  BY SMTT(30), <1>1, <1>4, PlainTransferKeeps, CopiesKeep, CallKeeps, ShieldedKeeps, IntentKeeps DEF Dispatch
<1>5. ASSUME a.kind \in {"htlcLock", "htlcClaim", "htlcRefund", "tokenIssue", "tokenTransfer", "tokenBurn",
                         "tokenSetPolicy", "intentCancel"}
      PROVE  Keeps(x, y, s, 0)
  BY SMTT(30), <1>5, HtlcLockKeeps, HtlcSettleKeeps, TokenIssueKeeps, TokenTransferKeeps, TokenBurnKeeps, TokenSetPolicyKeeps,
     IntentCancelKeeps DEF Dispatch
<1>6. ASSUME a.kind \in {"registerName", "transferName", "nftMint", "nftTransfer", "nftSetMeta", "setMultisig", "cancel",
                         "vaultDeposit", "vaultWithdraw", "vaultMint", "vaultBurn", "oracleUpdate"}
      PROVE  Keeps(x, y, s, 0)
  BY SMTT(30), <1>1, <1>6, NamesKeep, SetMultisigKeeps, CancelKeeps, VaultDepositKeeps, VaultWithdrawKeeps, VaultDebtKeeps,
     OracleKeeps DEF Dispatch
<1>7. ASSUME a.kind \in {"exec", "tipped", "timestamped"} PROVE y.res = "reject" \/ Keeps(x, y, s, 0)
  BY Zenon, <1>7, FailedKeeps DEF Dispatch
<1> HIDE DEF y
<1> QED
  BY Zenon, <1>1, <1>2, <1>3, <1>4, <1>5, <1>6, <1>7 DEF Settles, Keeps, Kinds, Carriers, y

LEMMA ResolveKeeps ==
    ASSUME NEW x, Running(x), x.tip = 0, NEW tx, tx.signer \in Account, tx.act \in Action, NEW hybridOnly, NEW h,
           NEW deferred \in Nat,
           deferred = 0 \/ (tx.act.kind = "shieldedV2" /\ tx.act.in = 0 /\ x.s.bal + tx.act.out >= deferred)
    PROVE  LET y == Resolve(x, tx, deferred, hybridOnly, h)
           IN y.res = "reject" \/ Settles(x, y, tx, Effective(tx.act), deferred)
<1> DEFINE a == Unstamped(tx.act)
           W == {"timestamped", "tipped", "exec"}
           y == Resolve(x, tx, deferred, hybridOnly, h)
           z == [Pay(x, a.tip) EXCEPT !.tip = a.tip]
<1>1. /\ a \in Action /\ (a.kind \in W => a.inner \in Action) /\ (a.kind = "tipped" => a.tip \in Nat)
      /\ (deferred # 0 => a = tx.act /\ a.kind = "shieldedV2")
      /\ a = tx.act \/ (tx.act.kind = "timestamped" /\ a = tx.act.inner)
  <2>1. \A b \in Action : /\ b.kind \in W => b.inner \in Action
                          /\ b.kind = "tipped" => b.tip \in Nat
    BY Zenon, ActionAssumption DEF Carriers
  <2>2. \/ a = tx.act /\ tx.act.kind # "timestamped"
        \/ tx.act.kind = "timestamped" /\ a = tx.act.inner
    BY Zenon DEF Unstamped
  <2>3. a \in Action
    BY Zenon, <2>1, <2>2
  <2> HIDE DEF a
  <2> QED
    BY Zenon, <2>1, <2>2, <2>3
<1>2. /\ a.kind \notin W => Effective(tx.act) = a
      /\ a.kind \in {"tipped", "exec"} /\ a.inner.kind \notin W => Effective(tx.act) = a.inner
  BY Zenon, <1>1, EffectiveIs
<1>3. \/ y = Reject(x)
      \/ y = Failed(x) /\ deferred = 0
      \/ /\ a.kind = "tipped" /\ ~(x.s.bal < a.tip) /\ a.inner.kind # "exec"
         /\ y = Dispatch(z, tx, a.inner, deferred, hybridOnly, h)
      \/ a.kind = "exec" /\ a.inner.kind # "exec" /\ y = Dispatch(x, tx, a.inner, deferred, hybridOnly, h)
      \/ a.kind \notin {"tipped", "exec"} /\ y = Dispatch(x, tx, a, deferred, hybridOnly, h)
  BY Zenon, <1>1 DEF Resolve, Checked
<1> HIDE DEF a, y
<1>4. /\ Keeps(x, Failed(x), tx.signer, 0)
      /\ \A w : Running(w) => Reject(w).res = "reject"
  BY Zenon, FailedKeeps
<1>5. ASSUME NEW w, NEW b, b.kind \in {"timestamped", "tipped"} PROVE Dispatch(w, tx, b, deferred, hybridOnly, h) = Reject(w)
  BY Zenon, <1>5 DEF Dispatch
<1>6. CASE a.kind = "tipped" /\ ~(x.s.bal < a.tip) /\ a.inner.kind # "exec"
           /\ y = Dispatch(z, tx, a.inner, deferred, hybridOnly, h)
  <2>1. /\ a.tip \in Nat /\ x.s \in AccountRecord /\ x.s.bal \in Nat /\ x.s.locked \in Nat /\ a.tip <= x.s.bal
        /\ x.s.bal - a.tip \in Nat /\ deferred = 0
    BY <1>1, <1>6 DEF Running, AccountRecord
  <2>2. z.s \in AccountRecord /\ z.s.bal = x.s.bal - a.tip /\ z.s.locked = x.s.locked
    BY Zenon, <2>1 DEF Pay, Running, AccountRecord
  <2>3. Running(z) /\ z.st = x.st /\ z.fee = x.fee /\ z.tip = a.tip
    BY Zenon, <2>1, <2>2 DEF Running, Pay
  <2> HIDE DEF z
  <2>4. Keeps(x, z, tx.signer, 0)
    <3>1. Total(z.s) + a.tip = Total(x.s) /\ Total(z.s) \in Nat /\ x.fee \in Nat
      BY SMTT(30), <2>1, <2>2, <2>3 DEF Total, Running, AccountRecord
    <3>2. TotalSupply(x.st.led) \in Nat
      BY Zenon, WealthType
    <3>3. Wealth(z) + 0 = Wealth(x)
      BY <2>1, <2>3, <3>1, <3>2 DEF Wealth
    <3> QED
      BY Zenon, <2>3, <3>3 DEF Keeps, Journals
  <2>5. y.res = "reject" \/ Settles(z, y, tx, a.inner, deferred)
    BY Zenon, <1>1, <1>6, <2>1, <2>3, DispatchKeeps
  <2>6. a.inner.kind \in W => y.res = "reject"
    <3> SUFFICES ASSUME a.inner.kind \in W PROVE y.res = "reject"
        BY Zenon
    <3>1. a.inner.kind \in {"timestamped", "tipped"}
      BY Zenon, <1>6
    <3>2. Dispatch(z, tx, a.inner, deferred, hybridOnly, h) = Reject(z)
      BY Zenon, <3>1 DEF Dispatch
    <3> QED
      BY Zenon, <1>4, <1>6, <2>3, <3>2
  <2> QED
    BY Zenon, <1>2, <1>6, <2>1, <2>3, <2>4, <2>5, <2>6, KeepsTwice DEF Settles, Hits, y
<1>7. CASE a.kind = "exec" /\ a.inner.kind # "exec" /\ y = Dispatch(x, tx, a.inner, deferred, hybridOnly, h)
  <2>1. y.res = "reject" \/ Settles(x, y, tx, a.inner, deferred)
    BY Zenon, <1>1, <1>7, DispatchKeeps
  <2> QED
    BY SMTT(30), <1>2, <1>4, <1>5, <1>7, <2>1 DEF y
<1>8. CASE a.kind \notin {"tipped", "exec"} /\ y = Dispatch(x, tx, a, deferred, hybridOnly, h)
  <2>1. y.res = "reject" \/ Settles(x, y, tx, a, deferred)
    BY Zenon, <1>1, <1>8, DispatchKeeps
  <2> QED
    BY <1>2, <1>4, <1>5, <1>8, <2>1 DEF y
<1> QED
  BY <1>3, <1>4, <1>6, <1>7, <1>8 DEF Settles, Keeps, y

\* The copy replaces the signer's entry and the miner is paid.
LEMMA CommitKeeps ==
    ASSUME NEW x, Running(x), NEW tx, tx.signer \in Account
    PROVE  LET y == Commit(x, tx)
           IN /\ Native(y.st.led) /\ Journals(x.st, y.st) /\ y.res = x.res
              /\ TotalSupply(y.st.led) = Wealth(x) - Total(AccountOf(x.st, tx.signer))
<1> DEFINE st1 == SetAccount(x.st, tx.signer, x.s)
           st2 == Credit(st1, Miner, x.fee)
           st3 == Credit(st2, Miner, x.tip)
<1>1. /\ Native(st1.led) /\ Journals(x.st, st1) /\ Total(x.s) \in Nat /\ Total(AccountOf(x.st, tx.signer)) \in Nat
      /\ TotalSupply(st1.led) = TotalSupply(x.st.led) - Total(AccountOf(x.st, tx.signer)) + Total(x.s)
  BY Zenon, AccountWritten DEF Running
<1>2. Commit(x, tx).st = st3 /\ Commit(x, tx).res = x.res /\ x.fee \in Nat /\ x.tip \in Nat
  BY Zenon DEF Commit, Running
<1> HIDE DEF st1
<1>3. Native(st2.led) /\ Journals(st1, st2) /\ TotalSupply(st2.led) = TotalSupply(st1.led) + x.fee
  BY Zenon, <1>1, <1>2, CreditGrows
<1> HIDE DEF st2
<1>4. Native(st3.led) /\ Journals(st2, st3) /\ TotalSupply(st3.led) = TotalSupply(st2.led) + x.tip
  BY Zenon, <1>2, <1>3, CreditGrows
<1> HIDE DEF st3
<1>5. Journals(x.st, st3)
  BY <1>1, <1>3, <1>4 DEF Journals
<1>6. TotalSupply(st3.led) = Wealth(x) - Total(AccountOf(x.st, tx.signer))
  <2>1. TotalSupply(x.st.led) \in Nat
    BY Zenon, WealthType
  <2> QED
    <3>1. Total(x.s) \in Nat /\ Total(AccountOf(x.st, tx.signer)) \in Nat /\ x.fee \in Nat /\ x.tip \in Nat
      BY Zenon, <1>1, <1>2
    <3>2. TotalSupply(st3.led) =
             TotalSupply(x.st.led) - Total(AccountOf(x.st, tx.signer)) + Total(x.s) + x.fee + x.tip
      BY Zenon, <1>1, <1>3, <1>4
    <3> QED
      BY <2>1, <3>1, <3>2 DEF Wealth
<1> QED
  BY Zenon, <1>2, <1>4, <1>5, <1>6

LEMMA SignerCopyType ==
    ASSUME NEW st, Native(st.led), NEW tx, tx.key \in Key
    PROVE  LET acct == SignerCopy(st, tx)
           IN acct = Absent \/ (acct \in AccountRecord /\ Total(acct) = Total(AccountOf(st, tx.signer)))
<1> DEFINE o == AccountOf(st, tx.signer)
           b == [o EXCEPT !.key = tx.key]
<1>1. SignerCopy(st, tx) \in {Absent, o, b}
  BY Zenon DEF SignerCopy
<1>2. o \in AccountRecord
  BY Zenon, AccountType
<1> HIDE DEF o
<1>3. b \in AccountRecord /\ b.bal = o.bal /\ b.locked = o.locked
  BY Zenon, <1>2 DEF AccountRecord
<1> HIDE DEF b
<1> QED
  BY Zenon, <1>1, <1>2, <1>3 DEF Total, o

\* A transaction that is not refused leaves a sound ledger and the supply.
LEMMA ApplyKeeps ==
    ASSUME NEW st, Native(st.led), NEW tx, tx.signer \in Account, tx.key \in Key, tx.act \in Action, NEW h
    PROVE  LET z == ApplyTransaction(st, tx, h)
           IN z.res # "reject" =>
                /\ Native(z.st.led) /\ Journals(st, z.st)
                /\ ~Hits(st, tx, Effective(tx.act)) => TotalSupply(z.st.led) = TotalSupply(st.led)
<1> DEFINE acct == SignerCopy(st, tx)
           fee == IntrinsicFee(tx)
           funded == FeeFunded(st, tx, acct.bal, fee, h)
           deferred == IF funded THEN fee ELSE 0
           s == [acct EXCEPT !.nonce = @ + 1, !.bal = @ - fee + deferred]
           x == [st |-> st, s |-> s, fee |-> fee, tip |-> 0, res |-> "ok"]
           y == Resolve(x, tx, deferred, NeedsHybrid(acct, h), h)
           z == ApplyTransaction(st, tx, h)
<1>1. z.res = "reject" \/ (acct # Absent /\ ~(acct.bal < fee /\ ~funded) /\ z = Commit(y, tx))
  BY Zenon DEF ApplyTransaction
<1>2. fee \in Nat
  BY Zenon, FeeType
<1>3. acct # Absent => acct \in AccountRecord /\ Total(acct) = Total(AccountOf(st, tx.signer))
  BY Zenon, SignerCopyType
<1>4. funded => tx.act.kind = "shieldedV2" /\ tx.act.in = 0 /\ acct.bal + tx.act.out >= fee
  BY Zenon DEF FeeFunded
<1> HIDE DEF z, acct, fee, funded
<1> SUFFICES ASSUME z.res # "reject"
             PROVE  /\ Native(z.st.led) /\ Journals(st, z.st)
                    /\ ~Hits(st, tx, Effective(tx.act)) => TotalSupply(z.st.led) = TotalSupply(st.led)
  BY Zenon DEF z
<1>5. /\ acct \in AccountRecord /\ acct.bal \in Nat /\ acct.nonce \in Nat /\ acct.locked \in Nat
      /\ deferred \in Nat /\ acct.bal - fee + deferred \in Nat
      /\ deferred = 0 \/ (tx.act.kind = "shieldedV2" /\ tx.act.in = 0 /\ acct.bal + tx.act.out >= deferred
                          /\ acct.bal - fee + deferred = acct.bal)
  BY <1>1, <1>2, <1>3, <1>4 DEF AccountRecord
<1> HIDE DEF deferred
<1>6. s \in AccountRecord /\ s.bal = acct.bal - fee + deferred /\ s.locked = acct.locked
  <2> DEFINE n == acct.nonce + 1
             b == acct.bal - fee + deferred
             r == [acct EXCEPT !.nonce = n]
  <2>1. s = [r EXCEPT !.bal = b] /\ n \in Nat /\ b \in Nat
    BY <1>5
  <2> HIDE DEF n
  <2>2. r \in AccountRecord /\ r.locked = acct.locked
    BY Zenon, <1>5, <2>1 DEF AccountRecord
  <2> HIDE DEF r, b
  <2>3. [r EXCEPT !.bal = b] \in AccountRecord /\ [r EXCEPT !.bal = b].bal = b /\ [r EXCEPT !.bal = b].locked = r.locked
    BY Zenon, <2>1, <2>2 DEF AccountRecord
  <2> QED
    BY Zenon, <2>1, <2>2, <2>3 DEF b
<1> HIDE DEF s
<1>7. /\ Running(x) /\ x.tip = 0 /\ x.st = st
      /\ deferred = 0 \/ (tx.act.kind = "shieldedV2" /\ tx.act.in = 0 /\ x.s.bal + tx.act.out >= deferred)
  BY Zenon, <1>2, <1>5, <1>6 DEF Running
<1>8. Wealth(x) = TotalSupply(st.led) + Total(acct) + deferred
  <2>1. TotalSupply(st.led) \in Nat
    BY Zenon, SupplyType DEF Parts
  <2> QED
    BY SMTT(30), <1>2, <1>5, <1>6, <2>1 DEF Wealth, Total
<1> HIDE DEF x
<1>9. y.res = "reject" \/ Settles(x, y, tx, Effective(tx.act), deferred)
  BY Zenon, <1>5, <1>7, ResolveKeeps
<1> HIDE DEF y
<1>10. Running(y) /\ Settles(x, y, tx, Effective(tx.act), deferred) /\ z = Commit(y, tx)
  <2>1. Running(y) => Commit(y, tx).res = y.res
    BY Zenon, CommitKeeps
  <2>2. z = Commit(y, tx) /\ (y.res = "reject" => Commit(y, tx).res = "reject")
    BY <1>1 DEF Commit
  <2> QED
    BY Zenon, <1>9, <2>1, <2>2 DEF Settles
<1>11. /\ Native(z.st.led) /\ Journals(y.st, z.st) /\ z.res = y.res
       /\ TotalSupply(z.st.led) = Wealth(y) - Total(AccountOf(y.st, tx.signer))
  BY Zenon, <1>10, CommitKeeps
<1>12. ~Hits(st, tx, Effective(tx.act)) => TotalSupply(z.st.led) = TotalSupply(st.led)
  <2>1. TotalSupply(st.led) \in Nat /\ Total(acct) \in Nat /\ Total(acct) = Total(AccountOf(st, tx.signer))
    <3>1. TotalSupply(st.led) \in Nat /\ Total(acct) = Total(AccountOf(st, tx.signer))
      BY Zenon, <1>1, <1>3, <1>5, SupplyType DEF Parts
    <3>2. acct.bal + acct.locked \in Nat
      BY <1>5
    <3> QED
      BY Zenon, <3>1, <3>2 DEF Total
  <2> SUFFICES ASSUME ~Hits(st, tx, Effective(tx.act)) PROVE TotalSupply(z.st.led) = TotalSupply(st.led)
    BY Zenon
  <2>2. Keeps(x, y, tx.signer, deferred)
    BY Zenon, <1>7, <1>10 DEF Settles
  <2>3. /\ AccountOf(y.st, tx.signer) = AccountOf(st, tx.signer) /\ Wealth(y) + deferred = Wealth(x)
        /\ Wealth(y) \in Nat
    BY Zenon, <1>7, <1>10, <2>2, WealthType DEF Keeps
  <2>4. /\ Wealth(y) + deferred = TotalSupply(st.led) + Total(acct) + deferred
        /\ Wealth(y) \in Nat /\ deferred \in Nat
    BY Zenon, <1>5, <1>8, <2>3
  <2>5. Wealth(y) - Total(acct) = TotalSupply(st.led)
    BY <2>1, <2>4
  <2> QED
    BY Zenon, <1>11, <2>1, <2>3, <2>5
<1>13. Journals(st, z.st)
  BY Zenon, <1>7, <1>10, <1>11 DEF Settles, Journals
<1> QED
  BY Zenon, <1>11, <1>12, <1>13

-----------------------------------------------------------------------------
(* Chains of blocks. *)

\* A transaction of the menu is one that decoding lets through.
LEMMA SignedType ==
    ASSUME ChainInv, NEW t \in menu, NEW n
    PROVE  LET tx == Signed(t, n) IN tx.signer \in Account /\ tx.key \in Key /\ tx.act \in Action
BY Zenon, ActionAssumption DEF ChainInv, Signed

LEMMA IncludeKeeps ==
    ASSUME ChainInv, NEW t \in menu, NEW n, Include(Signed(t, n))
    PROVE  ChainInv'
<1> DEFINE cur == [led |-> led, undo |-> undo]
           tx == Signed(t, n)
           z == ApplyTransaction(cur, tx, height)
<1>1. open /\ z.res # "reject" /\ led' = z.st.led /\ undo' = z.st.undo
       /\ open' = open /\ height' = height /\ past' = past /\ menu' = menu /\ before' = before
  BY Zenon DEF Include
<1>2. Native(cur.led) /\ Good(cur, before.led) /\ Settled(before.led)
  BY Zenon, <1>1 DEF ChainInv
<1>3. tx.signer \in Account /\ tx.key \in Key /\ tx.act \in Action
  BY Zenon, SignedType
<1> HIDE DEF cur, tx
<1>4. Native(z.st.led) /\ Journals(cur, z.st)
  BY Zenon, <1>1, <1>2, <1>3, ApplyKeeps
<1> HIDE DEF z
<1>5. Good(z.st, before.led)
  BY Zenon, <1>2, <1>4 DEF Journals
<1>6. Good([led |-> z.st.led, undo |-> z.st.undo], before.led)
  BY Zenon, <1>5 DEF Good
<1>7. \A i \in 1..Len(past) : After(i)' = After(i)
  BY Zenon, <1>1 DEF After
<1>8. \A i \in 1..Len(past') :
        Good([led |-> After(i)', undo |-> past'[i].undo], past'[i].before.led) /\ Settled(past'[i].before.led)
  BY <1>1, <1>7, PastStands
<1>9. /\ open' \in BOOLEAN /\ Journal(past') /\ menu' \in Menus /\ Native(led')
      /\ height' = Len(past') + (IF open' THEN 1 ELSE 0)
  BY Zenon, <1>1, <1>4 DEF ChainInv
<1>10. open' /\ Good([led |-> led', undo |-> undo'], before'.led) /\ Settled(before'.led)
  BY Zenon, <1>1, <1>2, <1>6
<1> QED
  BY Zenon, <1>8, <1>9, <1>10 DEF ChainInv

LEMMA ChainInvNext == ChainInv /\ [Next]_vars => ChainInv'
<1>1. ASSUME ChainInv, UNCHANGED vars PROVE ChainInv'
  BY Zenon, <1>1 DEF vars, ChainInv, After
<1> QED
  BY SMTT(30), <1>1, BeginBlockKeeps, IncludeKeeps, RollBackKeeps, SealKeeps, DisconnectKeeps DEF Next, Abort, Refuse

LEMMA ChainInvHolds == Spec => []ChainInv
BY ChainInvInit, ChainInvNext, PTL DEF Spec

\* Whatever transactions a block holds and wherever it is given up, the journal
\* kept by Ledger's setters takes the ledger back to exactly what the block was
\* begun on, and disconnecting the head block does too: apply_undo is exact for
\* every menu of transactions, every nesting of actions and every chain length.
THEOREM JournalIsExact == Spec => []UndoExact
BY JournalsLeadBack, ChainInvHolds, PTL

\* Between blocks the total supply is exactly the genesis supply plus what the
\* coinbases minted, within the budget: what check_transition and check_ledger
\* admit at the end of a block, and apply_undo leaves when one is given up or
\* disconnected, is the whole story, whatever the transactions of the menu do.
THEOREM SupplyIsConserved == Spec => []SupplyConserved
<1>1. ChainInv => SupplyConserved
  BY Zenon DEF ChainInv, Settled, SupplyConserved
<1> QED
  BY <1>1, ChainInvHolds, PTL

\* The step Include(Signed(t, n)) leaves the supply, unless the transaction
\* runs a stored transfer on its own signer.
LEMMA IncludeConserves ==
    ASSUME ChainInv, NEW t \in menu, NEW n, Include(Signed(t, n)), ~RunsOnSigner(last'.tx)
    PROVE  TotalSupply(led') = TotalSupply(led)
<1> DEFINE cur == [led |-> led, undo |-> undo]
           tx == Signed(t, n)
           z == ApplyTransaction(cur, tx, height)
<1>1. z.res # "reject" /\ led' = z.st.led /\ last'.tx = tx
  BY Zenon DEF Include
<1>2. Native(cur.led) /\ cur.led = led
  BY Zenon DEF ChainInv
<1>3. tx.signer \in Account /\ tx.key \in Key /\ tx.act \in Action
  BY Zenon, SignedType
<1> HIDE DEF tx
<1>4. ~Hits(cur, tx, Effective(tx.act))
  BY Zenon, <1>1 DEF RunsOnSigner, Hits
<1> HIDE DEF cur
<1> QED
  BY Zenon, <1>1, <1>2, <1>3, <1>4, ApplyKeeps

\* No transaction, whatever its kind, nesting and outcome, creates or destroys
\* coin, unless it runs a stored multisig transfer from or to its own signer:
\* fees, tips, escrows, vaults, shielded pools, intents and contract calls only
\* move it.
THEOREM TransactionsConserve == Spec => TxConserves
<1>1. ChainInv /\ [Next]_vars =>
        [last' # Absent /\ ~RunsOnSigner(last'.tx) => TotalSupply(led') = TotalSupply(led)]_vars
  <2>1. ASSUME BeginBlock \/ Seal \/ RollBack \/ Disconnect PROVE last' = Absent
    BY Zenon, <2>1 DEF BeginBlock, Seal, RollBack, Disconnect
  <2> QED
    BY Zenon, <2>1, IncludeConserves DEF Next, Abort, Refuse
<1> QED
  BY <1>1, ChainInvHolds, PTL DEF Spec, TxConserves
=============================================================================
