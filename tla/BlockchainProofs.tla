------------------------- MODULE BlockchainProofs -------------------------
(***************************************************************************)
(* The invariants of Blockchain for every set of hashes, transactions,     *)
(* works and offered blocks and every undo window.  Inv is inductive, so   *)
(* is ViewInv (the derived views) given Inv, and RoomInv (the undo ring)   *)
(* given both when every block has the same work; each proof has one lemma *)
(* per group of actions.                                                   *)
(***************************************************************************)
EXTENDS Blockchain, TLAPS

(* The facts about sequences the proofs cite.                              *)

LEMMA ElementOfSeq ==
    ASSUME NEW S, NEW seq \in Seq(S), NEW n \in 1..Len(seq)
    PROVE  seq[n] \in S
  OBVIOUS

LEMMA EmptySeq ==
    ASSUME NEW S
    PROVE  /\ <<>> \in Seq(S) /\ Len(<<>>) = 0
           /\ \A seq \in Seq(S) : seq # <<>> => Len(seq) \in Nat \ {0}
  OBVIOUS

LEMMA LenProperties ==
    ASSUME NEW S, NEW seq \in Seq(S)
    PROVE  /\ Len(seq) \in Nat /\ DOMAIN seq = 1..Len(seq)
           /\ seq \in [1..Len(seq) -> S]
  OBVIOUS


(* Sequences: what the chain's push, pop and prepend do.                   *)
LEMMA TwoOrMore ==
    \A n \in Nat \ {0} : n # 1 => n \in 2..n /\ n - 1 \in 1..n
OBVIOUS

LEMMA OneMore ==
    \A n \in Nat, m \in Nat \ {0}, r \in Nat :
        r = n - m => n - (m - 1) = r + 1 /\ r + 1 <= n
OBVIOUS

LEMMA EmptyLen ==
    ASSUME NEW S, NEW s \in Seq(S)
    PROVE  s = <<>> <=> Len(s) = 0
BY Zenon, EmptySeq

LEMMA FrontFacts ==
    ASSUME NEW S, NEW s \in Seq(S), s # <<>>
    PROVE  /\ Front(s) \in Seq(S)
           /\ Len(Front(s)) = Len(s) - 1
           /\ Len(s) \in Nat /\ Len(s) > 0
           /\ \A i \in 1..Len(s) - 1 : Front(s)[i] = s[i]
           /\ Top(s) \in S
<1>1. Len(s) \in Nat \ {0}
  BY Zenon, EmptySeq
<1>2. \A i \in 1..Len(s) : s[i] \in S
  BY Zenon, ElementOfSeq
<1>3. PICK n \in Nat : n = Len(s) - 1
  BY <1>1
<1>4. \A i \in 1..n : s[i] \in S
  BY <1>1, <1>2, <1>3
<1>5. Front(s) = SubSeq(s, 1, n)
  BY Zenon, <1>3 DEF Front
<1>6. /\ SubSeq(s, 1, n) \in Seq(S)
      /\ Len(SubSeq(s, 1, n)) = n
      /\ \A i \in 1..n : SubSeq(s, 1, n)[i] = s[i]
  BY <1>1, <1>3, <1>4
<1>7. Top(s) \in S
  BY <1>1, <1>2 DEF Top
<1> QED
  BY <1>1, <1>3, <1>5, <1>6, <1>7

LEMMA AppendFacts ==
    ASSUME NEW S, NEW s \in Seq(S), NEW e \in S
    PROVE  /\ Append(s, e) \in Seq(S)
           /\ Append(s, e) # <<>>
           /\ Len(s) \in Nat
           /\ Len(Append(s, e)) = Len(s) + 1
           /\ \A i \in 1..Len(s) : Append(s, e)[i] = s[i]
           /\ Append(s, e)[Len(s) + 1] = e
           /\ Top(Append(s, e)) = e
<1>1. /\ Append(s, e) \in Seq(S) /\ Append(s, e) # <<>> /\ Len(s) \in Nat
      /\ Len(Append(s, e)) = Len(s) + 1
      /\ \A i \in 1..Len(s) : Append(s, e)[i] = s[i]
      /\ Append(s, e)[Len(s) + 1] = e
  OBVIOUS
<1> QED
  BY Zenon, <1>1 DEF Top

LEMMA PrependFacts ==
    ASSUME NEW S, NEW s \in Seq(S), NEW e \in S
    PROVE  /\ <<e>> \o s \in Seq(S)
           /\ <<e>> \o s # <<>>
           /\ Len(s) \in Nat
           /\ Len(<<e>> \o s) = Len(s) + 1
           /\ (<<e>> \o s)[1] = e
           /\ \A i \in 1..Len(s) : (<<e>> \o s)[i + 1] = s[i]
           /\ \A i \in 2..Len(s) + 1 : (<<e>> \o s)[i] = s[i - 1]
           /\ s # <<>> => Top(<<e>> \o s) = Top(s)
<1>1. <<e>> \in Seq(S) /\ Len(<<e>>) = 1 /\ <<e>>[1] = e
  OBVIOUS
<1>2. Len(s) \in Nat /\ (s # <<>> => Len(s) > 0)
  BY LenProperties, EmptySeq
<1> QED
  BY <1>1, <1>2 DEF Top

LEMMA TailFacts ==
    ASSUME NEW S, NEW s \in Seq(S), s # <<>>
    PROVE  /\ Tail(s) \in Seq(S)
           /\ Len(s) \in Nat \ {0}
           /\ Len(Tail(s)) = Len(s) - 1
           /\ \A i \in 1..Len(s) - 1 : Tail(s)[i] = s[i + 1]
           /\ Head(s) = s[1] /\ Head(s) \in S
           /\ Tail(s) # <<>> => Top(Tail(s)) = Top(s)
           /\ Tail(s) = <<>> => Head(s) = Top(s)
<1>1. Len(s) \in Nat \ {0} /\ Len(<<>>) = 0
  BY Zenon, EmptySeq
<1>2. /\ Tail(s) \in Seq(S) /\ Head(s) \in S
      /\ Len(Tail(s)) = Len(s) - 1
      /\ \A i \in 1..Len(s) - 1 : Tail(s)[i] = s[i + 1]
  OBVIOUS
<1>3. Tail(s) # <<>> => Len(Tail(s)) \in Nat \ {0}
  BY Zenon, <1>2, EmptySeq
<1>4. Head(s) = s[1]
  OBVIOUS
<1>5. Tail(s) # <<>> => Top(Tail(s)) = Top(s)
  BY <1>1, <1>3, <1>2 DEF Top
<1>6. ASSUME Tail(s) = <<>> PROVE Head(s) = Top(s)
  <2>1. Len(Tail(s)) = 0
    BY Zenon, <1>2, <1>6, EmptyLen
  <2>2. PICK n \in Nat : n = Len(s)
    BY Zenon, <1>1
  <2>3. Len(Tail(s)) = n - 1
    BY Zenon, <1>2, <2>2
  <2>4. n = 1
    BY SMTT(30), <2>1, <2>2, <2>3
  <2> QED
    BY Zenon, <1>4, <2>2, <2>4 DEF Top
<1> QED
  BY Zenon, <1>1, <1>2, <1>4, <1>5, <1>6

USE HashAssumption, WorksAssumption, BitsAssumption, OfferedAssumption,
    UndoWindowAssumption

LEMMA GenesisFacts ==
    /\ GenesisBlock \in Block
    /\ GenesisLedger \in Ledgers
    /\ NoJob \in Job
BY DEF Job, GenesisBlock, GenesisLedger, NoJob, Block, Ledgers

(* The initial state of Blockchain::new.                                   *)
LEMMA InitInv == Init => Inv
<1> SUFFICES ASSUME Init PROVE Inv
    BY Zenon
<1> USE GenesisFacts DEF Init, Top, Height
<1>1. TypeOK
  BY DEF TypeOK, ChainTypeOK, ImportTypeOK, Entry, Pcs, Undo, Ledgers, GenesisLedger
<1>2. IndexInv
  BY Zenon DEF IndexInv, IndexValid
<1>3. ChainInv
  <2>1. Len(blocks) = 1 /\ blocks[1] = GenesisBlock
    BY Zenon
  <2>2. signals = [h \in 1..0 |-> blocks[h + 1].bits]
    OBVIOUS
  <2>3. \A i \in 2..Len(blocks) : FALSE
    BY <2>1
  <2>4. ledger = [at |-> blocks[1].hash, txs |-> blocks[1].root]
    BY ZenonT(60), <2>1 DEF GenesisBlock, GenesisLedger
  <2> QED
    BY <2>1, <2>2, <2>3, <2>4 DEF ChainInv, StateFollowsChain
<1>4. RingAligned
  BY DEF RingAligned
<1>5. AcceptedInv
  <2>1. Len(blocks) = 1 /\ blocks[1] = GenesisBlock
    BY Zenon
  <2>2. Accepted(blocks[1])
    BY Zenon, <2>1 DEF Accepted, GenesisBlock
  <2> QED
    BY SMTT(30), <2>1, <2>2 DEF AcceptedInv, Trunk, Branching
<1>6. BranchInv /\ TodoInv /\ ReplayInv
  BY Zenon DEF BranchInv, TodoInv, ReplayInv
<1>7. OldInv
  BY Zenon DEF OldInv, GenesisBlock
<1>8. BestInv /\ RefusedLeavesHead
  BY DEF BestInv, HeadBest, NoBetter, RefusedLeavesHead
<1> QED
  BY Zenon, <1>1, <1>2, <1>3, <1>4, <1>5, <1>6, <1>7, <1>8 DEF Inv
(* insert_entry of a block that follows its parent.                        *)
LEMMA InsertFacts ==
    ASSUME Inv, NEW b \in Offered, b.hash \notin DOMAIN index,
           b.prev \in DOMAIN index, Follows(b, index[b.prev].block),
           InsertEntry(b)
    PROVE  /\ DOMAIN index' = DOMAIN index \cup {b.hash}
           /\ DOMAIN index' \subseteq Hash
           /\ index' \in [DOMAIN index' -> Entry]
           /\ \A x \in DOMAIN index : index'[x] = index[x]
           /\ index'[b.hash].block = b
           /\ index'[b.hash].work = index[b.prev].work + b.work
           /\ IndexInv'
<1>1. b \in Block /\ b.hash # Genesis /\ b.work \in Nat
  BY Zenon DEF Block
<1>2. DOMAIN index \subseteq Hash /\ index \in [DOMAIN index -> Entry]
  BY Zenon DEF Inv, TypeOK, ChainTypeOK
<1> DEFINE new == [block |-> b, height |-> index[b.prev].height + 1,
                   work |-> index[b.prev].work + b.work]
<1>3. new \in Entry
  BY SMTT(30), <1>1, <1>2 DEF Entry
<1>4. /\ DOMAIN index' = DOMAIN index \cup {b.hash}
      /\ \A x \in DOMAIN index : index'[x] = index[x]
      /\ index'[b.hash] = new
  BY Zenon DEF InsertEntry
<1>5. index' \in [DOMAIN index' -> Entry]
  BY Zenon, <1>2, <1>3, <1>4 DEF InsertEntry
<1>6. DOMAIN index' \subseteq Hash
  BY Zenon, <1>1, <1>2, <1>4 DEF Block
<1>7. IndexInv'
  <2>1. IndexInv
    BY Zenon DEF Inv
  <2>2. Genesis \in DOMAIN index' /\ index'[Genesis] = index[Genesis]
    BY Zenon, <2>1, <1>4 DEF IndexInv
  <2>3. ASSUME NEW x \in DOMAIN index \ {Genesis}
        PROVE  /\ index'[x] = index[x]
               /\ index[x].block.prev \in DOMAIN index
               /\ index'[index[x].block.prev] = index[index[x].block.prev]
    BY Zenon, <2>1, <1>4 DEF IndexInv, IndexValid
  <2>4. index'[b.prev] = index[b.prev]
    BY Zenon, <1>4
  <2>5. IndexValid'
    <3> SUFFICES ASSUME NEW x \in DOMAIN index' \ {Genesis}
                 PROVE  LET e == index'[x] IN
                        /\ e.block.hash = x
                        /\ e.block.prev \in DOMAIN index'
                        /\ LET p == index'[e.block.prev] IN
                             /\ e.height = p.height + 1
                             /\ e.work = p.work + e.block.work
                             /\ e.block.txs \cap p.block.root = {}
                             /\ e.block.root = p.block.root \cup e.block.txs
      BY Zenon DEF IndexValid
    <3>1. CASE x \in DOMAIN index
      BY SMTT(30), <3>1, <2>1, <2>3, <1>4 DEF IndexInv, IndexValid
    <3>2. CASE x = b.hash
      BY SMTT(30), <3>2, <2>4, <1>4 DEF Follows
    <3> QED
      BY ZenonT(60), <3>1, <3>2, <1>4
  <2> QED
    BY Zenon, <2>1, <2>2, <2>5 DEF IndexInv
<1> QED
  BY <1>4, <1>5, <1>6, <1>7

(* connect_to_active of a block that executes.                             *)
LEMMA ConnectFacts ==
    ASSUME Inv, NEW b \in Block, b.hash # Genesis, Executes(ledger, b),
           ConnectToActive(b)
    PROVE  /\ blocks' \in Seq(Block) /\ blocks' # <<>>
           /\ Len(blocks') = Len(blocks) + 1
           /\ \A i \in 1..Len(blocks) : blocks'[i] = blocks[i]
           /\ blocks'[Len(blocks')] = b
           /\ Follows(b, blocks[Len(blocks)])
           /\ ledger' \in Ledgers
           /\ DOMAIN signals' \subseteq Nat /\ signals' \in [DOMAIN signals' -> Bits]
           /\ undo_ring' \in Seq(Undo) /\ Len(undo_ring') <= UndoWindow
           /\ ChainInv'
           /\ RingAligned'
<1>1. /\ blocks \in Seq(Block) /\ blocks # <<>> /\ ledger \in Ledgers
      /\ undo_ring \in Seq(Undo) /\ Len(undo_ring) <= UndoWindow
  BY Zenon DEF Inv, TypeOK, ChainTypeOK
<1>2. Len(blocks) \in Nat \ {0} /\ Len(undo_ring) \in Nat
  BY Zenon, <1>1, EmptySeq, LenProperties
<1>3. /\ blocks' \in Seq(Block) /\ blocks' # <<>>
      /\ Len(blocks') = Len(blocks) + 1
      /\ \A i \in 1..Len(blocks) : blocks'[i] = blocks[i]
      /\ blocks'[Len(blocks) + 1] = b
  BY SMTT(30), <1>1, AppendFacts DEF ConnectToActive
<1>4. /\ \A i \in 1..Len(blocks) : blocks[i] \in Block
      /\ blocks[1] = GenesisBlock
      /\ \A i \in 2..Len(blocks) :
            Follows(blocks[i], blocks[i - 1]) /\ blocks[i].hash # Genesis
      /\ ledger = [at |-> blocks[Len(blocks)].hash, txs |-> blocks[Len(blocks)].root]
      /\ signals = [h \in 1..Len(blocks) - 1 |-> blocks[h + 1].bits]
  BY Zenon, <1>1, ElementOfSeq DEF Inv, ChainInv, StateFollowsChain, Top, Height
<1>5. Follows(b, blocks[Len(blocks)])
  BY Zenon, <1>4 DEF Executes, Follows
<1>6. ledger' = [at |-> b.hash, txs |-> b.root] /\ ledger' \in Ledgers
  BY Zenon DEF ConnectToActive, Executes, Execute, Ledgers, Block
<1>7. signals' = [h \in 1..Len(blocks) |-> blocks'[h + 1].bits]
  <2>1. DOMAIN signals = 1..Len(blocks) - 1
    BY Zenon, <1>4
  <2>2. (1..Len(blocks) - 1) \cup {Len(blocks)} = 1..Len(blocks)
    BY SMTT(30), <1>2
  <2>3. \A h \in 1..Len(blocks) - 1 : signals[h] = blocks'[h + 1].bits
    BY SMTT(30), <1>2, <1>3, <1>4
  <2> QED
    BY Zenon, <2>1, <2>2, <2>3, <1>3 DEF ConnectToActive, RecordSignal
<1>8. DOMAIN signals' \subseteq Nat /\ signals' \in [DOMAIN signals' -> Bits]
  <2>1. \A i \in 1..Len(blocks') : blocks'[i] \in Block
    BY Zenon, <1>3, ElementOfSeq
  <2>2. \A h \in 1..Len(blocks) : blocks'[h + 1].bits \in Bits
    BY SMTT(30), <2>1, <1>2, <1>3 DEF Block
  <2> QED
    BY SMTT(30), <2>2, <1>2, <1>7
<1>9. ChainInv'
  <2>1. blocks'[1] = GenesisBlock
    BY SMTT(30), <1>2, <1>3, <1>4
  <2>2. \A i \in 2..Len(blocks') :
           Follows(blocks'[i], blocks'[i - 1]) /\ blocks'[i].hash # Genesis
    <3> TAKE i \in 2..Len(blocks')
    <3>1. CASE i \in 2..Len(blocks)
      <4>1. blocks'[i] = blocks[i] /\ blocks'[i - 1] = blocks[i - 1]
        BY <3>1, <1>2, <1>3
      <4> QED
        BY Zenon, <3>1, <4>1, <1>4
    <3>2. CASE i = Len(blocks) + 1
      <4>1. blocks'[i] = b /\ blocks'[i - 1] = blocks[Len(blocks)]
        BY SMTT(30), <3>2, <1>2, <1>3
      <4> QED
        BY Zenon, <4>1, <1>5
    <3> QED
      BY SMTT(30), <3>1, <3>2, <1>2, <1>3
  <2>3. \A i \in 2..Len(blocks') : blocks'[i].prev = blocks'[i - 1].hash
    BY Zenon, <2>2 DEF Follows
  <2> QED
    BY SMTT(30), <2>1, <2>2, <2>3, <1>2, <1>3, <1>6, <1>7
    DEF ChainInv, StateFollowsChain, Follows, Top, Height
<1> DEFINE log == [height |-> Len(blocks), hash |-> b.hash, undo |-> ledger]
<1> DEFINE ring == Append(undo_ring, log)
<1>10. log \in Undo
  BY Zenon, <1>1, <1>2 DEF Undo, Block
<1>11. /\ ring \in Seq(Undo) /\ ring # <<>> /\ Len(ring) = Len(undo_ring) + 1
       /\ \A i \in 1..Len(undo_ring) : ring[i] = undo_ring[i]
       /\ ring[Len(undo_ring) + 1] = log
  BY <1>1, <1>10, AppendFacts
<1>12. /\ Len(undo_ring) <= Len(blocks) - 1
       /\ \A k \in 1..Len(undo_ring) :
            LET i == Len(blocks) - Len(undo_ring) + k IN
            /\ undo_ring[k].height = i - 1
            /\ undo_ring[k].hash = blocks[i].hash
            /\ undo_ring[k].undo = [at |-> blocks[i - 1].hash, txs |-> blocks[i - 1].root]
  BY ZenonT(60) DEF Inv, RingAligned, Height
<1>13. ASSUME NEW k \in 1..Len(ring)
       PROVE  LET i == Len(blocks) - Len(undo_ring) + k IN
              /\ i \in 2..Len(blocks')
              /\ ring[k].height = i - 1
              /\ ring[k].hash = blocks'[i].hash
              /\ ring[k].undo = [at |-> blocks'[i - 1].hash, txs |-> blocks'[i - 1].root]
  <2>1. CASE k \in 1..Len(undo_ring)
    BY SMTT(60), <2>1, <1>2, <1>3, <1>11, <1>12
  <2>2. CASE k = Len(undo_ring) + 1
    BY SMTT(30), <2>2, <1>2, <1>3, <1>4, <1>11
  <2> QED
    BY SMTT(30), <2>1, <2>2, <1>2, <1>11
<1>14. /\ RingAligned'
       /\ undo_ring' \in Seq(Undo) /\ Len(undo_ring') <= UndoWindow
  <2>1. CASE Len(ring) <= UndoWindow
    <3>1. undo_ring' = ring
      BY <2>1, <1>2, <1>11 DEF ConnectToActive, RememberUndo
    <3> HIDE DEF ring
    <3> QED
      BY SMTT(60), <2>1, <3>1, <1>2, <1>3, <1>11, <1>12, <1>13 DEF RingAligned, Height
  <2>2. CASE Len(ring) > UndoWindow
    <3>1. undo_ring' = Tail(ring)
      BY Zenon, <2>2, <1>2, <1>11 DEF ConnectToActive, RememberUndo
    <3> HIDE DEF ring
    <3>2. /\ Tail(ring) \in Seq(Undo) /\ Len(Tail(ring)) = Len(undo_ring)
          /\ \A k \in 1..Len(undo_ring) : Tail(ring)[k] = ring[k + 1]
      BY <1>2, <1>11, TailFacts
    <3>3. \A k \in 1..Len(undo_ring) : k + 1 \in 1..Len(ring)
      BY SMTT(30), <1>2, <1>11
    <3>4. Len(undo_ring') = Len(undo_ring) /\ Len(undo_ring') <= Len(blocks') - 1
      BY SMTT(30), <3>1, <3>2, <1>2, <1>3, <1>12
    <3>5. ASSUME NEW k \in 1..Len(undo_ring')
          PROVE  LET i == Len(blocks') - Len(undo_ring') + k IN
                 /\ undo_ring'[k].height = i - 1
                 /\ undo_ring'[k].hash = blocks'[i].hash
                 /\ undo_ring'[k].undo = [at |-> blocks'[i - 1].hash,
                                          txs |-> blocks'[i - 1].root]
      <4>1. k + 1 \in 1..Len(ring) /\ undo_ring'[k] = ring[k + 1]
        BY Zenon, <3>1, <3>2, <3>3, <3>4
      <4>2. Len(blocks') - Len(undo_ring') + k = Len(blocks) - Len(undo_ring) + (k + 1)
        BY <3>4, <1>2, <1>3
      <4> QED
        BY ZenonT(60), <4>1, <4>2, <1>13
    <3> QED
      BY Zenon, <3>1, <3>2, <3>4, <3>5, <1>1 DEF RingAligned, Height
  <2> QED
    BY SMTT(30), <2>1, <2>2, <1>2, <1>11
<1> QED
  BY Zenon, <1>3, <1>5, <1>6, <1>8, <1>9, <1>14

(* A step inside an import that accepts no block leaves fork choice alone. *)
LEMMA BestFrame ==
    ASSUME Inv, pc \notin {"idle", "panic"}, pc' \notin {"idle", "panic"},
           index' = index, before' = before
    PROVE  BestInv' /\ RefusedLeavesHead'
<1>1. \A x \in DOMAIN index : NoBetter(x, before.head)
  BY Zenon DEF Inv, BestInv
<1>2. \A x \in DOMAIN index' : NoBetter(x, before.head)'
  BY Zenon, <1>1 DEF NoBetter
<1> QED
  BY Zenon, <1>2 DEF BestInv, HeadBest, RefusedLeavesHead

(* A step that leaves struct Blockchain alone.                             *)
LEMMA FrameFacts ==
    ASSUME Inv, UNCHANGED chainVars
    PROVE  ChainTypeOK' /\ IndexInv' /\ ChainInv' /\ RingAligned'
<1> USE DEF Inv, TypeOK, chainVars
<1>1. ChainTypeOK'
  BY Zenon DEF ChainTypeOK
<1>2. IndexInv'
  BY Zenon DEF IndexInv, IndexValid
<1>3. ChainInv'
  BY Zenon DEF ChainInv, StateFollowsChain, Top, Height
<1>4. RingAligned'
  BY Zenon DEF RingAligned, Height
<1> QED
  BY Zenon, <1>1, <1>2, <1>3, <1>4

(* Imports that return at once and change nothing.                         *)
LEMMA QuietImportInv ==
    ASSUME Inv, NEW b \in Offered,
           ImportKnown(b) \/ RejectCandidate(b) \/ RejectExtension(b)
    PROVE  Inv'
<1>1. /\ pc = "idle" /\ pc' = "idle" /\ job' = job /\ UNCHANGED chainVars
      /\ before' = [head |-> head, txs |-> ledger.txs]
  BY Zenon DEF ImportKnown, RejectCandidate, RejectExtension, Start, Return
<1>a. \E ok \in BOOLEAN : result' = [ok |-> ok, reverted |-> {}]
  BY ZenonT(60) DEF ImportKnown, RejectCandidate, RejectExtension, Return
<1>2. ChainTypeOK' /\ IndexInv' /\ ChainInv' /\ RingAligned'
  BY Zenon, <1>1, FrameFacts
<1>3. UNCHANGED <<index, blocks, head>>
  BY Zenon, <1>1 DEF chainVars
<1>4. ImportTypeOK'
  <2>1. head \in Hash /\ ledger.txs \in SUBSET Tx
    BY Zenon DEF Inv, TypeOK, ChainTypeOK, Ledgers
  <2>2. job \in Job
    BY Zenon DEF Inv, TypeOK, ImportTypeOK
  <2> QED
    BY SMTT(30), <1>1, <1>a, <2>1, <2>2 DEF ImportTypeOK, Pcs
<1>5. AcceptedInv'
  BY Zenon, <1>1, <1>3 DEF Inv, AcceptedInv, Trunk, Branching, Accepted
<1>6. BranchInv' /\ TodoInv' /\ ReplayInv'
  BY Zenon, <1>1 DEF BranchInv, TodoInv, ReplayInv
<1>7. OldInv'
  BY Zenon, <1>1, <1>3 DEF Inv, OldInv, Top
<1>8. BestInv'
  BY Zenon, <1>1, <1>3 DEF Inv, BestInv, HeadBest, NoBetter
<1>9. RefusedLeavesHead'
  BY Zenon, <1>1, <1>3 DEF RefusedLeavesHead
<1> QED
  BY Zenon, <1>2, <1>4, <1>5, <1>6, <1>7, <1>8, <1>9 DEF Inv, TypeOK

(* An import that leaves the active chain to validate a branch.            *)
LEMMA BeginBranchInv ==
    ASSUME Inv, NEW b \in Offered, BeginBranch(b)
    PROVE  Inv'
<1>1. /\ pc = "idle" /\ pc' = "locate" /\ UNCHANGED chainVars /\ result' = result
      /\ before' = [head |-> head, txs |-> ledger.txs]
      /\ b.hash \notin DOMAIN index /\ b.prev \in DOMAIN index
      /\ job' = [NoJob EXCEPT !.block = b, !.reorg = Outweighs(b), !.new = <<b>>]
  BY Zenon DEF BeginBranch, Start, ValidCandidate
<1>2. ChainTypeOK' /\ IndexInv' /\ ChainInv' /\ RingAligned'
  BY Zenon, <1>1, FrameFacts
<1>3. UNCHANGED <<index, blocks, head>>
  BY Zenon, <1>1 DEF chainVars
<1>4. b \in Block /\ b.hash # Genesis
  BY Zenon
<1>5. Outweighs(b) \in BOOLEAN
  BY Zenon DEF Outweighs
<1>6. /\ job' \in Job /\ job'.block = b /\ job'.reorg = Outweighs(b)
      /\ job'.new = <<b>> /\ job'.old = <<>> /\ job'.ledger = GenesisLedger
  <2>1. <<b>> \in Seq(Block)
    BY SMTT(30), <1>4
  <2>2. /\ NoJob.ledger = GenesisLedger /\ NoJob.old = <<>>
        /\ DOMAIN NoJob = {"block", "reorg", "fork", "new", "todo", "old", "valid", "ledger"}
    BY Zenon DEF NoJob
  <2> QED
    BY ZenonT(60), <1>1, <1>4, <1>5, <2>1, <2>2, GenesisFacts DEF Job
<1>7. ImportTypeOK'
  BY Zenon, <1>1, <1>6 DEF Inv, TypeOK, ChainTypeOK, ImportTypeOK, Pcs, Ledgers
<1>8. AcceptedInv'
  BY <1>1, <1>3 DEF Inv, AcceptedInv, Trunk, Branching, Accepted
<1>9. BranchInv'
  <2>1. head \in DOMAIN index
    BY Zenon DEF Inv, TypeOK, ChainTypeOK
  <2>2. Len(<<b>>) = 1 /\ <<b>>[1] = b /\ <<b>> # <<>>
    BY Zenon
  <2>3. job'.reorg = ( \/ index[b.prev].work + b.work > index[head].work
                       \/ /\ index[b.prev].work + b.work = index[head].work
                          /\ b.hash < head )
    BY ZenonT(60), <1>6 DEF Outweighs
  <2>4. Top(job'.new) = b /\ \A i \in 1..Len(job'.new) : job'.new[i] = b
    BY <1>6, <2>2 DEF Top
  <2> QED
    BY Zenon, <1>1, <1>3, <1>4, <1>6, <2>1, <2>2, <2>3, <2>4 DEF BranchInv
<1>10. TodoInv' /\ ReplayInv'
  BY Zenon, <1>1, <1>6 DEF TodoInv, ReplayInv
<1>11. OldInv'
  BY Zenon, <1>1, <1>3, <1>6 DEF Inv, OldInv, Top
<1>12. BestInv' /\ RefusedLeavesHead'
  BY Zenon, <1>1, <1>3 DEF Inv, BestInv, HeadBest, NoBetter, RefusedLeavesHead
<1> QED
  BY Zenon, <1>2, <1>7, <1>8, <1>9, <1>10, <1>11, <1>12 DEF Inv, TypeOK

(* Import of a block that extends the head.                                *)
LEMMA ExtendHeadInv ==
    ASSUME Inv, NEW b \in Offered, ExtendHead(b)
    PROVE  Inv'
<1>1. /\ pc = "idle" /\ pc' = "idle" /\ job' = job
      /\ before' = [head |-> head, txs |-> ledger.txs]
      /\ b.hash \notin DOMAIN index /\ b.prev \in DOMAIN index /\ b.prev = head
      /\ Executes(ledger, b) /\ ConnectToActive(b) /\ InsertEntry(b)
      /\ IndexBlockReceipts(b) /\ head' = b.hash /\ difficulty' = b.hash
      /\ result' = [ok |-> TRUE, reverted |-> {}]
  BY Zenon DEF ExtendHead, Start, ValidCandidate, Return
<1>2. b \in Block /\ b.hash # Genesis /\ b.work \in Nat \ {0}
  BY ZenonT(60), OfferedAssumption, WorksAssumption
<1>3. TypeOK
  BY Zenon DEF Inv
<1>4. Len(blocks) \in Nat \ {0} /\ \A i \in 1..Len(blocks) : blocks[i] \in Block
  BY Zenon, <1>3, EmptySeq, ElementOfSeq DEF TypeOK, ChainTypeOK
<1>5. /\ blocks' \in Seq(Block) /\ blocks' # <<>>
      /\ Len(blocks') = Len(blocks) + 1
      /\ \A i \in 1..Len(blocks) : blocks'[i] = blocks[i]
      /\ blocks'[Len(blocks')] = b
      /\ Follows(b, blocks[Len(blocks)])
      /\ ledger' \in Ledgers
      /\ DOMAIN signals' \subseteq Nat /\ signals' \in [DOMAIN signals' -> Bits]
      /\ undo_ring' \in Seq(Undo) /\ Len(undo_ring') <= UndoWindow
      /\ ChainInv'
      /\ RingAligned'
  BY Zenon, <1>1, <1>2, ConnectFacts
<1>6. \A i \in 1..Len(blocks) : Accepted(blocks[i])
  BY Zenon, <1>1, <1>4 DEF Inv, AcceptedInv, Trunk, Branching
<1>7. Follows(b, index[b.prev].block)
  BY SMTT(30), <1>4, <1>5, <1>6 DEF Accepted, Follows
<1>8. /\ DOMAIN index' = DOMAIN index \cup {b.hash}
      /\ DOMAIN index' \subseteq Hash
      /\ index' \in [DOMAIN index' -> Entry]
      /\ \A x \in DOMAIN index : index'[x] = index[x]
      /\ index'[b.hash].block = b
      /\ index'[b.hash].work = index[b.prev].work + b.work
      /\ IndexInv'
  BY Zenon, <1>1, <1>7, InsertFacts
<1>9. active_receipts' \subseteq Nat \X Tx /\ tx_height' \subseteq Tx \X Nat
  BY SMTT(30), <1>1, <1>2, <1>3, <1>4
  DEF IndexBlockReceipts, IndexReceipts, IndexTxHeight, TypeOK, ChainTypeOK, Block
<1>10. ChainTypeOK'
  BY Zenon, <1>1, <1>5, <1>8, <1>9 DEF ChainTypeOK
<1>11. ImportTypeOK'
  BY Zenon, <1>1, <1>3 DEF TypeOK, ChainTypeOK, ImportTypeOK, Ledgers, Pcs
<1>12. AcceptedInv'
  <2>1. \A i \in 1..Len(blocks') : Accepted(blocks[i])' \/ blocks'[i] = b
    BY SMTT(60), <1>4, <1>5, <1>6, <1>8 DEF Accepted
  <2>2. \A i \in 1..Len(blocks') : Accepted(blocks[i])'
    BY Zenon, <2>1, <1>8 DEF Accepted
  <2> QED
    BY SMTT(30), <2>2, <1>1, <1>4, <1>5 DEF AcceptedInv, Trunk, Branching
<1>13. BranchInv' /\ TodoInv' /\ ReplayInv'
  BY ZenonT(60), <1>1 DEF BranchInv, TodoInv, ReplayInv
<1>14. OldInv' /\ RefusedLeavesHead'
  BY Zenon, <1>1, <1>5 DEF OldInv, Top, RefusedLeavesHead
<1>15. BestInv'
  <2>1. \A x \in DOMAIN index : index[x].work \in Nat
    BY Zenon, <1>3 DEF TypeOK, ChainTypeOK, Entry
  <2>2. \A x \in DOMAIN index : NoBetter(x, head)
    BY Zenon, <1>1 DEF Inv, BestInv, HeadBest
  <2>3. b.hash \in Nat
    BY ZenonT(60), <1>2 DEF Block
  <2>4. \A x \in DOMAIN index' : NoBetter(x, head)'
    BY SMTT(30), <1>1, <1>2, <1>8, <2>1, <2>2, <2>3 DEF NoBetter
  <2> QED
    BY Zenon, <2>4, <1>1 DEF BestInv, HeadBest
<1> QED
  BY Zenon, <1>5, <1>8, <1>10, <1>11, <1>12, <1>13, <1>14, <1>15 DEF Inv, TypeOK

(* The parent of the first block of the branch is accepted.                *)
LEMMA ParentFacts ==
    ASSUME Inv, pc \notin {"idle", "panic"}
    PROVE  /\ job.new \in Seq(Block) /\ job.new # <<>> /\ Head(job.new) = job.new[1]
           /\ Head(job.new).prev \in DOMAIN index
           /\ Parent \in Entry
           /\ Parent.block.hash = Head(job.new).prev
           /\ Accepted(Parent.block)
<1>1. job.new \in Seq(Block) /\ job.new # <<>>
  BY Zenon DEF Inv, TypeOK, ImportTypeOK, Job, BranchInv
<1>2. Head(job.new) = job.new[1] /\ 1 \in 1..Len(job.new)
  BY SMTT(30), <1>1, TailFacts
<1>3. /\ job.new[1].hash # Genesis
      /\ Accepted(job.new[1]) \/ job.new[1] = job.block
      /\ job.block.prev \in DOMAIN index
  BY Zenon, <1>2 DEF Inv, BranchInv
<1>4. Head(job.new).prev \in DOMAIN index
  BY SMTT(30), <1>2, <1>3 DEF Inv, IndexInv, IndexValid, Accepted
<1>5. Parent \in Entry
  BY Zenon, <1>4 DEF Inv, TypeOK, ChainTypeOK, Parent
<1>6. Parent.block.hash = Head(job.new).prev
  BY <1>4 DEF Inv, IndexInv, IndexValid, Parent, GenesisBlock
<1> QED
  BY Zenon, <1>1, <1>2, <1>4, <1>5, <1>6 DEF Accepted, Parent

(* The walk towards the fork or the genesis prepends that parent.          *)
LEMMA PrependBranch ==
    ASSUME Inv, pc \notin {"idle", "panic"}, pc' \notin {"idle", "panic"},
           UNCHANGED <<index, before>>, Parent.block.hash # Genesis,
           job' = [job EXCEPT !.new = <<Parent.block>> \o job.new]
    PROVE  job' \in Job /\ BranchInv'
<1>1. job.new \in Seq(Block) /\ job.new # <<>> /\ Accepted(Parent.block)
  BY Zenon, ParentFacts
<1>2. Parent.block \in Block
  BY Zenon, ParentFacts DEF Entry
<1> DEFINE new == <<Parent.block>> \o job.new
<1>3. /\ new \in Seq(Block) /\ new # <<>> /\ Len(job.new) \in Nat
      /\ Len(new) = Len(job.new) + 1 /\ new[1] = Parent.block
      /\ \A i \in 2..Len(job.new) + 1 : new[i] = job.new[i - 1]
      /\ Top(new) = Top(job.new)
  BY <1>1, <1>2, PrependFacts
<1>4. job' = [job EXCEPT !.new = new]
  BY Zenon
<1> HIDE DEF new
<1>5. job \in Job
  BY Zenon DEF Inv, TypeOK, ImportTypeOK
<1>6. /\ job' \in Job /\ job'.new = new /\ job'.block = job.block
      /\ job'.reorg = job.reorg
  BY ZenonT(60), <1>3, <1>4, <1>5 DEF Job
<1>7. BranchInv
  BY Zenon DEF Inv
<1>8. \A i \in 1..Len(new) : /\ new[i].hash # Genesis
                             /\ Accepted(new[i]) \/ new[i] = job.block
  <2> TAKE i \in 1..Len(new)
  <2>1. CASE i = 1
    BY Zenon, <2>1, <1>1, <1>3
  <2>2. CASE i \in 2..Len(job.new) + 1
    <3>1. i - 1 \in 1..Len(job.new) /\ new[i] = job.new[i - 1]
      BY SMTT(30), <2>2, <1>3
    <3> QED
      BY ZenonT(60), <3>1, <1>7 DEF BranchInv
  <2> QED
    BY SMTT(30), <2>1, <2>2, <1>3
<1>9. \A i \in 1..Len(job'.new) : /\ job'.new[i].hash # Genesis
                                  /\ Accepted(job.new[i])' \/ job'.new[i] = job'.block
  BY Zenon, <1>6, <1>8 DEF Accepted
<1> QED
  BY ZenonT(60), <1>3, <1>6, <1>7, <1>9 DEF BranchInv

LEMMA WalkBackInv ==
    ASSUME Inv, WalkBack
    PROVE  Inv'
<1>1. /\ pc = "locate" /\ pc' = "locate" /\ UNCHANGED chainVars
      /\ UNCHANGED <<result, before>> /\ ~IsActive(Parent)
      /\ job' = [job EXCEPT !.new = <<Parent.block>> \o job.new]
  BY Zenon DEF WalkBack
<1>2. ChainTypeOK' /\ IndexInv' /\ ChainInv' /\ RingAligned'
  BY Zenon, <1>1, FrameFacts
<1>3. UNCHANGED <<index, blocks, head>>
  BY Zenon, <1>1 DEF chainVars
<1>4. Parent.block.hash # Genesis
  <2>1. SUFFICES ASSUME Parent.block.hash = Genesis PROVE FALSE
    BY Zenon
  <2>2. Parent = index[Genesis]
    BY Zenon, <1>1, <2>1, ParentFacts DEF Parent
  <2>3. Parent.height = 0 /\ Parent.block = GenesisBlock
    BY <2>2 DEF Inv, IndexInv
  <2>4. Len(blocks) \in Nat \ {0}
    BY Zenon, EmptySeq DEF Inv, TypeOK, ChainTypeOK
  <2> QED
    BY SMTT(30), <1>1, <2>3, <2>4 DEF IsActive, Inv, ChainInv
<1>5. job' \in Job /\ BranchInv'
  BY Zenon, <1>1, <1>3, <1>4, PrependBranch
<1>6. job'.ledger = GenesisLedger
  BY Zenon, <1>1 DEF Inv, ReplayInv, TypeOK, ImportTypeOK, Job
<1>7. ImportTypeOK'
  BY Zenon, <1>1, <1>5 DEF Inv, TypeOK, ImportTypeOK
<1>8. AcceptedInv'
  BY <1>1, <1>3 DEF Inv, AcceptedInv, Trunk, Branching, Accepted
<1>9. TodoInv' /\ ReplayInv'
  BY Zenon, <1>1, <1>6 DEF TodoInv, ReplayInv
<1>10. OldInv'
  BY <1>1, <1>3 DEF Inv, OldInv, Top
<1>11. BestInv' /\ RefusedLeavesHead'
  BY Zenon, <1>1, <1>3, BestFrame
<1> QED
  BY Zenon, <1>2, <1>5, <1>7, <1>8, <1>9, <1>10, <1>11 DEF Inv, TypeOK

LEMMA CollectAncestorInv ==
    ASSUME Inv, CollectAncestor
    PROVE  Inv'
<1>1. /\ pc = "ancestors" /\ UNCHANGED chainVars /\ UNCHANGED <<result, before>>
      /\ \/ /\ pc' = "ancestors" /\ Head(job.new).prev # Genesis
            /\ job' = [job EXCEPT !.new = <<Parent.block>> \o job.new]
         \/ pc' = "replay" /\ job' = [job EXCEPT !.todo = job.new]
  BY Zenon DEF CollectAncestor
<1>2. ChainTypeOK' /\ IndexInv' /\ ChainInv' /\ RingAligned'
  BY Zenon, <1>1, FrameFacts
<1>3. UNCHANGED <<index, blocks, head>>
  BY Zenon, <1>1 DEF chainVars
<1>4. job \in Job /\ job.ledger = GenesisLedger /\ BranchInv
  BY Zenon, <1>1 DEF Inv, ReplayInv, TypeOK, ImportTypeOK
<1>5. job' \in Job /\ BranchInv' /\ ReplayInv'
  <2>1. CASE pc' = "ancestors"
    <3>1. job' \in Job /\ BranchInv'
      BY Zenon, <2>1, <1>1, <1>3, PrependBranch, ParentFacts
    <3>2. job'.ledger = GenesisLedger
      BY Zenon, <2>1, <1>1, <1>4 DEF Job
    <3> QED
      BY Zenon, <2>1, <3>1, <3>2 DEF ReplayInv
  <2>2. CASE pc' = "replay"
    <3>1. /\ job' \in Job /\ job'.ledger = GenesisLedger /\ job'.todo = job.new
          /\ job'.new = job.new /\ job'.block = job.block /\ job'.reorg = job.reorg
      BY Zenon, <2>2, <1>1, <1>4 DEF Job
    <3>2. BranchInv'
      BY ZenonT(60), <2>2, <3>1, <1>1, <1>3, <1>4 DEF BranchInv, Accepted
    <3>3. Len(job.new) \in Nat
      BY Zenon, <1>4, LenProperties DEF Job
    <3>4. ReplayInv'
      BY SMTT(30), <2>2, <3>1, <3>3 DEF ReplayInv, Replayed
    <3> QED
      BY Zenon, <3>1, <3>2, <3>4
  <2> QED
    BY Zenon, <2>1, <2>2, <1>1
<1>6. ImportTypeOK'
  BY Zenon, <1>1, <1>5 DEF Inv, TypeOK, ImportTypeOK, Pcs
<1>7. AcceptedInv'
  BY SMTT(30), <1>1, <1>3 DEF Inv, AcceptedInv, Trunk, Branching, Accepted
<1>8. TodoInv'
  BY Zenon, <1>1 DEF TodoInv
<1>9. OldInv'
  <2>1. job'.old = job.old
    BY Zenon, <1>1, <1>4 DEF Job
  <2> QED
    BY Zenon, <2>1, <1>1, <1>3 DEF Inv, OldInv, Top
<1>10. BestInv' /\ RefusedLeavesHead'
  BY Zenon, <1>1, <1>3, BestFrame
<1> QED
  BY Zenon, <1>2, <1>5, <1>6, <1>7, <1>8, <1>9, <1>10 DEF Inv, TypeOK

LEMMA ForkFoundInv ==
    ASSUME Inv, ForkFound
    PROVE  Inv'
<1>1. /\ pc = "locate" /\ UNCHANGED chainVars /\ UNCHANGED <<result, before>>
      /\ IsActive(Parent)
      /\ \/ /\ pc' = "disconnect"
            /\ job' = [job EXCEPT !.fork = Parent.height, !.todo = job.new]
         \/ pc' = "ancestors" /\ job' = job
  BY Zenon DEF ForkFound
<1>2. ChainTypeOK' /\ IndexInv' /\ ChainInv' /\ RingAligned'
  BY Zenon, <1>1, FrameFacts
<1>3. UNCHANGED <<index, blocks, head>>
  BY Zenon, <1>1 DEF chainVars
<1>4. job \in Job /\ job.ledger = GenesisLedger /\ BranchInv
  BY Zenon, <1>1 DEF Inv, ReplayInv, TypeOK, ImportTypeOK
<1>5. Parent.height \in Nat /\ Parent.height < Len(blocks)
  BY Zenon, <1>1, ParentFacts DEF IsActive, Entry
<1>6. /\ job' \in Job /\ job'.ledger = GenesisLedger /\ job'.new = job.new
      /\ job'.block = job.block /\ job'.reorg = job.reorg /\ job'.old = job.old
      /\ pc' = "disconnect" => job'.fork = Parent.height /\ job'.todo = job.new
  BY ZenonT(60), <1>1, <1>4, <1>5 DEF Job
<1>7. ImportTypeOK'
  BY Zenon, <1>1, <1>6 DEF Inv, TypeOK, ImportTypeOK, Pcs
<1>8. AcceptedInv'
  BY <1>1, <1>3 DEF Inv, AcceptedInv, Trunk, Branching, Accepted
<1>9. BranchInv'
  BY ZenonT(60), <1>1, <1>3, <1>4, <1>6 DEF BranchInv, Accepted
<1>10. TodoInv'
  BY Zenon, <1>1, <1>3, <1>4, <1>6 DEF BranchInv, TodoInv, Accepted
<1>11. OldInv'
  BY Zenon, <1>1, <1>3, <1>5, <1>6 DEF Inv, OldInv, OldChain, Trunk, Branching, Top
<1>12. ReplayInv'
  BY Zenon, <1>1, <1>6 DEF ReplayInv
<1>13. BestInv' /\ RefusedLeavesHead'
  BY Zenon, <1>1, <1>3, BestFrame
<1> QED
  BY Zenon, <1>2, <1>7, <1>8, <1>9, <1>10, <1>11, <1>12, <1>13 DEF Inv, TypeOK

(* A fully connected branch: its last block follows its parent.            *)
LEMMA ConnectedTipFollows ==
    ASSUME Inv, pc = "connect", job.todo = <<>>
    PROVE  Follows(job.block, index[job.block.prev].block)
<1>1. Len(blocks) \in Nat \ {0}
  BY Zenon, EmptySeq DEF Inv, TypeOK, ChainTypeOK
<1>2. /\ blocks[Len(blocks)] = job.block /\ job.block.hash # Genesis
      /\ job.block.hash \notin DOMAIN index /\ job.block.prev \in DOMAIN index
  BY Zenon DEF Inv, TodoInv, BranchInv, Top
<1>3. Len(blocks) > 1
  BY SMTT(30), <1>1, <1>2 DEF Inv, ChainInv, GenesisBlock
<1>4. Follows(job.block, blocks[Len(blocks) - 1])
  BY SMTT(30), <1>1, <1>2, <1>3 DEF Inv, ChainInv
<1>5. /\ Trunk \in 1..Len(blocks)
      /\ Accepted(blocks[Len(blocks) - 1]) \/ blocks[Len(blocks) - 1] = job.block
  BY SMTT(30), <1>1, <1>3 DEF Inv, AcceptedInv
<1>6. Accepted(blocks[Len(blocks) - 1])
  BY Zenon, <1>2, <1>4, <1>5 DEF Follows
<1> QED
  BY Zenon, <1>4, <1>6 DEF Follows, Accepted

(* A fully replayed branch likewise.                                       *)
LEMMA ReplayedTipFollows ==
    ASSUME Inv, pc = "replay", job.todo = <<>>
    PROVE  /\ Follows(job.block, index[job.block.prev].block)
           /\ Len(job.new) \in Nat \ {0} /\ job.new[Len(job.new)] = job.block
           /\ Follows(job.new[1], GenesisBlock)
           /\ \A i \in 2..Len(job.new) : Follows(job.new[i], job.new[i - 1])
           /\ job.ledger = [at |-> job.block.hash, txs |-> job.block.root]
<1>1. job \in Job /\ BranchInv /\ ReplayInv /\ IndexInv
  BY Zenon DEF Inv, TypeOK, ImportTypeOK
<1>2. Len(job.new) \in Nat \ {0} /\ Len(job.todo) = 0
  BY Zenon, <1>1, EmptySeq, EmptyLen DEF Job, BranchInv
<1>3. Replayed = Len(job.new)
  BY SMTT(30), <1>2 DEF Replayed
<1>4. /\ Follows(job.new[1], GenesisBlock)
      /\ \A i \in 2..Len(job.new) : Follows(job.new[i], job.new[i - 1])
      /\ job.ledger = [at |-> job.new[Len(job.new)].hash, txs |-> job.new[Len(job.new)].root]
  BY SMTT(30), <1>1, <1>2, <1>3 DEF ReplayInv
<1>5. job.new[Len(job.new)] = job.block
  BY Zenon, <1>1 DEF BranchInv, Top
<1>6. Follows(job.block, index[job.block.prev].block)
  <2>1. CASE Len(job.new) = 1
    <3>1. Follows(job.block, GenesisBlock)
      BY Zenon, <1>4, <1>5, <2>1
    <3>2. job.block.prev = Genesis
      BY Zenon, <3>1 DEF Follows, GenesisBlock
    <3>3. index[Genesis].block = GenesisBlock
      BY <1>1 DEF IndexInv
    <3> QED
      BY Zenon, <3>1, <3>2, <3>3
  <2>2. CASE Len(job.new) # 1
    <3>1. /\ Len(job.new) \in 2..Len(job.new)
          /\ Len(job.new) - 1 \in 1..Len(job.new)
      BY ZenonT(60), <2>2, <1>2, TwoOrMore
    <3>2. Follows(job.block, job.new[Len(job.new) - 1])
      BY Zenon, <3>1, <1>4, <1>5
    <3>3. Accepted(job.new[Len(job.new) - 1]) \/ job.new[Len(job.new) - 1] = job.block
      BY Zenon, <3>1, <1>1 DEF BranchInv
    <3>4. Accepted(job.new[Len(job.new) - 1])
      BY Zenon, <3>2, <3>3, <1>1 DEF Follows, BranchInv
    <3> QED
      BY Zenon, <3>2, <3>4 DEF Follows, Accepted
  <2> QED
    BY Zenon, <2>1, <2>2
<1> QED
  BY Zenon, <1>2, <1>4, <1>5, <1>6

(* Storing a branch that outweighs the old head, and adopting it, keeps    *)
(* the head best.                                                          *)
LEMMA AdoptBest ==
    ASSUME Inv, pc \notin {"idle", "panic"}, job.reorg,
           \A x \in DOMAIN index : index'[x] = index[x],
           DOMAIN index' = DOMAIN index \cup {job.block.hash},
           index'[job.block.hash].work = index[job.block.prev].work + job.block.work,
           head' = job.block.hash, pc' = "idle"
    PROVE  BestInv'
<1>1. BranchInv /\ \A x \in DOMAIN index : NoBetter(x, before.head)
  BY Zenon DEF Inv, BestInv
<1>2. \A x \in DOMAIN index : index[x].work \in Nat
  BY Zenon DEF Inv, TypeOK, ChainTypeOK, Entry
<1>3. job.block.hash \in Nat /\ job.block.work \in Nat /\ before.head \in Nat
  BY ZenonT(60), <1>1 DEF BranchInv, Block, Inv, TypeOK, ImportTypeOK
<1>4. \A x \in DOMAIN index : x \in Nat
  BY Zenon DEF Inv, TypeOK, ChainTypeOK
<1>5. /\ before.head \in DOMAIN index /\ job.block.prev \in DOMAIN index
      /\ \/ index'[head'].work > index[before.head].work
         \/ index'[head'].work = index[before.head].work /\ head' < before.head
  BY Zenon, <1>1 DEF BranchInv
<1>6. \A x \in DOMAIN index' : NoBetter(x, head)'
  <2> TAKE x \in DOMAIN index'
  <2>1. CASE x \in DOMAIN index
    <3>1. NoBetter(x, before.head) /\ index'[x].work = index[x].work
      BY Zenon, <2>1, <1>1
    <3>2. index'[head'].work \in Nat /\ index[x].work \in Nat /\ x \in Nat
      BY SMTT(30), <2>1, <1>2, <1>3, <1>4, <1>5
    <3> QED
      BY SMTT(30), <3>1, <3>2, <1>2, <1>3, <1>5 DEF NoBetter
  <2>2. CASE x = job.block.hash
    BY SMTT(30), <2>2, <1>3 DEF NoBetter
  <2> QED
    BY Zenon, <2>1, <2>2
<1> QED
  BY Zenon, <1>6 DEF BestInv, HeadBest

(* Storing a branch that does not outweigh it, or nothing, also does.      *)
LEMMA StoreBest ==
    ASSUME Inv, pc \notin {"idle", "panic"},
           \/ index' = index
           \/ /\ ~job.reorg
              /\ \A x \in DOMAIN index : index'[x] = index[x]
              /\ DOMAIN index' = DOMAIN index \cup {job.block.hash}
              /\ index'[job.block.hash].work = index[job.block.prev].work + job.block.work,
           head' = before.head, pc' = "idle"
    PROVE  BestInv'
<1>1. BranchInv /\ \A x \in DOMAIN index : NoBetter(x, before.head)
  BY Zenon DEF Inv, BestInv
<1>2. \A x \in DOMAIN index : index[x].work \in Nat
  BY Zenon DEF Inv, TypeOK, ChainTypeOK, Entry
<1>3. job.block.hash \in Nat /\ job.block.work \in Nat /\ before.head \in Nat
  BY ZenonT(60), <1>1 DEF BranchInv, Block, Inv, TypeOK, ImportTypeOK
<1>4. \A x \in DOMAIN index' : NoBetter(x, head)'
  <2>1. CASE index' = index
    BY Zenon, <2>1, <1>1 DEF NoBetter
  <2>2. CASE index' # index
    <3>1. /\ before.head \in DOMAIN index /\ job.block.prev \in DOMAIN index
          /\ before.head # job.block.hash
          /\ index'[before.head] = index[before.head]
          /\ ~ \/ index'[job.block.hash].work > index[before.head].work
               \/ /\ index'[job.block.hash].work = index[before.head].work
                  /\ job.block.hash < before.head
      BY ZenonT(60), <2>2, <1>1 DEF BranchInv
    <3>2. index'[job.block.hash].work \in Nat
      BY SMTT(30), <2>2, <3>1, <1>2, <1>3
    <3>3. \A x : x = job.block.hash => NoBetter(x, head)'
      BY SMTT(30), <3>1, <3>2, <1>2, <1>3 DEF NoBetter
    <3>4. \A x \in DOMAIN index : NoBetter(x, head)'
      BY Zenon, <2>2, <3>1, <1>1 DEF NoBetter
    <3> QED
      BY Zenon, <2>2, <3>3, <3>4
  <2> QED
    BY Zenon, <2>1, <2>2
<1> QED
  BY Zenon, <1>4 DEF BestInv, HeadBest

LEMMA FinishFacts ==
    ASSUME Inv, NEW ok \in BOOLEAN, NEW reverted \in SUBSET Tx, Finish(ok, reverted)
    PROVE  /\ ImportTypeOK'
           /\ BranchInv' /\ TodoInv' /\ ReplayInv'
BY ZenonT(60), GenesisFacts
DEF Inv, TypeOK, ImportTypeOK, Finish, Pcs, BranchInv, TodoInv, ReplayInv

LEMMA SideBranchValidInv ==
    ASSUME Inv, SideBranchValid
    PROVE  Inv'
<1>1. /\ pc = "connect" /\ pc' = "rollback" /\ job.todo = <<>> /\ ~job.reorg
      /\ UNCHANGED chainVars /\ UNCHANGED <<job, result, before>>
  BY Zenon DEF SideBranchValid
<1>2. ChainTypeOK' /\ IndexInv' /\ ChainInv' /\ RingAligned'
  BY Zenon, <1>1, FrameFacts
<1>3. UNCHANGED <<index, blocks, head>>
  BY Zenon, <1>1 DEF chainVars
<1>4. ImportTypeOK'
  BY Zenon, <1>1 DEF Inv, TypeOK, ImportTypeOK, Pcs
<1>5. AcceptedInv'
  BY Zenon, <1>1, <1>3 DEF Inv, AcceptedInv, Trunk, Branching, Accepted
<1>6. BranchInv'
  BY ZenonT(60), <1>1, <1>3 DEF Inv, BranchInv, Accepted
<1>7. TodoInv'
  BY Zenon, <1>1, <1>3, ConnectedTipFollows DEF TodoInv, Follows
<1>8. OldInv'
  BY Zenon, <1>1, <1>3 DEF Inv, OldInv, OldChain, Trunk, Branching, Accepted
<1>9. ReplayInv'
  BY Zenon, <1>1 DEF ReplayInv
<1>10. BestInv' /\ RefusedLeavesHead'
  BY Zenon, <1>1, <1>3, BestFrame
<1> QED
  BY Zenon, <1>2, <1>4, <1>5, <1>6, <1>7, <1>8, <1>9, <1>10 DEF Inv, TypeOK

LEMMA StoreSideBranchInv ==
    ASSUME Inv, StoreSideBranch
    PROVE  Inv'
<1>1. /\ pc = "replay" /\ pc' = "idle" /\ job.todo = <<>> /\ ~job.reorg
      /\ InsertEntry(job.block) /\ Finish(TRUE, {}) /\ result'.ok = TRUE
      /\ UNCHANGED <<blocks, head, ledger, signals, undo_ring, active_receipts,
                     tx_height, difficulty, before>>
  BY Zenon DEF StoreSideBranch, Finish
<1>2. /\ job.block \in Offered /\ job.block.hash \notin DOMAIN index
      /\ job.block.prev \in DOMAIN index
  BY Zenon, <1>1 DEF Inv, BranchInv
<1>3. /\ DOMAIN index' = DOMAIN index \cup {job.block.hash}
      /\ DOMAIN index' \subseteq Hash
      /\ index' \in [DOMAIN index' -> Entry]
      /\ \A x \in DOMAIN index : index'[x] = index[x]
      /\ index'[job.block.hash].work = index[job.block.prev].work + job.block.work
      /\ IndexInv'
  BY ZenonT(60), <1>1, <1>2, ReplayedTipFollows, InsertFacts
<1>4. ChainTypeOK'
  BY Zenon, <1>1, <1>3 DEF Inv, TypeOK, ChainTypeOK
<1>5. ImportTypeOK' /\ BranchInv' /\ TodoInv' /\ ReplayInv'
  BY Zenon, <1>1, FinishFacts
<1>6. ChainInv' /\ RingAligned'
  BY Zenon, <1>1 DEF Inv, ChainInv, StateFollowsChain, RingAligned, Top, Height
<1>7. AcceptedInv'
  BY <1>1, <1>3 DEF Inv, AcceptedInv, Trunk, Branching, Accepted
<1>8. OldInv' /\ RefusedLeavesHead'
  BY ZenonT(60), <1>1 DEF Inv, OldInv, Top, RefusedLeavesHead
<1>9. BestInv'
  BY Zenon, <1>1, <1>3, StoreBest DEF Inv, OldInv
<1> QED
  BY Zenon, <1>3, <1>4, <1>5, <1>6, <1>7, <1>8, <1>9 DEF Inv, TypeOK

(* A step of the replay from genesis.                                      *)
LEMMA ReplayStepInv ==
    ASSUME Inv, Replay
    PROVE  Inv'
<1>1. /\ pc = "replay" /\ job.todo # <<>> /\ UNCHANGED chainVars
      /\ \/ /\ Executes(job.ledger, Head(job.todo))
            /\ job' = [job EXCEPT !.todo = Tail(job.todo),
                                  !.ledger = Execute(job.ledger, Head(job.todo))]
            /\ UNCHANGED <<pc, result, before>>
         \/ Finish(FALSE, {})
  BY Zenon DEF Replay
<1>2. ChainTypeOK' /\ IndexInv' /\ ChainInv' /\ RingAligned'
  BY Zenon, <1>1, FrameFacts
<1>3. UNCHANGED <<index, blocks, head>>
  BY Zenon, <1>1 DEF chainVars
<1>4. job \in Job /\ BranchInv /\ ReplayInv
  BY Zenon DEF Inv, TypeOK, ImportTypeOK
<1>5. /\ head = before.head /\ head = Top(blocks).hash /\ job.old = <<>>
  BY Zenon, <1>1 DEF Inv, OldInv
<1>6. CASE Finish(FALSE, {})
  <2>1. pc' = "idle" /\ before' = before
    BY Zenon, <1>6 DEF Finish
  <2>2. ImportTypeOK' /\ BranchInv' /\ TodoInv' /\ ReplayInv'
    BY ZenonT(60), <1>6, FinishFacts
  <2>3. AcceptedInv'
    BY SMTT(30), <1>1, <1>3, <2>1 DEF Inv, AcceptedInv, Trunk, Branching, Accepted
  <2>4. OldInv' /\ RefusedLeavesHead'
    BY ZenonT(60), <1>3, <1>5, <2>1 DEF OldInv, Top, RefusedLeavesHead
  <2>5. BestInv'
    BY Zenon, <1>1, <1>3, <1>5, <2>1, StoreBest
  <2> QED
    BY Zenon, <1>2, <2>2, <2>3, <2>4, <2>5 DEF Inv, TypeOK
<1>7. CASE ~Finish(FALSE, {})
  <2> DEFINE b == Head(job.todo)
  <2>1. /\ Executes(job.ledger, b) /\ UNCHANGED <<pc, result, before>>
        /\ job' = [job EXCEPT !.todo = Tail(job.todo), !.ledger = Execute(job.ledger, b)]
    BY ZenonT(60), <1>1, <1>7
  <2>2. /\ Tail(job.todo) \in Seq(Block) /\ Len(job.todo) \in Nat \ {0}
        /\ Len(Tail(job.todo)) = Len(job.todo) - 1
        /\ \A i \in 1..Len(job.todo) - 1 : Tail(job.todo)[i] = job.todo[i + 1]
        /\ b = job.todo[1] /\ b \in Block
    BY SMTT(30), <1>1, <1>4, TailFacts DEF Job
  <2> HIDE DEF b
  <2>3. Execute(job.ledger, b) = [at |-> b.hash, txs |-> b.root]
    BY Zenon, <2>1 DEF Execute, Executes
  <2>4. [at |-> b.hash, txs |-> b.root] \in Ledgers
    BY Zenon, <2>2 DEF Ledgers, Block
  <2>5. /\ job' \in Job /\ job'.todo = Tail(job.todo) /\ job'.new = job.new
        /\ job'.ledger = [at |-> b.hash, txs |-> b.root]
        /\ job'.block = job.block /\ job'.reorg = job.reorg /\ job'.old = job.old
    BY ZenonT(60), <1>4, <2>1, <2>2, <2>3, <2>4 DEF Job
  <2>6. Len(job.new) \in Nat
    BY Zenon, <1>4, LenProperties DEF Job
  <2>7. /\ Replayed \in 0..Len(job.new) /\ Replayed' = Replayed + 1
        /\ Replayed + 1 <= Len(job.new) /\ Replayed \in Nat
    <3>1. Replayed \in 0..Len(job.new)
      BY Zenon, <1>1, <1>4 DEF ReplayInv
    <3>2. Replayed = Len(job.new) - Len(job.todo)
      BY Zenon DEF Replayed
    <3>3. Replayed' = Len(job.new) - (Len(job.todo) - 1)
      BY ZenonT(60), <2>2, <2>5 DEF Replayed
    <3>4. Replayed \in Nat
      BY SMTT(30), <3>1, <2>6
    <3>5. /\ Len(job.new) - (Len(job.todo) - 1) = Replayed + 1
          /\ Replayed + 1 <= Len(job.new)
      BY SMTT(30), <3>2, <3>4, <2>2, <2>6, OneMore
    <3> QED
      BY ZenonT(60), <3>1, <3>3, <3>4, <3>5
  <2>8. b = job.new[Replayed + 1]
    BY SMTT(30), <1>1, <1>4, <2>2 DEF ReplayInv
  <2>9. ReplayInv'
    <3>1. \A i \in 1..Len(job'.todo) : job'.todo[i] = job'.new[Replayed' + i]
      <4> TAKE i \in 1..Len(job'.todo)
      <4>1. i + 1 \in 1..Len(job.todo) /\ job'.todo[i] = job.todo[i + 1]
        BY SMTT(30), <2>2, <2>5
      <4>2. job.todo[i + 1] = job.new[Replayed + (i + 1)]
        BY Zenon, <4>1, <1>1, <1>4 DEF ReplayInv
      <4>3. Replayed + (i + 1) = Replayed' + i
        BY SMTT(30), <2>7
      <4> QED
        BY Zenon, <4>1, <4>2, <4>3, <2>5
    <3>2. Follows(job.new[1], GenesisBlock)
      <4>1. CASE Replayed = 0
        <5>1. job.ledger = GenesisLedger /\ b = job.new[1]
          BY SMTT(30), <4>1, <1>1, <1>4, <2>8 DEF ReplayInv
        <5> QED
          BY <5>1, <2>1 DEF Executes, Follows, GenesisLedger, GenesisBlock
      <4>2. CASE Replayed # 0
        BY SMTT(30), <4>2, <1>1, <1>4, <2>7 DEF ReplayInv
      <4> QED
        BY Zenon, <4>1, <4>2
    <3>3. \A i \in 2..Replayed + 1 : Follows(job.new[i], job.new[i - 1])
      <4> TAKE i \in 2..Replayed + 1
      <4>1. CASE i \in 2..Replayed
        BY Zenon, <4>1, <1>1, <1>4 DEF ReplayInv
      <4>2. CASE i = Replayed + 1
        <5>1. i - 1 = Replayed /\ Replayed # 0
          BY <4>2, <2>7
        <5>2. job.ledger = [at |-> job.new[Replayed].hash, txs |-> job.new[Replayed].root]
          BY Zenon, <5>1, <1>1, <1>4 DEF ReplayInv
        <5>3. Follows(b, job.new[Replayed])
          BY SMTT(30), <5>2, <2>1 DEF Executes, Follows
        <5> QED
          BY Zenon, <4>2, <5>1, <5>3, <2>8
      <4> QED
        BY SMTT(30), <4>1, <4>2, <2>7
    <3>4. job'.ledger = [at |-> job.new[Replayed + 1].hash, txs |-> job.new[Replayed + 1].root]
      BY Zenon, <2>5, <2>8
    <3>5. Replayed' # 0 /\ Replayed' \in 0..Len(job.new)
      BY <2>6, <2>7
    <3> QED
      BY Zenon, <3>1, <3>2, <3>3, <3>4, <3>5, <2>1, <2>5, <2>7, <1>1 DEF ReplayInv
  <2>10. ImportTypeOK'
    BY Zenon, <2>1, <2>5 DEF Inv, TypeOK, ImportTypeOK
  <2>11. AcceptedInv'
    BY SMTT(30), <1>1, <1>3, <2>1 DEF Inv, AcceptedInv, Trunk, Branching, Accepted
  <2>12. BranchInv'
    BY ZenonT(60), <1>3, <1>4, <2>1, <2>5 DEF BranchInv, Accepted
  <2>13. TodoInv' /\ OldInv'
    BY Zenon, <1>1, <1>3, <1>5, <2>1, <2>5 DEF TodoInv, OldInv, Top
  <2>14. BestInv' /\ RefusedLeavesHead'
    BY Zenon, <1>1, <1>3, <2>1, BestFrame
  <2> QED
    BY Zenon, <1>2, <2>9, <2>10, <2>11, <2>12, <2>13, <2>14 DEF Inv, TypeOK
<1> QED
  BY Zenon, <1>6, <1>7

(* The replayed branch becomes the active chain.                           *)
LEMMA AdoptRebuiltInv ==
    ASSUME Inv, AdoptRebuilt
    PROVE  Inv'
<1> DEFINE new == job.new
           b == job.block
<1>1. /\ pc = "replay" /\ pc' = "idle" /\ job.todo = <<>> /\ job.reorg
      /\ InsertEntry(b) /\ ledger' = job.ledger
      /\ blocks' = <<GenesisBlock>> \o new
      /\ signals' = [h \in 1..Len(new) |-> new[h].bits]
      /\ head' = b.hash /\ difficulty' = b.hash /\ undo_ring' = <<>>
      /\ active_receipts' = UNION {{<<h, t>> : t \in new[h].txs} : h \in 1..Len(new)}
      /\ tx_height' = UNION {{<<t, h>> : t \in new[h].txs} : h \in 1..Len(new)}
      /\ result'.ok = TRUE
  BY Zenon DEF AdoptRebuilt, Finish
<1>2. /\ b \in Offered /\ b.hash \notin DOMAIN index /\ b.prev \in DOMAIN index
      /\ b \in Block /\ b.hash # Genesis
  BY Zenon, <1>1 DEF Inv, BranchInv
<1>3. /\ Follows(b, index[b.prev].block)
      /\ Len(new) \in Nat \ {0} /\ new[Len(new)] = b
      /\ Follows(new[1], GenesisBlock)
      /\ \A i \in 2..Len(new) : Follows(new[i], new[i - 1])
      /\ job.ledger = [at |-> b.hash, txs |-> b.root]
  BY Zenon, <1>1, ReplayedTipFollows
<1>4. /\ DOMAIN index' = DOMAIN index \cup {b.hash}
      /\ DOMAIN index' \subseteq Hash
      /\ index' \in [DOMAIN index' -> Entry]
      /\ \A x \in DOMAIN index : index'[x] = index[x]
      /\ index'[b.hash].block = b
      /\ index'[b.hash].work = index[b.prev].work + b.work
      /\ IndexInv'
  BY ZenonT(60), <1>1, <1>2, <1>3, InsertFacts
<1>5. new \in Seq(Block) /\ \A i \in 1..Len(new) : new[i] \in Block
  BY Zenon, ElementOfSeq DEF Inv, TypeOK, ImportTypeOK, Job
<1>6. /\ \A i \in 1..Len(new) : /\ new[i].hash # Genesis
                                /\ Accepted(new[i]) \/ new[i] = b
  BY Zenon, <1>1 DEF Inv, BranchInv
<1>7. /\ blocks' \in Seq(Block) /\ blocks' # <<>>
      /\ Len(blocks') = Len(new) + 1 /\ blocks'[1] = GenesisBlock
      /\ \A i \in 1..Len(new) : blocks'[i + 1] = new[i]
      /\ \A i \in 2..Len(new) + 1 : blocks'[i] = new[i - 1]
  BY SMTT(60), <1>1, <1>5, PrependFacts, GenesisFacts
<1>8. ledger' = [at |-> b.hash, txs |-> b.root] /\ ledger' \in Ledgers
  BY SMTT(30), <1>1, <1>2, <1>3 DEF Ledgers, Block
<1> HIDE DEF new, b
<1>9. ChainTypeOK'
  <2>1. DOMAIN signals' \subseteq Nat /\ signals' \in [DOMAIN signals' -> Bits]
    <3>1. signals' = [h \in 1..Len(new) |-> new[h].bits]
      BY Zenon, <1>1
    <3>2. \A h \in 1..Len(new) : new[h].bits \in Bits
      BY Zenon, <1>5 DEF Block
    <3>3. 1..Len(new) \subseteq Nat
      BY SMTT(30), <1>3
    <3> QED
      BY Zenon, <3>1, <3>2, <3>3
  <2>2. active_receipts' \subseteq Nat \X Tx /\ tx_height' \subseteq Tx \X Nat
    BY SMTT(60), <1>1, <1>3, <1>5 DEF Block
  <2>3. undo_ring' \in Seq(Undo) /\ Len(undo_ring') <= UndoWindow
    BY <1>1
  <2> QED
    BY Zenon, <2>1, <2>2, <2>3, <1>1, <1>4, <1>7, <1>8 DEF ChainTypeOK
<1>10. ChainInv'
  <2>1. \A i \in 2..Len(blocks') :
           Follows(blocks'[i], blocks'[i - 1]) /\ blocks'[i].hash # Genesis
    <3> TAKE i \in 2..Len(blocks')
    <3>1. blocks'[i] = new[i - 1] /\ i - 1 \in 1..Len(new)
      BY SMTT(30), <1>3, <1>7
    <3>2. CASE i = 2
      BY SMTT(60), <3>1, <3>2, <1>3, <1>6, <1>7
    <3>3. CASE i # 2
      <4>1. i - 1 \in 2..Len(new) /\ i - 1 \in 2..Len(new) + 1
        BY SMTT(30), <3>3, <1>3, <1>7
      <4>2. blocks'[i - 1] = new[i - 1 - 1]
        BY Zenon, <4>1, <1>7
      <4> QED
        BY Zenon, <3>1, <4>1, <4>2, <1>3, <1>6
    <3> QED
      BY Zenon, <3>2, <3>3
  <2>2. \A i \in 2..Len(blocks') : blocks'[i].prev = blocks'[i - 1].hash
    BY Zenon, <2>1 DEF Follows
  <2>3. blocks'[Len(blocks')] = b
    BY SMTT(60), <1>3, <1>7
  <2>4. signals' = [h \in 1..Len(blocks') - 1 |-> blocks'[h + 1].bits]
    BY SMTT(30), <1>1, <1>3, <1>7
  <2> QED
    BY Zenon, <2>1, <2>2, <2>3, <2>4, <1>7, <1>8 DEF ChainInv, StateFollowsChain, Top, Height
<1>11. RingAligned'
  BY SMTT(60), <1>1, <1>3, <1>7 DEF RingAligned, Height
<1>12. AcceptedInv'
  <2>1. \A i \in 1..Len(blocks') : Accepted(blocks[i])'
    <3> TAKE i \in 1..Len(blocks')
    <3>1. CASE i = 1
      <4>1. GenesisBlock.hash = Genesis
        BY Zenon DEF GenesisBlock
      <4>2. Genesis \in DOMAIN index' /\ index'[Genesis].block = GenesisBlock
        BY SMTT(30), <1>4 DEF IndexInv
      <4> QED
        BY Zenon, <3>1, <4>1, <4>2, <1>7 DEF Accepted
    <3>2. CASE i # 1
      <4>1. i - 1 \in 1..Len(new) /\ blocks'[i] = new[i - 1]
        BY <3>2, <1>3, <1>7
      <4> QED
        BY SMTT(60), <4>1, <1>4, <1>6 DEF Accepted
    <3> QED
      BY Zenon, <3>1, <3>2
  <2> QED
    BY SMTT(30), <2>1, <1>1, <1>3, <1>7 DEF AcceptedInv, Trunk, Branching
<1>13. ImportTypeOK' /\ BranchInv' /\ TodoInv' /\ ReplayInv'
  <2> DEFINE S == {j \in 1..Len(blocks) :
                      \A k \in 1..Len(job.new) : job.new[k].hash # blocks[j].hash}
             rev == UNION {blocks[i].txs : i \in S}
  <2>1. Finish(TRUE, rev)
    BY ZenonT(60) DEF AdoptRebuilt
  <2>2. \A i \in 1..Len(blocks) : blocks[i] \in Block
    BY Zenon, ElementOfSeq DEF Inv, TypeOK, ChainTypeOK
  <2>3. rev \in SUBSET Tx
    BY SMTT(30), <2>2 DEF Block
  <2> HIDE DEF rev
  <2> QED
    BY ZenonT(60), <2>1, <2>3, FinishFacts
<1>14. OldInv' /\ RefusedLeavesHead'
  BY SMTT(30), <1>1, <1>3, <1>7 DEF OldInv, Top, RefusedLeavesHead
<1>15. BestInv'
  BY Zenon, <1>1, <1>4, AdoptBest DEF b
<1> QED
  BY Zenon, <1>4, <1>9, <1>10, <1>11, <1>12, <1>13, <1>14, <1>15 DEF Inv, TypeOK

(* Receipt maps stay typed when a block is indexed.                        *)
LEMMA ReceiptTypes ==
    ASSUME Inv, NEW b \in Block, IndexBlockReceipts(b)
    PROVE  active_receipts' \subseteq Nat \X Tx /\ tx_height' \subseteq Tx \X Nat
<1>1. Len(blocks) \in Nat
  BY Zenon, LenProperties DEF Inv, TypeOK, ChainTypeOK
<1>2. active_receipts \subseteq Nat \X Tx /\ tx_height \subseteq Tx \X Nat
  BY Zenon DEF Inv, TypeOK, ChainTypeOK
<1> QED
  BY SMTT(30), <1>1, <1>2 DEF IndexBlockReceipts, IndexReceipts, IndexTxHeight, Block

(* disconnect_to pops the last block and its log and restores the ledger   *)
(* the block before it left.                                               *)
LEMMA PopFacts ==
    ASSUME Inv, Len(blocks) > 1, undo_ring # <<>>,
           ledger' = Top(undo_ring).undo, undo_ring' = Front(undo_ring),
           blocks' = Front(blocks), signals' = RemoveSignal(signals, Height)
    PROVE  /\ blocks' \in Seq(Block) /\ blocks' # <<>> /\ Len(blocks) \in Nat
           /\ Len(blocks') = Len(blocks) - 1
           /\ \A i \in 1..Len(blocks') : blocks'[i] = blocks[i]
           /\ ledger' \in Ledgers
           /\ DOMAIN signals' \subseteq Nat /\ signals' \in [DOMAIN signals' -> Bits]
           /\ undo_ring' \in Seq(Undo) /\ Len(undo_ring') <= UndoWindow
           /\ ChainInv'
           /\ RingAligned'
<1>1. /\ blocks \in Seq(Block) /\ blocks # <<>> /\ undo_ring \in Seq(Undo)
      /\ Len(undo_ring) <= UndoWindow
      /\ DOMAIN signals \subseteq Nat /\ signals \in [DOMAIN signals -> Bits]
  BY Zenon DEF Inv, TypeOK, ChainTypeOK
<1>2. /\ Len(blocks) \in Nat /\ Len(undo_ring) \in Nat \ {0}
      /\ \A i \in 1..Len(blocks) : blocks[i] \in Block
  BY Zenon, <1>1, EmptySeq, LenProperties, ElementOfSeq
<1>3. /\ blocks' \in Seq(Block) /\ Len(blocks') = Len(blocks) - 1
      /\ \A i \in 1..Len(blocks) - 1 : blocks'[i] = blocks[i]
  BY ZenonT(60), <1>1, FrontFacts
<1>4. /\ undo_ring' \in Seq(Undo) /\ Len(undo_ring') = Len(undo_ring) - 1
      /\ \A i \in 1..Len(undo_ring) - 1 : undo_ring'[i] = undo_ring[i]
  BY ZenonT(60), <1>1, FrontFacts
<1>5. blocks' # <<>>
  BY SMTT(30), <1>2, <1>3, EmptyLen
<1>6. /\ Len(undo_ring) <= Len(blocks) - 1
      /\ \A k \in 1..Len(undo_ring) :
            LET i == Len(blocks) - Len(undo_ring) + k IN
            /\ undo_ring[k].height = i - 1
            /\ undo_ring[k].hash = blocks[i].hash
            /\ undo_ring[k].undo = [at |-> blocks[i - 1].hash, txs |-> blocks[i - 1].root]
  BY Zenon DEF Inv, RingAligned, Height
<1>7. ledger' = [at |-> blocks[Len(blocks) - 1].hash, txs |-> blocks[Len(blocks) - 1].root]
  <2>1. /\ Len(undo_ring) \in 1..Len(undo_ring)
        /\ Len(blocks) - Len(undo_ring) + Len(undo_ring) = Len(blocks)
    BY SMTT(30), <1>2
  <2>2. ledger' = undo_ring[Len(undo_ring)].undo
    BY Zenon DEF Top
  <2> QED
    BY ZenonT(60), <2>1, <2>2, <1>6
<1>8. ledger' \in Ledgers
  <2>1. blocks[Len(blocks) - 1] \in Block
    BY SMTT(30), <1>2
  <2> QED
    BY SMTT(30), <2>1, <1>7 DEF Ledgers, Block
<1>9. /\ blocks[1] = GenesisBlock
      /\ \A i \in 2..Len(blocks) :
            Follows(blocks[i], blocks[i - 1]) /\ blocks[i].hash # Genesis
      /\ signals = [h \in 1..Len(blocks) - 1 |-> blocks[h + 1].bits]
  BY Zenon DEF Inv, ChainInv, StateFollowsChain, Height
<1>10. signals' = [h \in 1..Len(blocks') - 1 |-> blocks'[h + 1].bits]
  <2>1. DOMAIN signals \ {Height} = 1..Len(blocks') - 1
    BY SMTT(30), <1>2, <1>3, <1>9 DEF Height
  <2>2. \A h \in 1..Len(blocks') - 1 : signals[h] = blocks'[h + 1].bits
    BY SMTT(30), <1>2, <1>3, <1>9
  <2> QED
    BY Zenon, <2>1, <2>2 DEF RemoveSignal
<1>11. DOMAIN signals' \subseteq Nat /\ signals' \in [DOMAIN signals' -> Bits]
  BY Zenon, <1>1 DEF RemoveSignal
<1>12. ChainInv'
  <2>1. \A i \in 2..Len(blocks') :
           Follows(blocks'[i], blocks'[i - 1]) /\ blocks'[i].hash # Genesis
    <3> TAKE i \in 2..Len(blocks')
    <3>1. i \in 2..Len(blocks) /\ blocks'[i] = blocks[i] /\ blocks'[i - 1] = blocks[i - 1]
      BY SMTT(30), <1>2, <1>3
    <3> QED
      BY Zenon, <3>1, <1>9
  <2>2. \A i \in 2..Len(blocks') : blocks'[i].prev = blocks'[i - 1].hash
    BY Zenon, <2>1 DEF Follows
  <2>3. blocks'[Len(blocks')] = blocks[Len(blocks) - 1] /\ blocks'[1] = GenesisBlock
    BY SMTT(30), <1>2, <1>3, <1>9
  <2> QED
    BY ZenonT(60), <2>1, <2>2, <2>3, <1>7, <1>10 DEF ChainInv, StateFollowsChain, Top, Height
<1>13. RingAligned'
  <2>1. Len(undo_ring') <= Len(blocks') - 1
    BY SMTT(30), <1>2, <1>3, <1>4, <1>6
  <2>2. ASSUME NEW k \in 1..Len(undo_ring')
        PROVE  LET i == Len(blocks') - Len(undo_ring') + k IN
               /\ undo_ring'[k].height = i - 1
               /\ undo_ring'[k].hash = blocks'[i].hash
               /\ undo_ring'[k].undo = [at |-> blocks'[i - 1].hash,
                                        txs |-> blocks'[i - 1].root]
    <3> DEFINE i == Len(blocks) - Len(undo_ring) + k
    <3>1. k \in 1..Len(undo_ring) /\ undo_ring'[k] = undo_ring[k]
      BY SMTT(30), <1>2, <1>4
    <3>2. Len(blocks') - Len(undo_ring') + k = i
      BY SMTT(30), <1>2, <1>3, <1>4
    <3>3. i \in 2..Len(blocks) - 1
      <4>1. k \in 1..Len(undo_ring) - 1 /\ Len(undo_ring) <= Len(blocks) - 1
        BY Zenon, <1>4, <1>6
      <4>2. \A n \in Nat, m \in Nat \ {0} : \A j \in 1..m - 1 :
               m <= n - 1 => n - m + j \in 2..n - 1
        OBVIOUS
      <4> QED
        BY Zenon, <4>1, <4>2, <1>2
    <3>4. \A j \in 2..Len(blocks) - 1 :
             blocks'[j] = blocks[j] /\ blocks'[j - 1] = blocks[j - 1]
      BY SMTT(60), <1>2, <1>3
    <3>5. /\ undo_ring[k].height = i - 1
          /\ undo_ring[k].hash = blocks[i].hash
          /\ undo_ring[k].undo = [at |-> blocks[i - 1].hash, txs |-> blocks[i - 1].root]
      BY Zenon, <3>1, <1>6
    <3> HIDE DEF i
    <3> QED
      BY ZenonT(60), <3>1, <3>2, <3>3, <3>4, <3>5
  <2> QED
    BY ZenonT(60), <2>1, <2>2 DEF RingAligned, Height
<1> QED
  BY SMTT(30), <1>1, <1>2, <1>3, <1>4, <1>5, <1>8, <1>11, <1>12, <1>13

LEMMA DisconnectInv ==
    ASSUME Inv, Disconnect
    PROVE  Inv'
<1>1. /\ pc \in {"disconnect", "rollback"} /\ Height > job.fork
      /\ UNCHANGED <<result, before>>
  BY Zenon DEF Disconnect
<1>2. /\ job \in Job /\ BranchInv /\ TodoInv /\ OldInv /\ AcceptedInv
      /\ blocks \in Seq(Block) /\ blocks # <<>> /\ Len(blocks) \in Nat \ {0}
  BY Zenon, EmptySeq DEF Inv, TypeOK, ChainTypeOK, ImportTypeOK
<1>3. CASE undo_ring = <<>>
  <2>1. pc' = "panic" /\ UNCHANGED chainVars /\ job' = job
    BY Zenon, <1>3 DEF Disconnect
  <2>2. ChainTypeOK' /\ IndexInv' /\ ChainInv' /\ RingAligned'
    BY Zenon, <2>1, FrameFacts
  <2>3. ImportTypeOK'
    BY Zenon, <1>1, <2>1 DEF Inv, TypeOK, ImportTypeOK, Pcs
  <2>4. AcceptedInv' /\ BranchInv' /\ TodoInv' /\ OldInv' /\ ReplayInv'
    BY ZenonT(60), <2>1 DEF AcceptedInv, BranchInv, TodoInv, OldInv, ReplayInv
  <2>5. BestInv' /\ RefusedLeavesHead'
    BY Zenon, <2>1 DEF BestInv, HeadBest, RefusedLeavesHead
  <2> QED
    BY Zenon, <2>2, <2>3, <2>4, <2>5 DEF Inv, TypeOK
<1>4. CASE undo_ring # <<>>
  <2>1. /\ ledger' = Top(undo_ring).undo /\ undo_ring' = Front(undo_ring)
        /\ blocks' = Front(blocks) /\ signals' = RemoveSignal(signals, Height)
        /\ active_receipts' \subseteq active_receipts /\ tx_height' \subseteq tx_height
        /\ job' = [job EXCEPT !.old = Disconnected(Top(blocks))]
        /\ UNCHANGED <<index, head, difficulty, pc>>
    BY ZenonT(60), <1>4 DEF Disconnect, DropReceipts, DropTxHeight
  <2>2. job.fork \in Nat /\ Len(blocks) - 1 > job.fork /\ Len(blocks) > 1
    BY <1>1, <1>2 DEF Job, Height
  <2>3. /\ blocks' \in Seq(Block) /\ blocks' # <<>>
        /\ Len(blocks') = Len(blocks) - 1
        /\ \A i \in 1..Len(blocks') : blocks'[i] = blocks[i]
        /\ ledger' \in Ledgers
        /\ DOMAIN signals' \subseteq Nat /\ signals' \in [DOMAIN signals' -> Bits]
        /\ undo_ring' \in Seq(Undo) /\ Len(undo_ring') <= UndoWindow
        /\ ChainInv' /\ RingAligned'
    BY Zenon, <1>4, <2>1, <2>2, PopFacts
  <2>4. ChainTypeOK' /\ IndexInv'
    BY Zenon, <2>1, <2>3 DEF Inv, TypeOK, ChainTypeOK, IndexInv, IndexValid
  <2> DEFINE b == blocks[Len(blocks)]
  <2>5. b \in Block /\ b.hash # Genesis /\ b.prev = blocks[Len(blocks) - 1].hash
    <3>1. b \in Block
      BY SMTT(30), <1>2, ElementOfSeq
    <3>2. Len(blocks) \in 2..Len(blocks)
      BY SMTT(30), <1>2, <2>2
    <3> QED
      BY Zenon, <3>1, <3>2 DEF Inv, ChainInv, Follows
  <2>6. job.old \in Seq(Block)
    BY Zenon, <1>2 DEF Job
  <2>7. job'.old = IF pc = "disconnect" THEN Append(job.old, b) ELSE job.old
    BY Zenon, <1>2, <2>1 DEF Disconnected, Top, Job
  <2> HIDE DEF b
  <2>8. job'.old \in Seq(Block)
    BY SMTT(30), <2>5, <2>6, <2>7, AppendFacts
  <2>9. /\ job' \in Job
        /\ job'.block = job.block /\ job'.reorg = job.reorg /\ job'.new = job.new
        /\ job'.todo = job.todo /\ job'.fork = job.fork /\ job'.valid = job.valid
        /\ job'.ledger = job.ledger
    BY ZenonT(60), <1>2, <2>1, <2>7, <2>8 DEF Job
  <2>10. ImportTypeOK'
    BY Zenon, <1>1, <2>1, <2>9 DEF Inv, TypeOK, ImportTypeOK
  <2>11. AcceptedInv'
    <3>1. pc = "disconnect" => Trunk' = Len(blocks') /\ Trunk = Len(blocks)
      BY Zenon, <2>1 DEF Trunk, Branching
    <3>2. pc = "rollback" => Trunk' = job.fork + 1 /\ Trunk = job.fork + 1
      BY Zenon, <2>1, <2>9 DEF Trunk, Branching
    <3>3. \A i \in 1..Len(blocks') : Accepted(blocks[i])' = Accepted(blocks[i])
      BY Zenon, <2>1, <2>3 DEF Accepted
    <3>4. CASE pc = "disconnect"
      <4>1. \A i \in 1..Len(blocks') : Accepted(blocks[i])'
        BY SMTT(30), <3>1, <3>3, <3>4, <1>2, <2>3 DEF AcceptedInv
      <4> QED
        BY SMTT(30), <3>1, <3>4, <4>1, <1>2, <2>2, <2>3 DEF AcceptedInv
    <3>5. CASE pc = "rollback"
      <4>1. \A i \in 1..job.fork + 1 : Accepted(blocks[i])'
        BY SMTT(30), <3>2, <3>3, <3>5, <1>2, <2>2, <2>3 DEF AcceptedInv
      <4>2. ASSUME NEW i \in (Trunk' + 1)..Len(blocks')
            PROVE  Accepted(blocks[i])' \/ blocks'[i] = job.block
        <5>1. i \in (Trunk + 1)..Len(blocks) /\ i \in 1..Len(blocks')
          BY SMTT(30), <3>2, <3>5, <1>2, <2>2, <2>3
        <5>2. Accepted(blocks[i]) \/ blocks[i] = job.block
          BY Zenon, <5>1, <3>5, <1>2 DEF AcceptedInv
        <5> QED
          BY Zenon, <5>1, <5>2, <3>3, <2>3
      <4>3. Trunk' \in 1..Len(blocks')
        BY SMTT(30), <3>2, <3>5, <1>2, <2>2, <2>3
      <4>4. \A i \in 1..Trunk' : Accepted(blocks[i])'
        BY Zenon, <3>2, <3>5, <4>1
      <4> QED
        BY ZenonT(60), <4>2, <4>3, <4>4, <2>9 DEF AcceptedInv
    <3> QED
      BY Zenon, <3>4, <3>5, <1>1
  <2>12. BranchInv'
    BY ZenonT(60), <1>1, <1>2, <2>1, <2>9 DEF BranchInv, Accepted
  <2>13. TodoInv' /\ ReplayInv'
    <3>1. TodoInv'
      BY SMTT(60), <1>1, <1>2, <2>1, <2>9 DEF Inv, TodoInv, Accepted
    <3>2. ReplayInv'
      BY Zenon, <1>1, <1>2, <2>1, <2>9 DEF Inv, ReplayInv, Follows
    <3> QED
      BY Zenon, <3>1, <3>2
  <2>14. OldInv'
    <3>1. CASE pc = "rollback"
      <4>1. Trunk = job.fork + 1 /\ Trunk' = job.fork + 1
        BY Zenon, <3>1, <2>1, <2>9 DEF Trunk, Branching
      <4>2. blocks'[job.fork + 1] = blocks[job.fork + 1]
        BY SMTT(60), <1>2, <2>2, <2>3
      <4>3. OldChain(blocks[job.fork + 1].hash) /\ job'.old = job.old
        BY Zenon, <3>1, <4>1, <1>2, <2>7 DEF OldInv
      <4> QED
        BY Zenon, <3>1, <4>1, <4>2, <4>3, <1>1, <2>1 DEF OldInv, OldChain, Accepted
    <3>2. CASE pc = "disconnect"
      <4> DEFINE old == job.old
                 oldp == Append(old, b)
      <4>1. Trunk = Len(blocks) /\ Trunk' = Len(blocks')
        BY Zenon, <3>2, <2>1 DEF Trunk, Branching
      <4>2. OldChain(b.hash)
        BY Zenon, <3>2, <4>1, <1>2 DEF OldInv, b
      <4>3. Accepted(b)
        BY Zenon, <3>2, <4>1, <1>2 DEF AcceptedInv, b
      <4>4. blocks'[Len(blocks')] = blocks[Len(blocks) - 1]
        BY SMTT(60), <1>2, <2>2, <2>3
      <4>5. /\ oldp \in Seq(Block) /\ oldp # <<>> /\ Len(old) \in Nat
            /\ Len(oldp) = Len(old) + 1 /\ Top(oldp) = b
            /\ \A i \in 1..Len(old) : oldp[i] = old[i]
            /\ oldp[Len(old) + 1] = b
        BY <2>5, <2>6, AppendFacts
      <4>6. job'.old = oldp
        BY Zenon, <3>2, <2>7
      <4> HIDE DEF oldp
      <4>7. /\ oldp[1].hash = before.head
            /\ \A i \in 2..Len(oldp) : oldp[i].hash = oldp[i - 1].prev
            /\ \A i \in 1..Len(oldp) : Accepted(oldp[i]) /\ oldp[i].hash # Genesis
        <5>1. CASE old = <<>>
          <6>1. Len(old) = 0 /\ b.hash = before.head
            BY Zenon, <5>1, <4>2, <2>6, EmptyLen DEF OldChain
          <6> QED
            BY SMTT(30), <6>1, <4>3, <4>5, <2>5
        <5>2. CASE old # <<>>
          <6>1. /\ Len(old) \in Nat \ {0}
                /\ old[1].hash = before.head
                /\ \A i \in 2..Len(old) : old[i].hash = old[i - 1].prev
                /\ old[Len(old)].prev = b.hash
                /\ \A i \in 1..Len(old) : Accepted(old[i]) /\ old[i].hash # Genesis
            BY Zenon, <5>2, <4>2, <2>6, EmptySeq DEF OldChain, Top
          <6> HIDE DEF old
          <6>2. oldp[1].hash = before.head
            BY SMTT(30), <6>1, <4>5
          <6>3. ASSUME NEW i \in 2..Len(oldp) PROVE oldp[i].hash = oldp[i - 1].prev
            <7>1. CASE i \in 2..Len(old)
              BY SMTT(30), <7>1, <6>1, <4>5
            <7>2. CASE i = Len(old) + 1
              BY SMTT(30), <7>2, <6>1, <4>5
            <7> QED
              BY SMTT(30), <7>1, <7>2, <6>1, <4>5
          <6>4. ASSUME NEW i \in 1..Len(oldp)
                PROVE  Accepted(oldp[i]) /\ oldp[i].hash # Genesis
            <7>1. CASE i \in 1..Len(old)
              BY Zenon, <7>1, <6>1, <4>5
            <7>2. CASE i = Len(old) + 1
              BY Zenon, <7>2, <4>3, <4>5, <2>5
            <7> QED
              BY SMTT(30), <7>1, <7>2, <6>1, <4>5
          <6> QED
            BY Zenon, <6>2, <6>3, <6>4
        <5> QED
          BY Zenon, <5>1, <5>2
      <4>8. OldChain(blocks[Trunk].hash)'
        BY SMTT(30), <4>1, <4>4, <4>5, <4>6, <4>7, <2>1, <2>5, <1>1 DEF OldChain, Accepted
      <4> QED
        BY Zenon, <3>2, <4>8, <1>2, <2>1, <2>2, <2>3, <2>9 DEF OldInv
    <3> QED
      BY Zenon, <3>1, <3>2, <1>1
  <2>15. BestInv' /\ RefusedLeavesHead'
    BY Zenon, <1>1, <2>1, BestFrame
  <2> QED
    BY Zenon, <2>3, <2>4, <2>10, <2>11, <2>12, <2>13, <2>14, <2>15 DEF Inv, TypeOK
<1> QED
  BY Zenon, <1>3, <1>4

LEMMA DisconnectDoneInv ==
    ASSUME Inv, DisconnectDone
    PROVE  Inv'
<1>1. /\ pc \in {"disconnect", "rollback"} /\ Height = job.fork
      /\ head' = blocks[Len(blocks)].hash
      /\ pc' = IF pc = "disconnect" THEN "connect" ELSE "reconnect"
      /\ UNCHANGED <<index, blocks, ledger, signals, undo_ring, active_receipts,
                     tx_height, difficulty, job, result, before>>
  BY Zenon DEF DisconnectDone, AfterDisconnect, Top
<1>2. /\ job \in Job /\ job.fork \in Nat
      /\ Len(blocks) \in Nat \ {0} /\ Len(blocks) = job.fork + 1
  BY SMTT(30), <1>1, EmptySeq DEF Inv, TypeOK, ChainTypeOK, ImportTypeOK, Job, Height
<1>3. Trunk = Len(blocks) /\ Trunk' = Len(blocks)
  BY Zenon, <1>1, <1>2 DEF Trunk, Branching
<1>4. \A i \in 1..Len(blocks) : Accepted(blocks[i])
  BY Zenon, <1>1, <1>3 DEF Inv, AcceptedInv
<1>5. ChainTypeOK'
  <2>1. head' \in DOMAIN index
    BY SMTT(30), <1>1, <1>2, <1>4 DEF Accepted
  <2> QED
    BY Zenon, <2>1, <1>1 DEF Inv, TypeOK, ChainTypeOK
<1>6. ImportTypeOK'
  BY Zenon, <1>1 DEF Inv, TypeOK, ImportTypeOK, Pcs
<1>7. IndexInv' /\ ChainInv' /\ RingAligned'
  BY ZenonT(60), <1>1 DEF Inv, IndexInv, IndexValid, ChainInv, StateFollowsChain, RingAligned, Top, Height
<1>8. AcceptedInv'
  BY SMTT(60), <1>1, <1>2, <1>3, <1>4 DEF AcceptedInv, Accepted
<1>9. BranchInv'
  BY ZenonT(60), <1>1 DEF Inv, BranchInv, Accepted
<1>10. TodoInv'
  BY ZenonT(60), <1>1 DEF Inv, TodoInv, Accepted, Follows
<1>11. OldInv'
  <2>1. OldChain(blocks[Len(blocks)].hash)
    BY Zenon, <1>1, <1>3 DEF Inv, OldInv
  <2>2. OldChain(blocks[Trunk].hash)'
    BY Zenon, <2>1, <1>1, <1>3 DEF OldChain, Accepted
  <2> QED
    BY Zenon, <2>2, <1>1 DEF OldInv
<1>12. ReplayInv' /\ BestInv' /\ RefusedLeavesHead'
  <2>1. pc' \in {"connect", "reconnect"}
    BY Zenon, <1>1
  <2>2. ReplayInv'
    BY Zenon, <2>1 DEF ReplayInv
  <2> QED
    BY Zenon, <1>1, <2>1, <2>2, BestFrame
<1> QED
  BY Zenon, <1>5, <1>6, <1>7, <1>8, <1>9, <1>10, <1>11, <1>12 DEF Inv, TypeOK

LEMMA ConnectStepInv ==
    ASSUME Inv, Connect
    PROVE  Inv'
<1> DEFINE b == Head(job.todo)
<1>1. /\ pc = "connect" /\ job.todo # <<>> /\ UNCHANGED <<result, before>>
      /\ ~Executes(ledger, b) =>
            pc' = "rollback" /\ UNCHANGED chainVars /\ job' = [job EXCEPT !.valid = FALSE]
      /\ Executes(ledger, b) =>
            /\ ConnectToActive(b)
            /\ IndexBlockReceipts(b) \/ UNCHANGED <<active_receipts, tx_height>>
            /\ job' = [job EXCEPT !.todo = Tail(job.todo)]
            /\ UNCHANGED <<index, head, difficulty, pc>>
  BY Zenon DEF Connect
<1>2. /\ job \in Job /\ BranchInv /\ TodoInv /\ OldInv /\ AcceptedInv
      /\ Len(blocks) \in Nat \ {0}
  BY Zenon, EmptySeq DEF Inv, TypeOK, ChainTypeOK, ImportTypeOK
<1>3. Trunk = job.fork + 1 /\ job.fork \in Nat /\ Trunk \in 1..Len(blocks)
  BY Zenon, <1>1, <1>2 DEF Trunk, Branching, AcceptedInv, Job
<1>4. /\ Tail(job.todo) \in Seq(Block) /\ Len(job.todo) \in Nat \ {0}
      /\ Len(Tail(job.todo)) = Len(job.todo) - 1
      /\ \A i \in 1..Len(job.todo) - 1 : Tail(job.todo)[i] = job.todo[i + 1]
      /\ b = job.todo[1] /\ b \in Block
      /\ Tail(job.todo) # <<>> => Top(Tail(job.todo)) = Top(job.todo)
      /\ Tail(job.todo) = <<>> => b = Top(job.todo)
  BY SMTT(30), <1>1, <1>2, TailFacts DEF Job
<1>5. /\ Accepted(b) \/ b = job.block
      /\ Top(job.todo) = job.block
  BY SMTT(30), <1>1, <1>2, <1>4 DEF TodoInv
<1>6. b.hash # Genesis
  BY SMTT(30), <1>1, <1>2, <1>4 DEF TodoInv
<1> HIDE DEF b
<1>7. CASE ~Executes(ledger, b)
  <2>1. pc' = "rollback" /\ UNCHANGED chainVars /\ job' = [job EXCEPT !.valid = FALSE]
    BY Zenon, <1>1, <1>7
  <2>2. ChainTypeOK' /\ IndexInv' /\ ChainInv' /\ RingAligned'
    BY Zenon, <2>1, FrameFacts
  <2>3. UNCHANGED <<index, blocks, head>>
    BY Zenon, <2>1 DEF chainVars
  <2>4. /\ job' \in Job /\ job'.valid = FALSE /\ job'.fork = job.fork
        /\ job'.block = job.block /\ job'.reorg = job.reorg /\ job'.new = job.new
        /\ job'.old = job.old
    BY ZenonT(60), <1>2, <2>1 DEF Job
  <2>5. ImportTypeOK'
    BY Zenon, <1>1, <2>1, <2>4 DEF Inv, TypeOK, ImportTypeOK, Pcs
  <2>6. Trunk' = Trunk
    BY SMTT(30), <1>1, <2>1, <2>3, <2>4 DEF Trunk, Branching
  <2>7. AcceptedInv'
    BY Zenon, <1>1, <1>2, <2>1, <2>3, <2>4, <2>6 DEF AcceptedInv, Accepted
  <2>8. BranchInv'
    BY ZenonT(60), <1>1, <1>2, <2>1, <2>3, <2>4 DEF BranchInv, Accepted
  <2>9. TodoInv' /\ ReplayInv'
    BY Zenon, <2>1, <2>4 DEF TodoInv, ReplayInv
  <2>10. OldInv'
    BY <1>1, <1>2, <2>1, <2>3, <2>4, <2>6 DEF OldInv, OldChain, Accepted
  <2>11. BestInv' /\ RefusedLeavesHead'
    BY Zenon, <1>1, <2>1, <2>3, BestFrame
  <2> QED
    BY Zenon, <2>2, <2>5, <2>7, <2>8, <2>9, <2>10, <2>11 DEF Inv, TypeOK
<1>8. CASE Executes(ledger, b)
  <2>1. /\ ConnectToActive(b)
        /\ IndexBlockReceipts(b) \/ UNCHANGED <<active_receipts, tx_height>>
        /\ job' = [job EXCEPT !.todo = Tail(job.todo)]
        /\ UNCHANGED <<index, head, difficulty, pc>>
    BY Zenon, <1>1, <1>8
  <2>2. /\ blocks' \in Seq(Block) /\ blocks' # <<>>
        /\ Len(blocks') = Len(blocks) + 1
        /\ \A i \in 1..Len(blocks) : blocks'[i] = blocks[i]
        /\ blocks'[Len(blocks')] = b
        /\ ledger' \in Ledgers
        /\ DOMAIN signals' \subseteq Nat /\ signals' \in [DOMAIN signals' -> Bits]
        /\ undo_ring' \in Seq(Undo) /\ Len(undo_ring') <= UndoWindow
        /\ ChainInv' /\ RingAligned'
    BY Zenon, <1>4, <1>6, <1>8, <2>1, ConnectFacts
  <2>3. active_receipts' \subseteq Nat \X Tx /\ tx_height' \subseteq Tx \X Nat
    BY Zenon, <1>4, <2>1, ReceiptTypes DEF Inv, TypeOK, ChainTypeOK
  <2>4. ChainTypeOK' /\ IndexInv'
    BY Zenon, <2>1, <2>2, <2>3 DEF Inv, TypeOK, ChainTypeOK, IndexInv, IndexValid
  <2>5. /\ job' \in Job /\ job'.todo = Tail(job.todo) /\ job'.fork = job.fork
        /\ job'.block = job.block /\ job'.reorg = job.reorg /\ job'.new = job.new
        /\ job'.old = job.old
    BY ZenonT(60), <1>2, <1>4, <2>1 DEF Job
  <2>6. ImportTypeOK'
    BY Zenon, <1>1, <2>1, <2>5 DEF Inv, TypeOK, ImportTypeOK
  <2>7. Trunk' = Trunk
    BY SMTT(30), <1>1, <2>1, <2>5 DEF Trunk, Branching
  <2>8. AcceptedInv'
    <3>1. \A i \in 1..Len(blocks) : Accepted(blocks[i])' = Accepted(blocks[i])
      BY Zenon, <2>1, <2>2 DEF Accepted
    <3>2. \A i \in 1..Trunk : Accepted(blocks[i])'
      BY SMTT(30), <3>1, <1>1, <1>2, <1>3 DEF AcceptedInv
    <3>3. ASSUME NEW i \in (Trunk + 1)..Len(blocks')
          PROVE  Accepted(blocks[i])' \/ blocks'[i] = job.block
      <4>1. CASE i = Len(blocks')
        BY Zenon, <4>1, <1>5, <2>1, <2>2 DEF Accepted
      <4>2. CASE i # Len(blocks')
        <5>1. i \in (Trunk + 1)..Len(blocks) /\ i \in 1..Len(blocks)
          BY SMTT(30), <4>2, <1>2, <1>3, <2>2
        <5> QED
          BY Zenon, <5>1, <3>1, <1>1, <1>2, <2>2 DEF AcceptedInv
      <4> QED
        BY Zenon, <4>1, <4>2
    <3>4. Trunk \in 1..Len(blocks')
      BY SMTT(30), <1>2, <1>3, <2>2
    <3> QED
      BY Zenon, <3>2, <3>3, <3>4, <2>5, <2>7 DEF AcceptedInv
  <2>9. BranchInv'
    BY ZenonT(60), <1>1, <1>2, <2>1, <2>5 DEF BranchInv, Accepted
  <2>10. TodoInv'
    <3>1. \A i \in 1..Len(job'.todo) :
             /\ job'.todo[i].hash # Genesis
             /\ Accepted(job.todo[i])' \/ job'.todo[i] = job'.block
      <4> TAKE i \in 1..Len(job'.todo)
      <4>1. i + 1 \in 1..Len(job.todo) /\ job'.todo[i] = job.todo[i + 1]
        BY SMTT(30), <1>4, <2>5
      <4>2. /\ job.todo[i + 1].hash # Genesis
            /\ Accepted(job.todo[i + 1]) \/ job.todo[i + 1] = job.block
        BY Zenon, <4>1, <1>1, <1>2 DEF TodoInv
      <4> QED
        BY Zenon, <4>1, <4>2, <2>1, <2>5 DEF Accepted
    <3>2. IF job'.todo = <<>> THEN Top(blocks)' = job'.block
                              ELSE Top(job.todo)' = job'.block
      BY Zenon, <1>4, <1>5, <2>2, <2>5 DEF Top
    <3> QED
      BY Zenon, <3>1, <3>2, <1>1, <2>1 DEF TodoInv
  <2>11. OldInv'
    <3>1. OldChain(blocks[Trunk].hash) /\ blocks'[Trunk'] = blocks[Trunk]
      BY Zenon, <1>1, <1>2, <1>3, <2>2, <2>7 DEF OldInv
    <3> QED
      BY <3>1, <1>1, <2>1, <2>5 DEF OldInv, OldChain, Accepted
  <2>12. ReplayInv' /\ BestInv' /\ RefusedLeavesHead'
    BY Zenon, <1>1, <2>1, BestFrame DEF ReplayInv
  <2> QED
    BY Zenon, <2>2, <2>4, <2>6, <2>8, <2>9, <2>10, <2>11, <2>12 DEF Inv, TypeOK
<1> QED
  BY Zenon, <1>7, <1>8

LEMMA AdoptBranchInv ==
    ASSUME Inv, AdoptBranch
    PROVE  Inv'
<1> DEFINE b == job.block
<1>1. /\ pc = "connect" /\ pc' = "idle" /\ job.todo = <<>> /\ job.reorg
      /\ InsertEntry(b) /\ head' = b.hash /\ difficulty' = b.hash
      /\ result'.ok = TRUE /\ Finish(TRUE, Reverted(job.old, job.new))
      /\ UNCHANGED <<blocks, ledger, signals, undo_ring, active_receipts, tx_height>>
  BY ZenonT(60) DEF AdoptBranch, Finish
<1>2. /\ b \in Offered /\ b.hash \notin DOMAIN index /\ b.prev \in DOMAIN index
      /\ blocks[Len(blocks)] = b
  BY ZenonT(60), <1>1 DEF Inv, BranchInv, TodoInv, Top
<1>3. /\ DOMAIN index' = DOMAIN index \cup {b.hash}
      /\ DOMAIN index' \subseteq Hash
      /\ index' \in [DOMAIN index' -> Entry]
      /\ \A x \in DOMAIN index : index'[x] = index[x]
      /\ index'[b.hash].block = b
      /\ index'[b.hash].work = index[b.prev].work + b.work
      /\ IndexInv'
  BY ZenonT(60), <1>1, <1>2, ConnectedTipFollows, InsertFacts
<1>4. ChainTypeOK'
  BY Zenon, <1>1, <1>3 DEF Inv, TypeOK, ChainTypeOK
<1>5. ImportTypeOK' /\ BranchInv' /\ TodoInv' /\ ReplayInv'
  <2>1. \A i \in 1..Len(job.old) : job.old[i] \in Block
    BY Zenon, ElementOfSeq DEF Inv, TypeOK, ImportTypeOK, Job
  <2>2. Reverted(job.old, job.new) \in SUBSET Tx
    BY <2>1 DEF Reverted, TxsOf, Block
  <2> QED
    BY ZenonT(60), <1>1, <2>2, FinishFacts
<1>6. ChainInv' /\ RingAligned'
  BY ZenonT(60), <1>1 DEF Inv, ChainInv, StateFollowsChain, RingAligned, Top, Height
<1>7. AcceptedInv'
  <2>1. Len(blocks) \in Nat \ {0} /\ Trunk \in 1..Len(blocks)
    BY Zenon, <1>1, EmptySeq DEF Inv, TypeOK, ChainTypeOK, AcceptedInv
  <2>2. \A i \in 1..Len(blocks) : Accepted(blocks[i]) \/ blocks[i] = b
    BY SMTT(30), <2>1, <1>1 DEF Inv, AcceptedInv
  <2>3. \A i \in 1..Len(blocks) : Accepted(blocks[i])'
    BY Zenon, <2>2, <1>1, <1>3 DEF Accepted
  <2> QED
    BY SMTT(60), <2>1, <2>3, <1>1 DEF AcceptedInv, Trunk, Branching
<1>8. OldInv' /\ RefusedLeavesHead'
  BY ZenonT(60), <1>1, <1>2 DEF OldInv, Top, RefusedLeavesHead
<1>9. BestInv'
  BY Zenon, <1>1, <1>3, AdoptBest
<1> QED
  BY Zenon, <1>3, <1>4, <1>5, <1>6, <1>7, <1>8, <1>9 DEF Inv, TypeOK

(* A step of the rollback: the block executes again, because it was        *)
(* accepted on top of the block that is the active head now.               *)
LEMMA ReconnectStepInv ==
    ASSUME Inv, Reconnect
    PROVE  Inv'
<1> DEFINE old == job.old
           b == Top(old)
<1>1. /\ pc = "reconnect" /\ old # <<>> /\ UNCHANGED <<result, before>>
      /\ Executes(ledger, b) =>
            /\ ConnectToActive(b)
            /\ IndexBlockReceipts(b)
            /\ job' = [job EXCEPT !.old = Front(old)]
            /\ UNCHANGED <<index, head, difficulty, pc>>
  BY Zenon DEF Reconnect
<1>2. /\ job \in Job /\ old \in Seq(Block) /\ BranchInv /\ TodoInv
      /\ Len(blocks) \in Nat \ {0}
  BY Zenon, EmptySeq DEF Inv, TypeOK, ChainTypeOK, ImportTypeOK, Job
<1>3. Trunk = Len(blocks)
  BY Zenon, <1>1 DEF Trunk, Branching
<1>4. \A i \in 1..Len(blocks) : Accepted(blocks[i])
  BY Zenon, <1>1, <1>3 DEF Inv, AcceptedInv
<1>5. /\ old[1].hash = before.head
      /\ \A i \in 2..Len(old) : old[i].hash = old[i - 1].prev
      /\ b.prev = blocks[Len(blocks)].hash
      /\ \A i \in 1..Len(old) : Accepted(old[i]) /\ old[i].hash # Genesis
  BY Zenon, <1>1, <1>3 DEF Inv, OldInv, OldChain
<1>6. /\ Front(old) \in Seq(Block) /\ Len(old) \in Nat /\ Len(old) > 0
      /\ Len(Front(old)) = Len(old) - 1 /\ b \in Block
      /\ \A i \in 1..Len(old) - 1 : Front(old)[i] = old[i]
  BY ZenonT(60), <1>1, <1>2, FrontFacts
<1>7. b = old[Len(old)] /\ Len(old) \in 1..Len(old)
  BY SMTT(30), <1>6 DEF Top
<1> HIDE DEF old, b
<1>8. Accepted(b) /\ b.hash # Genesis
  BY Zenon, <1>5, <1>7
<1>9. Executes(ledger, b)
  <2>1. /\ b.txs \cap index[b.prev].block.root = {}
        /\ b.root = index[b.prev].block.root \cup b.txs
    BY SMTT(60), <1>8 DEF Inv, IndexInv, IndexValid, Accepted
  <2>2. index[b.prev].block = blocks[Len(blocks)]
    BY SMTT(30), <1>2, <1>4, <1>5 DEF Accepted
  <2>3. ledger = [at |-> blocks[Len(blocks)].hash, txs |-> blocks[Len(blocks)].root]
    BY Zenon DEF Inv, ChainInv, StateFollowsChain, Top
  <2> QED
    BY Zenon, <2>1, <2>2, <2>3, <1>5 DEF Executes
<1>10. /\ ConnectToActive(b) /\ IndexBlockReceipts(b)
       /\ job' = [job EXCEPT !.old = Front(old)]
       /\ UNCHANGED <<index, head, difficulty, pc>>
  BY Zenon, <1>1, <1>9
<1>11. /\ blocks' \in Seq(Block) /\ blocks' # <<>>
       /\ Len(blocks') = Len(blocks) + 1
       /\ \A i \in 1..Len(blocks) : blocks'[i] = blocks[i]
       /\ blocks'[Len(blocks')] = b
       /\ ledger' \in Ledgers
       /\ DOMAIN signals' \subseteq Nat /\ signals' \in [DOMAIN signals' -> Bits]
       /\ undo_ring' \in Seq(Undo) /\ Len(undo_ring') <= UndoWindow
       /\ ChainInv' /\ RingAligned'
  BY Zenon, <1>6, <1>8, <1>9, <1>10, ConnectFacts
<1>12. ChainTypeOK' /\ IndexInv'
  BY ZenonT(60), <1>6, <1>10, <1>11, ReceiptTypes
  DEF Inv, TypeOK, ChainTypeOK, IndexInv, IndexValid
<1>13. /\ job' \in Job /\ job'.old = Front(old) /\ job'.valid = job.valid
       /\ job'.block = job.block /\ job'.reorg = job.reorg /\ job'.new = job.new
  BY ZenonT(60), <1>2, <1>6, <1>10 DEF Job
<1>14. ImportTypeOK'
  BY Zenon, <1>1, <1>10, <1>13 DEF Inv, TypeOK, ImportTypeOK
<1>15. Trunk' = Len(blocks')
  BY Zenon, <1>1, <1>10 DEF Trunk, Branching
<1>16. AcceptedInv'
  <2>1. \A i \in 1..Len(blocks') : Accepted(blocks[i])'
    <3> TAKE i \in 1..Len(blocks')
    <3>1. CASE i = Len(blocks')
      BY Zenon, <3>1, <1>8, <1>10, <1>11 DEF Accepted
    <3>2. CASE i # Len(blocks')
      <4>1. i \in 1..Len(blocks)
        BY SMTT(30), <3>2, <1>2, <1>11
      <4> QED
        BY Zenon, <4>1, <1>4, <1>10, <1>11 DEF Accepted
    <3> QED
      BY Zenon, <3>1, <3>2
  <2> QED
    BY SMTT(30), <2>1, <1>2, <1>11, <1>15 DEF AcceptedInv
<1>17. BranchInv'
  BY ZenonT(60), <1>1, <1>2, <1>10, <1>13 DEF BranchInv, Accepted
<1>18. TodoInv'
  BY Zenon, <1>1, <1>2, <1>10, <1>13 DEF TodoInv, Follows
<1>19. OldInv'
  <2>1. CASE Len(old) = 1
    <3>1. Front(old) = <<>> /\ b.hash = before.head
      BY SMTT(30), <2>1, <1>5, <1>6, <1>7, EmptyLen
    <3>2. OldChain(blocks[Trunk].hash)'
      BY Zenon, <3>1, <1>1, <1>11, <1>13, <1>15 DEF OldChain
    <3> QED
      BY Zenon, <3>2, <1>1, <1>10 DEF OldInv
  <2>2. CASE Len(old) # 1
    <3>1. Len(old) \in 2..Len(old) /\ Len(old) - 1 \in 1..Len(old)
      BY SMTT(30), <2>2, <1>6, TwoOrMore
    <3>2. Front(old) # <<>> /\ Top(Front(old)) = old[Len(old) - 1]
      <4>1. Len(Front(old)) # 0
        BY SMTT(30), <3>1, <1>6
      <4>2. Len(old) - 1 \in 1..Len(old) - 1
        BY SMTT(30), <3>1, <1>6
      <4> QED
        BY Zenon, <4>1, <4>2, <1>6, EmptyLen DEF Top
    <3>3. Top(Front(old)).prev = b.hash
      BY Zenon, <3>1, <3>2, <1>5, <1>7
    <3>4. Front(old)[1] = old[1]
      BY SMTT(30), <3>1, <1>6
    <3>5. \A i \in 2..Len(Front(old)) : Front(old)[i].hash = Front(old)[i - 1].prev
      BY SMTT(30), <1>5, <1>6
    <3>6. \A i \in 1..Len(Front(old)) : Accepted(Front(old)[i]) /\ Front(old)[i].hash # Genesis
      BY SMTT(30), <1>5, <1>6
    <3>7. OldChain(blocks[Trunk].hash)'
      BY SMTT(30), <3>2, <3>3, <3>4, <3>5, <3>6, <1>1, <1>5, <1>10, <1>11, <1>13, <1>15
      DEF OldChain, Accepted
    <3> QED
      BY Zenon, <3>7, <1>1, <1>10 DEF OldInv
  <2> QED
    BY Zenon, <2>1, <2>2
<1>20. ReplayInv' /\ BestInv' /\ RefusedLeavesHead'
  BY Zenon, <1>1, <1>10, BestFrame DEF ReplayInv
<1> QED
  BY Zenon, <1>11, <1>12, <1>14, <1>16, <1>17, <1>18, <1>19, <1>20 DEF Inv, TypeOK

LEMMA ReconnectDoneInv ==
    ASSUME Inv, ReconnectDone
    PROVE  Inv'
<1> DEFINE b == job.block
<1>1. /\ pc = "reconnect" /\ pc' = "idle" /\ job.old = <<>>
      /\ head' = blocks[Len(blocks)].hash /\ difficulty' = blocks[Len(blocks)].hash
      /\ job.valid => InsertEntry(b)
      /\ ~job.valid => index' = index
      /\ Finish(job.valid, {}) /\ before' = before
      /\ UNCHANGED <<blocks, ledger, signals, undo_ring, active_receipts, tx_height>>
  BY Zenon DEF ReconnectDone, Finish, Top
<1>2. /\ job \in Job /\ job.valid \in BOOLEAN /\ BranchInv /\ TodoInv
      /\ Len(blocks) \in Nat \ {0}
  BY Zenon, EmptySeq DEF Inv, TypeOK, ChainTypeOK, ImportTypeOK, Job
<1>3. Trunk = Len(blocks)
  BY Zenon, <1>1 DEF Trunk, Branching
<1>4. \A i \in 1..Len(blocks) : Accepted(blocks[i])
  BY Zenon, <1>1, <1>3 DEF Inv, AcceptedInv
<1>5. head' = before.head
  BY Zenon, <1>1, <1>3 DEF Inv, OldInv, OldChain
<1>6. /\ DOMAIN index \subseteq DOMAIN index'
      /\ DOMAIN index' \subseteq Hash
      /\ index' \in [DOMAIN index' -> Entry]
      /\ \A x \in DOMAIN index : index'[x] = index[x]
      /\ IndexInv'
      /\ BestInv'
  <2>1. CASE job.valid
    <3>1. /\ b \in Offered /\ b.hash \notin DOMAIN index /\ b.prev \in DOMAIN index
          /\ Follows(b, index[b.prev].block) /\ ~job.reorg
      BY ZenonT(60), <2>1, <1>1, <1>2 DEF BranchInv, TodoInv
    <3>2. /\ DOMAIN index' = DOMAIN index \cup {b.hash}
          /\ DOMAIN index' \subseteq Hash
          /\ index' \in [DOMAIN index' -> Entry]
          /\ \A x \in DOMAIN index : index'[x] = index[x]
          /\ index'[b.hash].work = index[b.prev].work + b.work
          /\ IndexInv'
      BY ZenonT(60), <2>1, <3>1, <1>1, InsertFacts
    <3>3. BestInv'
      BY Zenon, <3>1, <3>2, <1>1, <1>5, StoreBest
    <3> QED
      BY Zenon, <3>2, <3>3
  <2>2. CASE ~job.valid
    <3>1. index' = index /\ IndexInv'
      BY ZenonT(60), <2>2, <1>1 DEF Inv, IndexInv, IndexValid
    <3>2. BestInv'
      BY ZenonT(60), <3>1, <1>1, <1>5, StoreBest
    <3> QED
      BY Zenon, <3>1, <3>2 DEF Inv, TypeOK, ChainTypeOK
  <2> QED
    BY Zenon, <2>1, <2>2
<1>7. ChainTypeOK'
  <2>1. head' \in DOMAIN index' /\ difficulty' \in DOMAIN index'
    BY SMTT(30), <1>1, <1>2, <1>4, <1>6 DEF Accepted
  <2> QED
    BY Zenon, <2>1, <1>1, <1>6 DEF Inv, TypeOK, ChainTypeOK
<1>8. ImportTypeOK' /\ BranchInv' /\ TodoInv' /\ ReplayInv'
  BY Zenon, <1>1, <1>2, FinishFacts
<1>9. ChainInv' /\ RingAligned'
  BY ZenonT(60), <1>1 DEF Inv, ChainInv, StateFollowsChain, RingAligned, Top, Height
<1>10. AcceptedInv'
  <2>1. \A i \in 1..Len(blocks) : Accepted(blocks[i])'
    BY Zenon, <1>1, <1>4, <1>6 DEF Accepted
  <2> QED
    BY SMTT(30), <2>1, <1>1, <1>2 DEF AcceptedInv, Trunk, Branching
<1>11. OldInv' /\ RefusedLeavesHead'
  BY Zenon, <1>1, <1>5 DEF OldInv, Top, RefusedLeavesHead
<1> QED
  BY Zenon, <1>6, <1>7, <1>8, <1>9, <1>10, <1>11 DEF Inv, TypeOK

---------------------------------------------------------------------------
(* Every step of an import, and every stutter, preserves Inv.              *)
LEMMA NextInv == Inv /\ [Next]_vars => Inv'
<1> SUFFICES ASSUME Inv, [Next]_vars PROVE Inv'
    BY Zenon
<1>1. ASSUME NEW b \in Offered, Import(b) PROVE Inv'
  BY Zenon, <1>1, QuietImportInv, ExtendHeadInv, BeginBranchInv DEF Import
<1>2. ASSUME Step PROVE Inv'
  BY Zenon, <1>2, WalkBackInv, ForkFoundInv, DisconnectInv, DisconnectDoneInv,
     ConnectStepInv, AdoptBranchInv, SideBranchValidInv, ReconnectStepInv,
     ReconnectDoneInv, CollectAncestorInv, ReplayStepInv, AdoptRebuiltInv,
     StoreSideBranchInv DEF Step
<1>3. ASSUME UNCHANGED vars PROVE Inv'
  <2>1. /\ UNCHANGED chainVars /\ UNCHANGED <<pc, job, result, before>>
        /\ UNCHANGED <<index, blocks, head>>
    BY Zenon, <1>3 DEF vars, chainVars
  <2>2. ChainTypeOK' /\ IndexInv' /\ ChainInv' /\ RingAligned'
    BY Zenon, <2>1, FrameFacts
  <2>3. ImportTypeOK'
    BY Zenon, <2>1 DEF Inv, TypeOK, ImportTypeOK
  <2>4. AcceptedInv' /\ BranchInv'
    BY ZenonT(60), <2>1 DEF Inv, AcceptedInv, BranchInv, Trunk, Branching, Accepted
  <2>5. TodoInv' /\ ReplayInv'
    BY ZenonT(60), <2>1 DEF Inv, TodoInv, ReplayInv, Replayed, Accepted, Follows, Top
  <2>6. OldInv'
    <3>1. OldInv
      BY Zenon DEF Inv
    <3>2. Trunk' = Trunk
      BY Zenon, <2>1 DEF Trunk, Branching
    <3>3. OldChain(blocks[Trunk].hash)' = OldChain(blocks[Trunk].hash)
      BY ZenonT(60), <2>1, <3>2 DEF OldChain, Accepted, Top
    <3> QED
      BY ZenonT(60), <2>1, <3>1, <3>3 DEF OldInv, Top
  <2>7. BestInv' /\ RefusedLeavesHead'
    BY Zenon, <2>1 DEF Inv, BestInv, HeadBest, NoBetter, RefusedLeavesHead
  <2> QED
    BY Zenon, <2>2, <2>3, <2>4, <2>5, <2>6, <2>7 DEF Inv, TypeOK
<1> QED
  BY Zenon, <1>1, <1>2, <1>3 DEF Next

(* Inv holds in every reachable state of the block store.                  *)
THEOREM InvHolds == Spec => []Inv
BY InitInv, NextInv, PTL DEF Spec

(* Type correctness, including the bound on the undo ring that             *)
(* remember_undo keeps.                                                    *)
THEOREM TypeCorrect == Spec => []TypeOK
<1>1. Inv => TypeOK
  BY Zenon DEF Inv
<1> QED
  BY <1>1, InvHolds, PTL

(* import_block_tracked's fork choice: between imports the head is the     *)
(* heaviest accepted block with the smallest hash, after any sequence of   *)
(* extensions, reorganisations, side branches and refusals.                *)
THEOREM ForkChoice == Spec => []HeadBest
<1>1. Inv => HeadBest
  BY Zenon DEF Inv, BestInv
<1> QED
  BY <1>1, InvHolds, PTL

(* The live ledger and the signal log follow the active chain through      *)
(* disconnect_to, connect_to_active and reconnect.                         *)
THEOREM StateTracksChain == Spec => []StateFollowsChain
<1>1. Inv => StateFollowsChain
  BY Zenon DEF Inv, ChainInv
<1> QED
  BY <1>1, InvHolds, PTL

(* insert_entry only ever stores blocks that executed on their branch.     *)
THEOREM StoredBlocksValid == Spec => []IndexValid
<1>1. Inv => IndexValid
  BY Zenon DEF Inv, IndexInv
<1> QED
  BY <1>1, InvHolds, PTL

(* disconnect_to always finds the log of the block it pops.                *)
THEOREM RingMatchesChain == Spec => []RingAligned
<1>1. Inv => RingAligned
  BY Zenon DEF Inv
<1> QED
  BY <1>1, InvHolds, PTL

(* A refused import leaves the head where it was, however much of the      *)
(* chain it disconnected on the way.                                       *)
THEOREM RefusalIsAtomic == Spec => []RefusedLeavesHead
<1>1. Inv => RefusedLeavesHead
  BY Zenon DEF Inv
<1> QED
  BY <1>1, InvHolds, PTL

(* What the derived views hold when the chain grows or shrinks by a block. *)
LEMMA UpTo ==
    ASSUME NEW s, NEW n, NEW t
    PROVE  t \in TxsUpTo(s, n) <=> \E i \in 1..n : t \in s[i].txs
BY Zenon DEF TxsUpTo

LEMMA UpToSame ==
    ASSUME NEW s, NEW u, NEW n, \A i \in 1..n : u[i] = s[i]
    PROVE  TxsUpTo(u, n) = TxsUpTo(s, n)
<1>1. \A t : t \in TxsUpTo(u, n) <=> t \in TxsUpTo(s, n)
  BY UpTo
<1> QED
  BY Zenon, <1>1

LEMMA UpToNext ==
    ASSUME NEW s, NEW n \in Nat
    PROVE  TxsUpTo(s, n + 1) = TxsUpTo(s, n) \cup s[n + 1].txs
<1>1. \A i : i \in 1..n + 1 <=> i \in 1..n \/ i = n + 1
  OBVIOUS
<1>2. \A t : t \in TxsUpTo(s, n + 1) <=> t \in TxsUpTo(s, n) \/ t \in s[n + 1].txs
  BY Zenon, <1>1, UpTo
<1> QED
  BY Zenon, <1>2

LEMMA RootedNext ==
    ASSUME NEW s, NEW u, NEW n \in Nat, Rooted(s, n),
           \A i \in 1..n : u[i] = s[i],
           u[n + 1].root = TxsUpTo(s, n) \cup u[n + 1].txs
    PROVE  Rooted(u, n + 1)
<1> SUFFICES ASSUME NEW i \in 1..n + 1 PROVE u[i].root = TxsUpTo(u, i)
    BY Zenon DEF Rooted
<1>1. CASE i = n + 1
  <2>1. TxsUpTo(u, n) = TxsUpTo(s, n)
    BY Zenon, UpToSame
  <2> QED
    BY Zenon, <1>1, <2>1, UpToNext
<1>2. CASE i \in 1..n
  <2>1. \A j \in 1..i : u[j] = s[j]
    BY <1>2
  <2>2. TxsUpTo(u, i) = TxsUpTo(s, i)
    BY Zenon, <2>1, UpToSame
  <2> QED
    BY Zenon, <1>2, <2>2 DEF Rooted
<1> QED
  BY <1>1, <1>2

LEMMA RootedLess ==
    ASSUME NEW s, NEW u, NEW m \in Nat, NEW n \in Nat, m <= n, Rooted(s, n),
           \A i \in 1..m : u[i] = s[i]
    PROVE  Rooted(u, m)
<1> SUFFICES ASSUME NEW i \in 1..m PROVE u[i].root = TxsUpTo(u, i)
    BY Zenon DEF Rooted
<1>1. \A j \in 1..i : u[j] = s[j]
  OBVIOUS
<1>2. TxsUpTo(u, i) = TxsUpTo(s, i)
  BY Zenon, <1>1, UpToSame
<1>3. i \in 1..n
  OBVIOUS
<1> QED
  BY Zenon, <1>2, <1>3 DEF Rooted

LEMMA TxsOfUpTo == ASSUME NEW s PROVE TxsOf(s) = TxsUpTo(s, Len(s))
BY Zenon DEF TxsOf, TxsUpTo

LEMMA InReceipts ==
    ASSUME NEW s, NEW n, NEW r
    PROVE  r \in Receipts(s, n) <=> \E i \in 1..n : \E t \in s[i].txs : r = <<i - 1, t>>
BY DEF Receipts

LEMMA ReceiptsSame ==
    ASSUME NEW s, NEW u, NEW n, \A i \in 1..n : u[i] = s[i]
    PROVE  Receipts(u, n) = Receipts(s, n)
<1>1. \A r : r \in Receipts(u, n) <=> r \in Receipts(s, n)
  BY InReceipts
<1> QED
  BY Zenon, <1>1

(* A receipt map holds pairs; its view by transaction swaps them.          *)
LEMMA InByTx ==
    ASSUME NEW s, NEW n \in Nat, NEW p
    PROVE  p \in ByTx(Receipts(s, n)) <=>
              \E i \in 1..n : \E t \in s[i].txs : p = <<t, i - 1>>
<1>1. ASSUME p \in ByTx(Receipts(s, n))
      PROVE  \E i \in 1..n : \E t \in s[i].txs : p = <<t, i - 1>>
  <2>1. PICK r \in Receipts(s, n) : p = <<r[2], r[1]>>
    BY Zenon, <1>1 DEF ByTx
  <2>2. PICK i \in 1..n : \E t \in s[i].txs : r = <<i - 1, t>>
    BY <2>1, InReceipts
  <2>3. PICK t \in s[i].txs : r = <<i - 1, t>>
    BY Zenon, <2>2
  <2>4. p = <<t, i - 1>>
    BY Zenon, <2>1, <2>3
  <2> QED
    BY Zenon, <2>3, <2>4
<1>2. ASSUME NEW i \in 1..n, NEW t \in s[i].txs, p = <<t, i - 1>>
      PROVE  p \in ByTx(Receipts(s, n))
  <2> DEFINE r == <<i - 1, t>>
  <2>1. r \in Receipts(s, n)
    BY Zenon, <1>2, InReceipts
  <2>2. p = <<r[2], r[1]>>
    BY Zenon, <1>2
  <2> QED
    BY Zenon, <2>1, <2>2 DEF ByTx
<1> QED
  BY Zenon, <1>1, <1>2

(* index_block_receipts of the block at height n, whose transactions are   *)
(* in no block below it.                                                   *)
LEMMA IndexNext ==
    ASSUME NEW s, NEW u, NEW n \in Nat, \A i \in 1..n : u[i] = s[i],
           u[n + 1].txs \cap TxsUpTo(s, n) = {}
    PROVE  /\ IndexReceipts(Receipts(s, n), n, u[n + 1].txs) = Receipts(u, n + 1)
           /\ IndexTxHeight(ByTx(Receipts(s, n)), n, u[n + 1].txs) = ByTx(Receipts(u, n + 1))
<1> DEFINE rs == Receipts(s, n)
           b == u[n + 1]
<1>1. /\ n + 1 \in 1..n + 1 /\ n + 1 - 1 = n
      /\ \A i \in 1..n : i \in 1..n + 1 /\ i - 1 # n
      /\ \A i \in 1..n + 1 : i \in 1..n \/ i = n + 1
  OBVIOUS
<1>2. \A r : r \in Receipts(u, n + 1) <=> r \in rs \/ \E t \in b.txs : r = <<n, t>>
  <2> TAKE r
  <2>1. r \in Receipts(u, n + 1) <=> \E i \in 1..n + 1 : \E t \in u[i].txs : r = <<i - 1, t>>
    BY InReceipts
  <2>2. r \in rs <=> \E i \in 1..n : \E t \in s[i].txs : r = <<i - 1, t>>
    BY InReceipts
  <2> QED
    BY <2>1, <2>2, <1>1
<1>3. \A p : p \in ByTx(Receipts(u, n + 1)) <=> p \in ByTx(rs) \/ \E t \in b.txs : p = <<t, n>>
  <2> TAKE p
  <2>1. p \in ByTx(Receipts(u, n + 1)) <=>
            \E i \in 1..n + 1 : \E t \in u[i].txs : p = <<t, i - 1>>
    BY InByTx
  <2>2. p \in ByTx(rs) <=> \E i \in 1..n : \E t \in s[i].txs : p = <<t, i - 1>>
    BY InByTx
  <2> QED
    BY <2>1, <2>2, <1>1
<1>4. \A r \in rs : r[1] # n
  <2> TAKE r \in rs
  <2>1. PICK i \in 1..n : \E t \in s[i].txs : r = <<i - 1, t>>
    BY InReceipts
  <2> QED
    BY <2>1, <1>1
<1>5. \A p \in ByTx(rs) : p[1] \notin b.txs
  <2> TAKE p \in ByTx(rs)
  <2>1. PICK i \in 1..n : \E t \in s[i].txs : p = <<t, i - 1>>
    BY InByTx
  <2>2. PICK t \in s[i].txs : p = <<t, i - 1>>
    BY Zenon, <2>1
  <2>3. t \in TxsUpTo(s, n) /\ p[1] = t
    BY Zenon, <2>2, UpTo
  <2> QED
    BY Zenon, <2>3
<1> HIDE DEF rs, b
<1>6. \A r : r \in IndexReceipts(rs, n, b.txs) <=> r \in rs \/ \E t \in b.txs : r = <<n, t>>
  BY Zenon, <1>4 DEF IndexReceipts
<1>7. \A p : p \in IndexTxHeight(ByTx(rs), n, b.txs)
                <=> p \in ByTx(rs) \/ \E t \in b.txs : p = <<t, n>>
  BY Zenon, <1>5 DEF IndexTxHeight
<1>8. IndexReceipts(rs, n, b.txs) = Receipts(u, n + 1)
  BY Zenon, <1>2, <1>6
<1>9. IndexTxHeight(ByTx(rs), n, b.txs) = ByTx(Receipts(u, n + 1))
  BY Zenon, <1>3, <1>7
<1> QED
  BY Zenon, <1>8, <1>9 DEF rs, b

(* disconnect_to of the block at height h: it was the last one indexed, or *)
(* it was not indexed.                                                     *)
LEMMA DropLast ==
    ASSUME NEW s, NEW n \in Nat, s[n + 1].txs \cap TxsUpTo(s, n) = {}
    PROVE  /\ DropReceipts(Receipts(s, n + 1), n) = Receipts(s, n)
           /\ DropTxHeight(ByTx(Receipts(s, n + 1)), Receipts(s, n + 1), n) = ByTx(Receipts(s, n))
<1> DEFINE rs == Receipts(s, n + 1)
           b == s[n + 1]
<1>1. /\ n + 1 \in 1..n + 1 /\ n + 1 - 1 = n
      /\ \A i \in 1..n : i \in 1..n + 1 /\ i - 1 # n
      /\ \A i \in 1..n + 1 : i \in 1..n \/ i = n + 1
  OBVIOUS
<1>2. ASSUME NEW r PROVE r \in DropReceipts(rs, n) <=> r \in Receipts(s, n)
  <2>1. r \in DropReceipts(rs, n) <=> r \in rs /\ r[1] # n
    BY Zenon DEF DropReceipts
  <2>2. ASSUME r \in Receipts(s, n) PROVE r \in rs /\ r[1] # n
    <3>1. PICK i \in 1..n : \E t \in s[i].txs : r = <<i - 1, t>>
      BY <2>2, InReceipts
    <3>2. r \in rs
      BY Zenon, <3>1, <1>1, InReceipts
    <3> QED
      BY <3>1, <3>2, <1>1
  <2>3. ASSUME r \in rs, r[1] # n PROVE r \in Receipts(s, n)
    <3>1. PICK i \in 1..n + 1 : \E t \in s[i].txs : r = <<i - 1, t>>
      BY <2>3, InReceipts
    <3>2. i # n + 1
      BY <3>1, <2>3, <1>1
    <3> QED
      BY Zenon, <3>1, <3>2, <1>1, InReceipts
  <2> QED
    BY Zenon, <2>1, <2>2, <2>3
<1>3. \A t : <<n, t>> \in rs <=> t \in b.txs
  <2> TAKE t
  <2>1. ASSUME <<n, t>> \in rs PROVE t \in b.txs
    <3>1. PICK i \in 1..n + 1 : \E v \in s[i].txs : <<n, t>> = <<i - 1, v>>
      BY <2>1, InReceipts
    <3> QED
      BY <3>1
  <2>2. ASSUME t \in b.txs PROVE <<n, t>> \in rs
    BY <2>2, <1>1, InReceipts
  <2> QED
    BY Zenon, <2>1, <2>2
<1>4. ASSUME NEW p PROVE p \in DropTxHeight(ByTx(rs), rs, n) <=> p \in ByTx(Receipts(s, n))
  <2>1. p \in DropTxHeight(ByTx(rs), rs, n) <=> p \in ByTx(rs) /\ p[1] \notin b.txs
    BY Zenon, <1>3 DEF DropTxHeight
  <2>2. ASSUME p \in ByTx(Receipts(s, n)) PROVE p \in ByTx(rs) /\ p[1] \notin b.txs
    <3>1. PICK i \in 1..n : \E t \in s[i].txs : p = <<t, i - 1>>
      BY <2>2, InByTx
    <3>2. PICK t \in s[i].txs : p = <<t, i - 1>>
      BY Zenon, <3>1
    <3>3. p \in ByTx(rs)
      BY <3>2, <1>1, InByTx
    <3>4. t \in TxsUpTo(s, n) /\ p[1] = t
      BY Zenon, <3>2, UpTo
    <3> QED
      BY Zenon, <3>3, <3>4
  <2>3. ASSUME p \in ByTx(rs), p[1] \notin b.txs PROVE p \in ByTx(Receipts(s, n))
    <3>1. PICK i \in 1..n + 1 : \E t \in s[i].txs : p = <<t, i - 1>>
      BY <2>3, InByTx
    <3>2. i # n + 1
      BY <3>1, <2>3
    <3> QED
      BY Zenon, <3>1, <3>2, <1>1, InByTx
  <2> QED
    BY Zenon, <2>1, <2>2, <2>3
<1>5. DropReceipts(rs, n) = Receipts(s, n)
  BY Zenon, <1>2
<1>6. DropTxHeight(ByTx(rs), rs, n) = ByTx(Receipts(s, n))
  BY Zenon, <1>4
<1> QED
  BY Zenon, <1>5, <1>6

LEMMA DropNone ==
    ASSUME NEW s, NEW n \in Nat, NEW h \in Nat, h >= n
    PROVE  /\ DropReceipts(Receipts(s, n), h) = Receipts(s, n)
           /\ DropTxHeight(ByTx(Receipts(s, n)), Receipts(s, n), h) = ByTx(Receipts(s, n))
<1>1. \A r \in Receipts(s, n) : r[1] # h
  <2> TAKE r \in Receipts(s, n)
  <2>1. PICK i \in 1..n : \E t \in s[i].txs : r = <<i - 1, t>>
    BY InReceipts
  <2> QED
    BY <2>1
<1>2. \A t : <<h, t>> \notin Receipts(s, n)
  BY Zenon, <1>1
<1> QED
  BY Zenon, <1>1, <1>2 DEF DropReceipts, DropTxHeight

(* The active chain and the blocks it holds.                               *)
LEMMA ActiveFacts ==
    ASSUME Inv
    PROVE  /\ blocks \in Seq(Block) /\ Len(blocks) \in Nat \ {0}
           /\ \A i \in 1..Len(blocks) : blocks[i] \in Block
           /\ blocks[1] = GenesisBlock
           /\ \A i \in 2..Len(blocks) : Follows(blocks[i], blocks[i - 1])
           /\ ledger = [at |-> blocks[Len(blocks)].hash, txs |-> blocks[Len(blocks)].root]
           /\ pc # "panic" => \A i \in 1..Len(blocks) : Accepted(blocks[i]) \/ blocks[i] = job.block
           /\ pc \notin {"connect", "rollback", "panic"} =>
                 \A i \in 1..Len(blocks) : Accepted(blocks[i])
<1>1. /\ blocks \in Seq(Block) /\ Len(blocks) \in Nat \ {0}
      /\ \A i \in 1..Len(blocks) : blocks[i] \in Block
  BY Zenon, EmptySeq, ElementOfSeq DEF Inv, TypeOK, ChainTypeOK
<1>2. /\ blocks[1] = GenesisBlock
      /\ \A i \in 2..Len(blocks) : Follows(blocks[i], blocks[i - 1])
      /\ ledger = [at |-> blocks[Len(blocks)].hash, txs |-> blocks[Len(blocks)].root]
  BY Zenon DEF Inv, ChainInv, StateFollowsChain, Top
<1>3. AcceptedInv
  BY Zenon DEF Inv
<1>4. ASSUME pc # "panic", NEW i \in 1..Len(blocks)
      PROVE  Accepted(blocks[i]) \/ blocks[i] = job.block
  <2>1. Trunk \in 1..Len(blocks)
    BY Zenon, <1>3, <1>4 DEF AcceptedInv
  <2>2. i \in 1..Trunk \/ i \in (Trunk + 1)..Len(blocks)
    BY <2>1
  <2> QED
    BY Zenon, <1>3, <1>4, <2>2 DEF AcceptedInv
<1>5. ASSUME pc \notin {"connect", "rollback", "panic"}, NEW i \in 1..Len(blocks)
      PROVE  Accepted(blocks[i])
  <2>1. Trunk = Len(blocks)
    BY Zenon, <1>5 DEF Trunk, Branching
  <2> QED
    BY Zenon, <1>3, <1>5, <2>1 DEF AcceptedInv
<1> QED
  BY Zenon, <1>1, <1>2, <1>4, <1>5

(* The height insert_entry gave to an accepted block.                      *)
LEMMA AcceptedHeight ==
    ASSUME Inv, NEW b, Accepted(b), b.hash # Genesis
    PROVE  /\ b.prev \in DOMAIN index
           /\ index[b.hash].height = index[b.prev].height + 1
BY DEF Inv, IndexInv, IndexValid, Accepted

LEMMA HeightsLess ==
    ASSUME NEW ix, NEW s, NEW u, NEW m \in Nat, NEW n \in Nat, m <= n, NEW d,
           Heights(ix, s, n, d), \A i \in 1..m : u[i] = s[i]
    PROVE  Heights(ix, u, m, d)
<1>1. \A i \in 1..m : i \in 1..n
  OBVIOUS
<1> QED
  BY Zenon, <1>1 DEF Heights

LEMMA HeightsNext ==
    ASSUME NEW ix, NEW s, NEW u, NEW n \in Nat, NEW d \in {0, 1}, Heights(ix, s, n, d),
           \A i \in 1..n : u[i] = s[i],
           u[n + 1].hash \in DOMAIN ix /\ ix[u[n + 1].hash].block = u[n + 1]
               => ix[u[n + 1].hash].height = n + 1 - d
    PROVE  Heights(ix, u, n + 1, d)
<1> SUFFICES ASSUME NEW i \in 1..n + 1,
                    u[i].hash \in DOMAIN ix, ix[u[i].hash].block = u[i]
             PROVE  ix[u[i].hash].height = i - d
    BY Zenon DEF Heights
<1>1. CASE i \in 1..n
  BY Zenon, <1>1 DEF Heights
<1>2. CASE i = n + 1
  BY <1>2
<1> QED
  BY <1>1, <1>2

(* The block above the first n of a chain has the next height.             *)
LEMMA NextHeight ==
    ASSUME Inv, pc # "panic", NEW s, NEW n \in Nat \ {0}, NEW d \in {0, 1},
           Heights(index, s, n, d), Accepted(s[n]) \/ s[n] = job.block,
           pc = "idle" \/ job.block.hash \notin DOMAIN index,
           pc = "idle" => Accepted(s[n]),
           NEW b, b.prev = s[n].hash, b.prev \in DOMAIN index
    PROVE  index[b.prev].height + 1 = n + 1 - d
<1>1. Accepted(s[n])
  BY Zenon DEF Accepted
<1>2. index[s[n].hash].height = n - d
  BY <1>1 DEF Heights, Accepted
<1> QED
  BY <1>2

(* insert_entry of the block b.                                            *)
LEMMA HeightsInsert ==
    ASSUME NEW ix, NEW iy, NEW b, NEW s, NEW n, NEW d,
           Heights(ix, s, n, d),
           DOMAIN iy = DOMAIN ix \cup {b.hash}, b.hash \notin DOMAIN ix,
           \A x \in DOMAIN ix : iy[x] = ix[x],
           \A i \in 1..n : s[i] = b => iy[b.hash].height = i - d,
           iy[b.hash].block = b
    PROVE  Heights(iy, s, n, d)
BY Zenon DEF Heights

(* connect_to_active of a block that executes on the active head.          *)
LEMMA PushRoots ==
    ASSUME Inv, RootsInv, NEW b, NEW u, NEW n, n = Len(blocks),
           Follows(b, blocks[n]), \A i \in 1..n : u[i] = blocks[i], u[n + 1] = b
    PROVE  /\ Rooted(u, n + 1)
           /\ b.txs \cap TxsUpTo(blocks, n) = {}
<1>1. n \in Nat \ {0}
  BY Zenon, ActiveFacts
<1>2. n \in 1..n
  BY <1>1
<1>3. Rooted(blocks, n) /\ blocks[n].root = TxsUpTo(blocks, n)
  BY Zenon, <1>2 DEF RootsInv, Rooted
<1>4. b.root = TxsUpTo(blocks, n) \cup b.txs /\ b.txs \cap TxsUpTo(blocks, n) = {}
  BY Zenon, <1>3 DEF Follows
<1>5. Rooted(u, n + 1)
  BY Zenon, <1>1, <1>3, <1>4, RootedNext
<1> QED
  BY Zenon, <1>4, <1>5

LEMMA PushReceipts ==
    ASSUME Inv, RootsInv, ReceiptInv, pc # "panic", Indexed = Len(blocks),
           NEW b, NEW u, NEW n, n = Len(blocks), IndexBlockReceipts(b),
           Follows(b, blocks[n]), \A i \in 1..n : u[i] = blocks[i], u[n + 1] = b
    PROVE  /\ active_receipts' = Receipts(u, n + 1)
           /\ tx_height' = ByTx(Receipts(u, n + 1))
<1>1. n \in Nat
  BY Zenon, ActiveFacts
<1>2. u[n + 1].txs \cap TxsUpTo(blocks, n) = {}
  BY Zenon, PushRoots
<1>3. active_receipts = Receipts(blocks, n) /\ tx_height = ByTx(Receipts(blocks, n))
  BY Zenon DEF ReceiptInv
<1>4. /\ IndexReceipts(Receipts(blocks, n), n, u[n + 1].txs) = Receipts(u, n + 1)
      /\ IndexTxHeight(ByTx(Receipts(blocks, n)), n, u[n + 1].txs) = ByTx(Receipts(u, n + 1))
  BY Zenon, <1>1, <1>2, IndexNext
<1> QED
  BY Zenon, <1>3, <1>4 DEF IndexBlockReceipts

(* The chain, when a block that is accepted or under validation is pushed. *)
LEMMA PushViews ==
    ASSUME Inv, ViewInv, pc \notin {"idle", "panic"}, NEW b \in Block, b.hash # Genesis,
           Executes(ledger, b), ConnectToActive(b), index' = index,
           Accepted(b) \/ b = job.block
    PROVE  /\ Len(blocks') = Len(blocks) + 1
           /\ \A i \in 1..Len(blocks) : blocks'[i] = blocks[i]
           /\ blocks'[Len(blocks) + 1] = b
           /\ Follows(b, blocks[Len(blocks)])
           /\ ledger'.txs = ledger.txs \cup b.txs
           /\ Heights(index, blocks, Len(blocks), 1)'
           /\ Rooted(blocks, Len(blocks))'
           /\ Indexed = Len(blocks) /\ IndexBlockReceipts(b) =>
                 /\ active_receipts' = Receipts(blocks', Len(blocks'))
                 /\ tx_height' = ByTx(active_receipts')
<1> DEFINE n == Len(blocks)
           u == blocks'
<1>1. /\ Len(u) = n + 1 /\ \A i \in 1..n : u[i] = blocks[i]
      /\ u[n + 1] = b /\ Follows(b, blocks[n])
  BY Zenon, ConnectFacts
<1>3. HeightsInv /\ RootsInv /\ ReceiptInv
  BY Zenon DEF ViewInv
<1>4. n \in Nat \ {0} /\ (Accepted(blocks[n]) \/ blocks[n] = job.block)
  <2>1. n \in Nat \ {0}
    BY Zenon, ActiveFacts
  <2>2. n \in 1..n
    BY <2>1
  <2> QED
    BY Zenon, <2>1, <2>2, ActiveFacts
<1>5. ASSUME Accepted(b) PROVE index[b.hash].height = n + 1 - 1
  <2>1. b.prev \in DOMAIN index /\ index[b.hash].height = index[b.prev].height + 1
    BY Zenon, <1>5, AcceptedHeight
  <2>2. b.prev = blocks[n].hash /\ job.block.hash \notin DOMAIN index
    BY Zenon, <1>1 DEF Follows, Inv, BranchInv
  <2>3. Heights(index, blocks, n, 1)
    BY Zenon, <1>3 DEF HeightsInv
  <2>4. index[b.prev].height + 1 = n + 1 - 1
    BY Zenon, <1>4, <2>1, <2>2, <2>3, NextHeight
  <2> QED
    BY Zenon, <2>1, <2>4
<1> HIDE DEF n, u
<1>6. Heights(index, u, n + 1, 1)
  <2>1. Heights(index, blocks, n, 1)
    BY Zenon, <1>3 DEF HeightsInv, n
  <2> QED
    BY Zenon, <1>1, <1>4, <1>5, <2>1, HeightsNext DEF Accepted
<1>7. Rooted(u, n + 1)
  BY Zenon, <1>1, <1>3, PushRoots DEF n
<1>8. ASSUME Indexed = n, IndexBlockReceipts(b)
      PROVE  /\ active_receipts' = Receipts(u, n + 1)
             /\ tx_height' = ByTx(Receipts(u, n + 1))
  BY Zenon, <1>1, <1>3, <1>8, PushReceipts DEF n
<1>9. ledger'.txs = ledger.txs \cup b.txs
  BY Zenon DEF ConnectToActive, Execute
<1> QED
  BY Zenon, <1>1, <1>6, <1>7, <1>8, <1>9 DEF n, u

(* A step that leaves the chain and its receipts alone.                    *)
LEMMA ViewFrame ==
    ASSUME ViewInv, UNCHANGED <<index, blocks, active_receipts, tx_height>>,
           pc # "panic", pc' # "replay", pc' # "panic" => Indexed' = Indexed
    PROVE  HeightsInv' /\ RootsInv' /\ ReceiptInv'
BY Zenon DEF ViewInv, HeightsInv, RootsInv, ReceiptInv

(* The initial state.                                                      *)
LEMMA InitViews == Init => ViewInv
<1> SUFFICES ASSUME Init PROVE ViewInv
    BY Zenon
<1>1. /\ pc = "idle" /\ blocks = <<GenesisBlock>> /\ ledger = GenesisLedger
      /\ active_receipts = {} /\ tx_height = {} /\ head = Genesis
      /\ difficulty = Genesis /\ result = [ok |-> TRUE, reverted |-> {}]
      /\ before = [head |-> Genesis, txs |-> {}]
      /\ index = [x \in {Genesis} |-> [block |-> GenesisBlock, height |-> 0, work |-> 0]]
  BY Zenon DEF Init
<1>2. Len(blocks) = 1 /\ blocks[1] = GenesisBlock /\ \A i : i \in 1..Len(blocks) <=> i = 1
  BY <1>1
<1>3. /\ GenesisBlock.hash = Genesis /\ GenesisBlock.txs = {} /\ GenesisBlock.root = {}
      /\ index[Genesis].height = 0 /\ 1 - 1 = 0
  BY <1>1 DEF GenesisBlock
<1>4. HeightsInv
  BY Zenon, <1>1, <1>2, <1>3 DEF HeightsInv, Heights
<1>5. TxsUpTo(blocks, 1) = {}
  <2>1. \A i \in 1..1 : blocks[i].txs = {}
    BY Zenon, <1>2, <1>3
  <2> QED
    BY Zenon, <2>1, UpTo
<1>6. RootsInv
  BY Zenon, <1>1, <1>2, <1>3, <1>5 DEF RootsInv, Rooted
<1>7. ReceiptInv
  <2>1. Indexed = Len(blocks)
    BY Zenon, <1>1 DEF Indexed, Branching
  <2>2. \A r : r \notin Receipts(blocks, Len(blocks))
    BY Zenon, <1>2, <1>3, InReceipts
  <2>3. Receipts(blocks, Len(blocks)) = {} /\ ByTx({}) = {}
    BY Zenon, <2>2 DEF ByTx
  <2> QED
    BY Zenon, <1>1, <2>1, <2>3 DEF ReceiptInv
<1>8. CarriedInv /\ CacheInv
  BY Zenon, <1>1 DEF CarriedInv, CacheInv, NoTxLost
<1> QED
  BY Zenon, <1>4, <1>6, <1>7, <1>8 DEF ViewInv

(* Imports that return at once and change nothing.                         *)
LEMMA QuietImportViews ==
    ASSUME Inv, ViewInv, NEW b \in Offered,
           ImportKnown(b) \/ RejectCandidate(b) \/ RejectExtension(b)
    PROVE  ViewInv'
<1>1. /\ pc = "idle" /\ pc' = "idle" /\ UNCHANGED chainVars
      /\ before' = [head |-> head, txs |-> ledger.txs]
      /\ result'.reverted = {}
  BY DEF ImportKnown, RejectCandidate, RejectExtension, Start, Return
<1>2. UNCHANGED <<index, blocks, head, ledger, active_receipts, tx_height, difficulty>>
  BY Zenon, <1>1 DEF chainVars
<1>3. Indexed' = Indexed
  BY Zenon, <1>1, <1>2 DEF Indexed, Branching
<1>4. HeightsInv' /\ RootsInv' /\ ReceiptInv'
  BY Zenon, <1>1, <1>2, <1>3, ViewFrame
<1>5. CarriedInv'
  BY Zenon, <1>1, <1>2 DEF CarriedInv, NoTxLost
<1>6. CacheInv'
  BY Zenon, <1>1, <1>2 DEF ViewInv, CacheInv
<1> QED
  BY Zenon, <1>4, <1>5, <1>6 DEF ViewInv

LEMMA BeginBranchViews ==
    ASSUME Inv, ViewInv, NEW b \in Offered, BeginBranch(b)
    PROVE  ViewInv'
<1>1. /\ pc = "idle" /\ pc' = "locate" /\ UNCHANGED chainVars
      /\ before' = [head |-> head, txs |-> ledger.txs]
  BY Zenon DEF BeginBranch, Start
<1>2. UNCHANGED <<index, blocks, head, ledger, active_receipts, tx_height, difficulty>>
  BY Zenon, <1>1 DEF chainVars
<1>3. Indexed' = Indexed
  BY Zenon, <1>1, <1>2 DEF Indexed, Branching
<1>4. HeightsInv' /\ RootsInv' /\ ReceiptInv'
  BY Zenon, <1>1, <1>2, <1>3, ViewFrame
<1>5. CarriedInv'
  BY Zenon, <1>1, <1>2 DEF CarriedInv, NoTxLost
<1>6. CacheInv'
  BY Zenon, <1>1, <1>2 DEF ViewInv, CacheInv
<1> QED
  BY Zenon, <1>4, <1>5, <1>6 DEF ViewInv

(* The walk to the fork and to the genesis.                                *)
LEMMA WalkViews ==
    ASSUME Inv, ViewInv, WalkBack \/ CollectAncestor
    PROVE  ViewInv'
<1>1. /\ pc \in {"locate", "ancestors"} /\ UNCHANGED chainVars
      /\ UNCHANGED <<result, before>>
      /\ \/ pc' \in {"locate", "ancestors"}
         \/ pc' = "replay" /\ job' = [job EXCEPT !.todo = job.new]
  BY Zenon DEF WalkBack, CollectAncestor
<1>2. UNCHANGED <<index, blocks, head, ledger, active_receipts, tx_height, difficulty>>
  BY Zenon, <1>1 DEF chainVars
<1>3. Indexed' = Indexed
  BY Zenon, <1>1, <1>2 DEF Indexed, Branching
<1>4. pc' = "replay" => Replayed' = 0
  <2>1. job \in Job
    BY Zenon DEF Inv, TypeOK, ImportTypeOK
  <2>2. Len(job.new) \in Nat
    BY Zenon, <2>1, LenProperties DEF Job
  <2>3. ASSUME pc' = "replay" PROVE job'.new = job.new /\ job'.todo = job.new
    BY Zenon, <1>1, <2>1, <2>3 DEF Job
  <2> QED
    BY <2>2, <2>3 DEF Replayed
<1>5. \A i \in 1..0 : FALSE
  OBVIOUS
<1>6. HeightsInv' /\ RootsInv'
  BY Zenon, <1>2, <1>4, <1>5 DEF ViewInv, HeightsInv, RootsInv, Heights, Rooted
<1>7. ReceiptInv'
  BY Zenon, <1>1, <1>2, <1>3 DEF ViewInv, ReceiptInv
<1>8. CarriedInv'
  BY Zenon, <1>1, <1>2 DEF ViewInv, CarriedInv, NoTxLost
<1>9. CacheInv'
  BY Zenon, <1>1, <1>2 DEF ViewInv, CacheInv
<1> QED
  BY Zenon, <1>6, <1>7, <1>8, <1>9 DEF ViewInv

LEMMA ForkFoundViews ==
    ASSUME Inv, ViewInv, ForkFound
    PROVE  ViewInv'
<1>1. /\ pc = "locate" /\ UNCHANGED chainVars /\ UNCHANGED <<result, before>>
      /\ \/ pc' = "ancestors"
         \/ /\ pc' = "disconnect"
            /\ job' = [job EXCEPT !.fork = Parent.height, !.todo = job.new]
  BY Zenon DEF ForkFound
<1>2. UNCHANGED <<index, blocks, head, ledger, active_receipts, tx_height, difficulty>>
  BY Zenon, <1>1 DEF chainVars
<1>3. Indexed' = Indexed
  BY Zenon, <1>1, <1>2 DEF Indexed, Branching
<1>4. HeightsInv' /\ RootsInv' /\ ReceiptInv'
  BY Zenon, <1>1, <1>2, <1>3, ViewFrame
<1>5. before.txs = ledger.txs
  BY Zenon, <1>1 DEF ViewInv, CarriedInv
<1>6. CarriedInv'
  <2>1. CASE pc' = "ancestors"
    BY Zenon, <2>1, <1>1, <1>2, <1>5 DEF CarriedInv, NoTxLost
  <2>2. CASE pc' = "disconnect"
    <3>1. job'.new = job.new /\ job'.todo = job.new
      BY Zenon, <1>1, <2>2 DEF Inv, TypeOK, ImportTypeOK, Job
    <3>2. TxsOf(job'.new) = TxsOf(job'.todo)
      BY Zenon, <3>1
    <3>3. ledger'.txs = blocks'[Trunk'].root
      <4>1. Trunk' = Len(blocks)
        BY Zenon, <1>2, <2>2 DEF Trunk, Branching
      <4>2. ledger.txs = blocks[Len(blocks)].root
        BY ActiveFacts
      <4> QED
        BY Zenon, <4>1, <4>2, <1>2
    <3> QED
      BY Zenon, <1>1, <1>2, <1>5, <2>2, <3>2, <3>3 DEF CarriedInv, NoTxLost
  <2> QED
    BY Zenon, <1>1, <2>1, <2>2
<1>7. CacheInv'
  BY Zenon, <1>1, <1>2 DEF ViewInv, CacheInv
<1> QED
  BY Zenon, <1>4, <1>6, <1>7 DEF ViewInv

LEMMA DisconnectDoneViews ==
    ASSUME Inv, ViewInv, DisconnectDone
    PROVE  ViewInv'
<1>1. /\ pc \in {"disconnect", "rollback"} /\ Height = job.fork
      /\ pc' = IF pc = "disconnect" THEN "connect" ELSE "reconnect"
      /\ UNCHANGED <<index, blocks, ledger, active_receipts, tx_height, job, result, before>>
  BY Zenon DEF DisconnectDone, AfterDisconnect
<1>2. Len(blocks) = job.fork + 1
  <2>1. Len(blocks) \in Nat \ {0}
    BY Zenon, ActiveFacts
  <2> QED
    BY <1>1, <2>1 DEF Height
<1>3. Indexed' = Indexed /\ Trunk' = Trunk
  BY Zenon, <1>1, <1>2 DEF Indexed, Trunk, Branching
<1>4. HeightsInv' /\ RootsInv' /\ ReceiptInv'
  BY Zenon, <1>1, <1>3, ViewFrame
<1>5. CarriedInv'
  <2>1. CASE pc = "disconnect"
    BY Zenon, <2>1, <1>1, <1>3 DEF ViewInv, CarriedInv, NoTxLost
  <2>2. CASE pc = "rollback"
    BY Zenon, <2>2, <1>1, <1>3 DEF ViewInv, CarriedInv, NoTxLost
  <2> QED
    BY Zenon, <2>1, <2>2, <1>1
<1>6. CacheInv'
  BY Zenon, <1>1 DEF CacheInv
<1> QED
  BY Zenon, <1>4, <1>5, <1>6 DEF ViewInv

LEMMA SideBranchValidViews ==
    ASSUME Inv, ViewInv, SideBranchValid
    PROVE  ViewInv'
<1>1. /\ pc = "connect" /\ pc' = "rollback" /\ UNCHANGED chainVars
      /\ UNCHANGED <<job, result, before>>
  BY Zenon DEF SideBranchValid
<1>2. UNCHANGED <<index, blocks, head, ledger, active_receipts, tx_height, difficulty>>
  BY Zenon, <1>1 DEF chainVars
<1>3. Indexed' = Indexed /\ Trunk' = Trunk
  BY Zenon, <1>1, <1>2 DEF Indexed, Trunk, Branching
<1>4. HeightsInv' /\ RootsInv' /\ ReceiptInv'
  BY Zenon, <1>1, <1>2, <1>3, ViewFrame
<1>5. CarriedInv' /\ CacheInv'
  BY Zenon, <1>1, <1>2, <1>3 DEF ViewInv, CarriedInv, NoTxLost, CacheInv
<1> QED
  BY Zenon, <1>4, <1>5 DEF ViewInv

(* The transactions of a sequence of blocks that grows or shrinks.         *)
LEMMA TxsOfAppend ==
    ASSUME NEW S, NEW s \in Seq(S), NEW e \in S
    PROVE  TxsOf(Append(s, e)) = TxsOf(s) \cup e.txs
<1> DEFINE u == Append(s, e)
<1>1. /\ Len(s) \in Nat /\ Len(u) = Len(s) + 1 /\ u[Len(s) + 1] = e
      /\ \A i \in 1..Len(s) : u[i] = s[i]
  BY AppendFacts
<1> HIDE DEF u
<1>2. TxsOf(u) = TxsUpTo(u, Len(s) + 1) /\ TxsOf(s) = TxsUpTo(s, Len(s))
  BY Zenon, <1>1, TxsOfUpTo
<1>3. TxsUpTo(u, Len(s) + 1) = TxsUpTo(u, Len(s)) \cup u[Len(s) + 1].txs
  BY Zenon, <1>1, UpToNext
<1>4. TxsUpTo(u, Len(s)) = TxsUpTo(s, Len(s))
  BY Zenon, <1>1, UpToSame
<1>5. TxsOf(u) = TxsOf(s) \cup e.txs
  BY Zenon, <1>1, <1>2, <1>3, <1>4
<1> QED
  BY Zenon, <1>5 DEF u

LEMMA TxsOfFront ==
    ASSUME NEW S, NEW s \in Seq(S), s # <<>>
    PROVE  TxsOf(s) = TxsOf(Front(s)) \cup Top(s).txs
<1> DEFINE u == Front(s)
<1>1. /\ Len(u) \in Nat /\ Len(s) = Len(u) + 1
      /\ \A i \in 1..Len(u) : u[i] = s[i]
  BY FrontFacts
<1> HIDE DEF u
<1>2. TxsOf(u) = TxsUpTo(u, Len(u)) /\ TxsOf(s) = TxsUpTo(s, Len(u) + 1)
  BY Zenon, <1>1, TxsOfUpTo
<1>3. TxsUpTo(s, Len(u) + 1) = TxsUpTo(s, Len(u)) \cup s[Len(u) + 1].txs
  BY Zenon, <1>1, UpToNext
<1>4. TxsUpTo(u, Len(u)) = TxsUpTo(s, Len(u))
  BY Zenon, <1>1, UpToSame
<1>5. TxsOf(s) = TxsOf(u) \cup Top(s).txs
  BY Zenon, <1>1, <1>2, <1>3, <1>4 DEF Top
<1> QED
  BY Zenon, <1>5 DEF u

LEMMA TxsOfTail ==
    ASSUME NEW S, NEW s \in Seq(S), s # <<>>
    PROVE  TxsOf(s) \subseteq Head(s).txs \cup TxsOf(Tail(s))
<1>1. /\ Len(s) \in Nat \ {0} /\ Len(Tail(s)) = Len(s) - 1 /\ Head(s) = s[1]
      /\ \A i \in 1..Len(s) - 1 : Tail(s)[i] = s[i + 1]
  BY TailFacts
<1> SUFFICES ASSUME NEW t \in TxsOf(s) PROVE t \in Head(s).txs \cup TxsOf(Tail(s))
    BY Zenon
<1>2. PICK i \in 1..Len(s) : t \in s[i].txs
  BY Zenon DEF TxsOf
<1>3. CASE i = 1
  BY Zenon, <1>1, <1>2, <1>3
<1>4. CASE i # 1
  <2>1. i - 1 \in 1..Len(Tail(s)) /\ Tail(s)[i - 1] = s[i]
    BY <1>1, <1>4
  <2> QED
    BY Zenon, <1>2, <2>1 DEF TxsOf
<1> QED
  BY Zenon, <1>3, <1>4

(* A committed block's root is part of every later one's.                  *)
LEMMA RootsGrow ==
    ASSUME Inv, RootsInv, NEW i \in 1..Len(blocks)
    PROVE  blocks[i].root \subseteq ledger.txs
<1>1. /\ Len(blocks) \in Nat \ {0} /\ ledger.txs = blocks[Len(blocks)].root
  BY ActiveFacts
<1>2. Len(blocks) \in 1..Len(blocks)
  BY <1>1
<1>3. blocks[i].root = TxsUpTo(blocks, i) /\ ledger.txs = TxsUpTo(blocks, Len(blocks))
  BY Zenon, <1>1, <1>2 DEF RootsInv, Rooted
<1>4. \A j \in 1..i : j \in 1..Len(blocks)
  BY <1>1
<1> QED
  BY Zenon, <1>3, <1>4, UpTo

(* One iteration of disconnect_to.                                         *)
LEMMA DisconnectViews ==
    ASSUME Inv, ViewInv, Disconnect
    PROVE  ViewInv'
<1>1. pc \in {"disconnect", "rollback"} /\ Height > job.fork /\ UNCHANGED <<result, before>>
  BY Zenon DEF Disconnect
<1>2. /\ HeightsInv /\ RootsInv /\ ReceiptInv /\ CarriedInv
      /\ job \in Job /\ job.fork \in Nat /\ job.old \in Seq(Block)
  BY Zenon DEF ViewInv, Inv, TypeOK, ImportTypeOK, Job
<1>3. CASE undo_ring = <<>>
  <2>1. pc' = "panic" /\ UNCHANGED <<index, blocks, active_receipts, tx_height>>
    BY Zenon, <1>3 DEF Disconnect, chainVars
  <2>2. HeightsInv' /\ RootsInv' /\ ReceiptInv'
    BY Zenon, <1>1, <2>1, ViewFrame
  <2>3. CarriedInv' /\ CacheInv'
    BY Zenon, <2>1 DEF CarriedInv, CacheInv, NoTxLost
  <2> QED
    BY Zenon, <2>2, <2>3 DEF ViewInv
<1>4. CASE undo_ring # <<>>
  <2> DEFINE n == Len(blocks) - 1
             b == Top(blocks)
  <2>1. /\ ledger' = Top(undo_ring).undo /\ undo_ring' = Front(undo_ring)
        /\ blocks' = Front(blocks) /\ signals' = RemoveSignal(signals, Height)
        /\ tx_height' = DropTxHeight(tx_height, active_receipts, Top(undo_ring).height)
        /\ active_receipts' = DropReceipts(active_receipts, Top(undo_ring).height)
        /\ job' = [job EXCEPT !.old = Disconnected(b)]
        /\ UNCHANGED <<index, head, difficulty, pc>>
    BY Zenon, <1>4 DEF Disconnect
  <2>2. /\ n \in Nat \ {0} /\ n > job.fork /\ Len(blocks) > 1 /\ Len(blocks) = n + 1
        /\ n + 1 \in 2..Len(blocks) /\ n \in 1..Len(blocks) /\ n + 1 \in 1..Len(blocks)
        /\ n + 1 - 1 = n
    <3>1. Len(blocks) \in Nat \ {0} /\ Len(blocks) - 1 > job.fork
      BY Zenon, <1>1, ActiveFacts DEF Height
    <3>2. \A k \in Nat \ {0}, f \in Nat : k - 1 > f =>
             /\ k - 1 \in Nat \ {0} /\ k > 1 /\ k = k - 1 + 1
             /\ k - 1 + 1 \in 2..k /\ k - 1 \in 1..k /\ k - 1 + 1 \in 1..k
             /\ k - 1 + 1 - 1 = k - 1
      OBVIOUS
    <3> QED
      BY Zenon, <1>2, <3>1, <3>2
  <2>3. /\ Len(blocks') = n /\ \A i \in 1..n : blocks'[i] = blocks[i]
    BY Zenon, <1>4, <2>1, <2>2, PopFacts
  <2>4. Top(undo_ring).height = n
    <3>1. undo_ring \in Seq(Undo) /\ Len(undo_ring) \in Nat \ {0}
      BY Zenon, <1>4, EmptySeq DEF Inv, TypeOK, ChainTypeOK
    <3>2. Len(undo_ring) \in 1..Len(undo_ring)
      BY <3>1
    <3>3. RingAligned
      BY Zenon DEF Inv
    <3>4. undo_ring[Len(undo_ring)].height = (Len(blocks) - Len(undo_ring) + Len(undo_ring)) - 1
      BY Zenon, <3>2, <3>3 DEF RingAligned
    <3> QED
      BY <3>1, <3>4, <2>2 DEF Top
  <2>5. /\ b = blocks[n + 1] /\ Follows(b, blocks[n]) /\ b \in Block
    <3>1. Follows(blocks[n + 1], blocks[n])
      BY Zenon, <2>2, ActiveFacts
    <3> QED
      BY Zenon, <2>2, <3>1, ActiveFacts DEF Top
  <2>6. blocks[n].root = TxsUpTo(blocks, n)
    BY Zenon, <1>2, <2>2 DEF RootsInv, Rooted
  <2>7. b.txs \cap TxsUpTo(blocks, n) = {} /\ b.root = blocks[n].root \cup b.txs
    BY Zenon, <2>5, <2>6 DEF Follows
  <2>8. job'.old = IF pc = "disconnect" THEN Append(job.old, b) ELSE job.old
    BY Zenon, <1>2, <2>1 DEF Disconnected, Job
  <2>9. /\ job'.fork = job.fork /\ job'.reorg = job.reorg /\ job'.new = job.new
        /\ job'.todo = job.todo
    BY Zenon, <1>2, <2>1 DEF Job
  <2> HIDE DEF n, b
  <2>10. HeightsInv'
    <3>1. Heights(index, blocks', n, 1)
      <4>1. n <= n + 1 /\ n \in Nat /\ n + 1 \in Nat
        BY <2>2
      <4> QED
        BY <1>2, <2>2, <2>3, <4>1, HeightsLess DEF HeightsInv
    <3> QED
      BY Zenon, <1>1, <2>1, <2>3, <3>1 DEF HeightsInv
  <2>11. RootsInv'
    <3>1. Rooted(blocks', n)
      <4>1. n <= n + 1 /\ n \in Nat /\ n + 1 \in Nat
        BY <2>2
      <4> QED
        BY <1>2, <2>2, <2>3, <4>1, RootedLess DEF RootsInv
    <3> QED
      BY Zenon, <1>1, <2>1, <2>3, <3>1 DEF RootsInv
  <2>12. ReceiptInv'
    <3>0. pc # "panic"
      BY Zenon, <1>1
    <3>1. active_receipts = Receipts(blocks, Indexed) /\ tx_height = ByTx(Receipts(blocks, Indexed))
      BY Zenon, <1>2, <3>0 DEF ReceiptInv
    <3>2. CASE Branching /\ ~job.reorg
      <4> DEFINE m == job.fork + 1
      <4>1. m \in Nat /\ n >= m /\ Indexed = m /\ Indexed' = m
        BY <1>2, <2>1, <2>2, <2>9, <3>2 DEF Indexed, Branching
      <4>2. \A i \in 1..m : blocks'[i] = blocks[i]
        BY <2>2, <2>3, <4>1
      <4>3. n \in Nat
        BY Zenon, <2>2
      <4> HIDE DEF m
      <4>4. active_receipts' = Receipts(blocks, m) /\ tx_height' = ByTx(Receipts(blocks, m))
        BY Zenon, <2>1, <2>4, <3>1, <4>1, <4>3, DropNone
      <4>5. Receipts(blocks', m) = Receipts(blocks, m)
        BY Zenon, <4>2, ReceiptsSame
      <4> QED
        BY Zenon, <4>1, <4>4, <4>5 DEF ReceiptInv
    <3>3. CASE ~(Branching /\ ~job.reorg)
      <4>1. Indexed = n + 1 /\ Indexed' = n
        BY Zenon, <2>1, <2>2, <2>3, <2>9, <3>3 DEF Indexed, Branching
      <4>2. blocks[n + 1].txs \cap TxsUpTo(blocks, n) = {} /\ n \in Nat
        BY Zenon, <2>2, <2>5, <2>7
      <4>3. active_receipts' = Receipts(blocks, n) /\ tx_height' = ByTx(Receipts(blocks, n))
        BY Zenon, <2>1, <2>4, <3>1, <4>1, <4>2, DropLast
      <4>4. Receipts(blocks', n) = Receipts(blocks, n)
        BY Zenon, <2>3, ReceiptsSame
      <4> QED
        BY Zenon, <4>1, <4>3, <4>4 DEF ReceiptInv
    <3> QED
      BY Zenon, <3>2, <3>3
  <2>13. CarriedInv'
    <3>1. CASE pc = "disconnect"
      <4>1. Trunk = n + 1 /\ Trunk' = n
        BY Zenon, <2>1, <2>2, <2>3, <3>1 DEF Trunk, Branching
      <4>2. before.txs \subseteq blocks[n].root \cup b.txs \cup TxsOf(job.old)
        BY Zenon, <1>2, <2>5, <2>7, <3>1, <4>1 DEF CarriedInv
      <4>3. TxsOf(job'.old) = TxsOf(job.old) \cup b.txs
        BY <1>2, <2>5, <2>8, <3>1, TxsOfAppend
      <4>4. blocks'[n] = blocks[n]
        BY <2>2, <2>3
      <4>5. before.txs \subseteq blocks'[n].root \cup TxsOf(job'.old)
        BY Zenon, <4>2, <4>3, <4>4
      <4>6. TxsOf(job.new) \subseteq TxsOf(job.todo)
        BY Zenon, <1>2, <3>1 DEF CarriedInv
      <4> QED
        BY Zenon, <1>1, <2>1, <2>9, <3>1, <4>1, <4>5, <4>6 DEF CarriedInv, NoTxLost
    <3>2. CASE pc = "rollback"
      <4>1. Trunk = job.fork + 1 /\ Trunk' = job.fork + 1
        BY Zenon, <2>1, <2>9, <3>2 DEF Trunk, Branching
      <4>2. blocks'[job.fork + 1] = blocks[job.fork + 1] /\ job'.old = job.old
        BY <1>2, <2>2, <2>3, <2>8, <3>2
      <4> QED
        BY Zenon, <1>1, <1>2, <2>1, <3>2, <4>1, <4>2 DEF CarriedInv, NoTxLost
    <3> QED
      BY Zenon, <1>1, <3>1, <3>2
  <2>14. CacheInv'
    BY Zenon, <1>1, <2>1 DEF CacheInv
  <2> QED
    BY Zenon, <2>10, <2>11, <2>12, <2>13, <2>14 DEF ViewInv
<1> QED
  BY Zenon, <1>3, <1>4

(* insert_entry beside a chain that does not hold the block.               *)
LEMMA EntryFacts ==
    ASSUME NEW b, InsertEntry(b)
    PROVE  /\ DOMAIN index' = DOMAIN index \cup {b.hash}
           /\ index'[b.hash].block = b
           /\ index'[b.hash].height = index[b.prev].height + 1
           /\ b.hash \notin DOMAIN index => \A x \in DOMAIN index : index'[x] = index[x]
BY Zenon DEF InsertEntry

LEMMA StoredHeights ==
    ASSUME Inv, HeightsInv, NEW b, b.hash \notin DOMAIN index, InsertEntry(b),
           \A i \in 1..Len(blocks) : Accepted(blocks[i])
    PROVE  Heights(index', blocks, Len(blocks), 1)
<1>1. /\ DOMAIN index' = DOMAIN index \cup {b.hash} /\ index'[b.hash].block = b
      /\ \A x \in DOMAIN index : index'[x] = index[x]
  BY Zenon, EntryFacts
<1>2. \A i \in 1..Len(blocks) : blocks[i] # b
  BY Zenon DEF Accepted
<1>3. Heights(index, blocks, Len(blocks), 1)
  BY Zenon DEF HeightsInv
<1> QED
  BY Zenon, <1>1, <1>2, <1>3, HeightsInsert

LEMMA ExtendHeadViews ==
    ASSUME Inv, ViewInv, NEW b \in Offered, ExtendHead(b)
    PROVE  ViewInv'
<1> DEFINE n == Len(blocks)
<1>1. /\ pc = "idle" /\ pc' = "idle" /\ b.hash \notin DOMAIN index /\ b.prev = head
      /\ Executes(ledger, b) /\ IndexBlockReceipts(b) /\ ConnectToActive(b)
      /\ InsertEntry(b) /\ head' = b.hash /\ difficulty' = b.hash
      /\ before' = [head |-> head, txs |-> ledger.txs]
  BY Zenon DEF ExtendHead, Start, Return
<1>2. b \in Block /\ b.hash # Genesis
  BY Zenon, OfferedAssumption
<1>3. /\ HeightsInv /\ RootsInv /\ ReceiptInv
  BY Zenon DEF ViewInv
<1>4. /\ Len(blocks') = n + 1 /\ \A i \in 1..n : blocks'[i] = blocks[i]
      /\ blocks'[n + 1] = b /\ Follows(b, blocks[n])
  BY Zenon, <1>1, <1>2, ConnectFacts
<1>5. /\ n \in Nat \ {0} /\ \A i \in 1..n : Accepted(blocks[i])
  BY Zenon, <1>1, ActiveFacts
<1>6. HeightsInv'
  <2>1. Heights(index', blocks, n, 1)
    BY Zenon, <1>1, <1>3, <1>5, StoredHeights
  <2>2. index'[b.hash].height = n + 1 - 1
    <3>1. n \in 1..n
      BY <1>5
    <3>2. Accepted(blocks[n]) /\ b.prev = blocks[n].hash
      BY Zenon, <1>4, <1>5, <3>1 DEF Follows
    <3>3. index[b.prev].height = n - 1
      BY Zenon, <1>3, <3>1, <3>2 DEF HeightsInv, Heights, Accepted
    <3>4. index'[b.hash].height = index[b.prev].height + 1
      BY Zenon, <1>1, EntryFacts
    <3> QED
      BY <1>5, <3>3, <3>4
  <2>3. Heights(index', blocks', n + 1, 1)
    BY Zenon, <1>4, <1>5, <2>1, <2>2, HeightsNext
  <2> QED
    BY Zenon, <1>1, <1>4, <2>3 DEF HeightsInv
<1>7. RootsInv'
  <2>1. Rooted(blocks', n + 1)
    BY Zenon, <1>3, <1>4, PushRoots
  <2> QED
    BY Zenon, <1>1, <1>4, <2>1 DEF RootsInv
<1>8. ReceiptInv'
  <2>1. Indexed = n /\ Indexed' = Len(blocks')
    BY Zenon, <1>1 DEF Indexed, Branching
  <2>2. pc # "panic"
    BY Zenon, <1>1
  <2>3. active_receipts' = Receipts(blocks', n + 1) /\ tx_height' = ByTx(Receipts(blocks', n + 1))
    BY Zenon, <1>1, <1>3, <1>4, <2>1, <2>2, PushReceipts
  <2> QED
    BY Zenon, <1>4, <2>1, <2>3 DEF ReceiptInv
<1>9. CarriedInv'
  <2>1. ledger'.txs = ledger.txs \cup b.txs
    BY Zenon, <1>1 DEF ConnectToActive, Execute
  <2> QED
    BY Zenon, <1>1, <2>1 DEF CarriedInv, NoTxLost
<1>10. CacheInv'
  BY Zenon, <1>1 DEF CacheInv
<1> QED
  BY Zenon, <1>6, <1>7, <1>8, <1>9, <1>10 DEF ViewInv

(* The next block of the branch executes on the cut chain, or does not.    *)
LEMMA ConnectViews ==
    ASSUME Inv, ViewInv, Connect
    PROVE  ViewInv'
<1> DEFINE b == Head(job.todo)
           n == Len(blocks)
<1>1. /\ pc = "connect" /\ job.todo # <<>> /\ UNCHANGED <<result, before>>
      /\ ~Executes(ledger, b) =>
            pc' = "rollback" /\ UNCHANGED chainVars /\ job' = [job EXCEPT !.valid = FALSE]
      /\ Executes(ledger, b) =>
            /\ ConnectToActive(b)
            /\ IF job.reorg THEN IndexBlockReceipts(b)
                            ELSE UNCHANGED <<active_receipts, tx_height>>
            /\ job' = [job EXCEPT !.todo = Tail(job.todo)]
            /\ UNCHANGED <<index, head, difficulty, pc>>
  BY Zenon DEF Connect
<1>2. /\ job \in Job /\ job.fork \in Nat /\ job.todo \in Seq(Block)
      /\ HeightsInv /\ RootsInv /\ ReceiptInv /\ CarriedInv /\ AcceptedInv
  BY Zenon DEF ViewInv, Inv, TypeOK, ImportTypeOK, Job
<1>3. Trunk = job.fork + 1 /\ Trunk \in 1..n /\ n \in Nat \ {0}
  BY Zenon, <1>1, <1>2, ActiveFacts DEF Trunk, Branching, AcceptedInv
<1>4. CASE ~Executes(ledger, b)
  <2>1. pc' = "rollback" /\ UNCHANGED chainVars /\ job' = [job EXCEPT !.valid = FALSE]
    BY Zenon, <1>1, <1>4
  <2>2. UNCHANGED <<index, blocks, ledger, active_receipts, tx_height>>
    BY Zenon, <2>1 DEF chainVars
  <2>3. job'.fork = job.fork /\ job'.reorg = job.reorg /\ job'.old = job.old
    BY Zenon, <1>2, <2>1 DEF Job
  <2>4. Indexed' = Indexed /\ Trunk' = Trunk
    BY <1>1, <2>1, <2>2, <2>3 DEF Indexed, Trunk, Branching
  <2>5. HeightsInv' /\ RootsInv' /\ ReceiptInv'
    BY Zenon, <1>1, <2>1, <2>2, <2>4, ViewFrame
  <2>6. CarriedInv' /\ CacheInv'
    BY Zenon, <1>1, <1>2, <2>1, <2>2, <2>3, <2>4 DEF CarriedInv, CacheInv, NoTxLost
  <2> QED
    BY Zenon, <2>5, <2>6 DEF ViewInv
<1>5. CASE Executes(ledger, b)
  <2>1. /\ ConnectToActive(b)
        /\ job.reorg => IndexBlockReceipts(b)
        /\ ~job.reorg => UNCHANGED <<active_receipts, tx_height>>
        /\ job' = [job EXCEPT !.todo = Tail(job.todo)]
        /\ UNCHANGED <<index, head, difficulty, pc>>
    BY Zenon, <1>1, <1>5
  <2>2. b \in Block /\ b.hash # Genesis /\ (Accepted(b) \/ b = job.block)
    <3>1. b = job.todo[1] /\ 1 \in 1..Len(job.todo) /\ b \in Block
      BY <1>1, <1>2, TailFacts
    <3>2. b.hash # Genesis /\ (Accepted(b) \/ b = job.block)
      BY Zenon, <1>1, <3>1 DEF Inv, TodoInv
    <3> QED
      BY Zenon, <3>1, <3>2
  <2>3. job'.fork = job.fork /\ job'.reorg = job.reorg /\ job'.old = job.old
        /\ job'.new = job.new /\ job'.todo = Tail(job.todo)
    BY Zenon, <1>2, <2>1 DEF Job
  <2>4. TxsOf(job.todo) \subseteq b.txs \cup TxsOf(Tail(job.todo))
    BY Zenon, <1>1, <1>2, TxsOfTail
  <2> HIDE DEF b
  <2>5. /\ Len(blocks') = n + 1 /\ \A i \in 1..n : blocks'[i] = blocks[i]
        /\ ledger'.txs = ledger.txs \cup b.txs
        /\ Heights(index, blocks, Len(blocks), 1)'
        /\ Rooted(blocks, Len(blocks))'
        /\ Indexed = n /\ IndexBlockReceipts(b) =>
              /\ active_receipts' = Receipts(blocks', Len(blocks'))
              /\ tx_height' = ByTx(active_receipts')
    <3>1. pc \notin {"idle", "panic"} /\ (Accepted(b) \/ b = job.block)
      BY Zenon, <1>1, <2>2
    <3> QED
      BY Zenon, <1>5, <2>1, <2>2, <3>1, PushViews
  <2>6. HeightsInv' /\ RootsInv'
    BY Zenon, <1>1, <2>1, <2>5 DEF HeightsInv, RootsInv
  <2>7. ReceiptInv'
    <3>1. CASE job.reorg
      <4>1. Indexed = n /\ Indexed' = Len(blocks')
        BY Zenon, <2>3, <3>1 DEF Indexed
      <4> QED
        BY Zenon, <2>1, <2>5, <3>1, <4>1 DEF ReceiptInv
    <3>2. CASE ~job.reorg
      <4>1. Indexed = Trunk /\ Indexed' = Trunk
        BY Zenon, <1>1, <1>3, <2>1, <2>3, <3>2 DEF Indexed, Branching
      <4>2. \A i \in 1..Trunk : blocks'[i] = blocks[i]
        BY <1>3, <2>5
      <4>3. Receipts(blocks', Trunk) = Receipts(blocks, Trunk)
        BY Zenon, <4>2, ReceiptsSame
      <4> QED
        BY Zenon, <1>1, <1>2, <2>1, <3>2, <4>1, <4>3 DEF ReceiptInv
    <3> QED
      BY Zenon, <3>1, <3>2
  <2>8. CarriedInv'
    <3>1. Trunk' = Trunk /\ blocks'[Trunk] = blocks[Trunk]
      BY <1>1, <1>3, <2>1, <2>3, <2>5 DEF Trunk, Branching
    <3>2. /\ before.txs \subseteq blocks[Trunk].root \cup TxsOf(job.old)
          /\ TxsOf(job.new) \subseteq ledger.txs \cup TxsOf(job.todo)
      BY Zenon, <1>1, <1>2 DEF CarriedInv
    <3>3. TxsOf(job.new) \subseteq ledger'.txs \cup TxsOf(Tail(job.todo))
      BY Zenon, <2>4, <2>5, <3>2
    <3> QED
      BY Zenon, <1>1, <2>1, <2>3, <3>1, <3>2, <3>3 DEF CarriedInv, NoTxLost
  <2>9. CacheInv'
    BY Zenon, <1>1, <2>1 DEF CacheInv
  <2> QED
    BY Zenon, <2>6, <2>7, <2>8, <2>9 DEF ViewInv
<1> QED
  BY Zenon, <1>4, <1>5

(* reconnect pushes the disconnected blocks back.                          *)
LEMMA ReconnectViews ==
    ASSUME Inv, ViewInv, Reconnect
    PROVE  ViewInv'
<1> DEFINE b == Top(job.old)
           n == Len(blocks)
<1>1. /\ pc = "reconnect" /\ job.old # <<>> /\ UNCHANGED <<result, before>>
      /\ ~Executes(ledger, b) => pc' = "panic" /\ UNCHANGED chainVars
      /\ Executes(ledger, b) =>
            /\ ConnectToActive(b)
            /\ IndexBlockReceipts(b)
            /\ job' = [job EXCEPT !.old = Front(job.old)]
            /\ UNCHANGED <<index, head, difficulty, pc>>
  BY Zenon DEF Reconnect
<1>2. /\ job \in Job /\ job.old \in Seq(Block)
      /\ HeightsInv /\ RootsInv /\ ReceiptInv /\ CarriedInv
  BY Zenon DEF ViewInv, Inv, TypeOK, ImportTypeOK, Job
<1>3. CASE ~Executes(ledger, b)
  <2>1. pc' = "panic" /\ UNCHANGED <<index, blocks, active_receipts, tx_height>>
    BY Zenon, <1>1, <1>3 DEF chainVars
  <2>2. HeightsInv' /\ RootsInv' /\ ReceiptInv'
    BY Zenon, <1>1, <2>1, ViewFrame
  <2>3. CarriedInv' /\ CacheInv'
    BY Zenon, <2>1 DEF CarriedInv, CacheInv, NoTxLost
  <2> QED
    BY Zenon, <2>2, <2>3 DEF ViewInv
<1>4. CASE Executes(ledger, b)
  <2>1. /\ ConnectToActive(b) /\ IndexBlockReceipts(b)
        /\ job' = [job EXCEPT !.old = Front(job.old)]
        /\ UNCHANGED <<index, head, difficulty, pc>>
    BY Zenon, <1>1, <1>4
  <2>2. b \in Block /\ b.hash # Genesis /\ Accepted(b)
    <3>1. Len(job.old) \in 1..Len(job.old) /\ b \in Block /\ b = job.old[Len(job.old)]
      BY <1>1, <1>2, FrontFacts DEF Top
    <3>2. OldChain(blocks[Trunk].hash)
      BY Zenon, <1>1 DEF Inv, OldInv
    <3> QED
      BY Zenon, <1>1, <3>1, <3>2 DEF OldChain
  <2>3. TxsOf(job.old) = TxsOf(Front(job.old)) \cup b.txs /\ job'.old = Front(job.old)
    <3>1. TxsOf(job.old) = TxsOf(Front(job.old)) \cup b.txs
      BY Zenon, <1>1, <1>2, TxsOfFront
    <3> QED
      BY Zenon, <1>2, <2>1, <3>1 DEF Job
  <2> HIDE DEF b
  <2>4. Indexed = n /\ Indexed' = Len(blocks') /\ Trunk = n /\ Trunk' = Len(blocks')
    BY Zenon, <1>1, <2>1 DEF Indexed, Trunk, Branching
  <2>5. /\ Len(blocks') = n + 1 /\ blocks'[n + 1] = b
        /\ Follows(b, blocks[n])
        /\ Heights(index, blocks, Len(blocks), 1)'
        /\ Rooted(blocks, Len(blocks))'
        /\ active_receipts' = Receipts(blocks', Len(blocks'))
        /\ tx_height' = ByTx(active_receipts')
    <3>1. pc \notin {"idle", "panic"}
      BY Zenon, <1>1
    <3> QED
      BY Zenon, <1>4, <2>1, <2>2, <2>4, <3>1, PushViews
  <2>6. HeightsInv' /\ RootsInv'
    BY Zenon, <1>1, <2>1, <2>5 DEF HeightsInv, RootsInv
  <2>7. ReceiptInv'
    BY Zenon, <2>4, <2>5 DEF ReceiptInv
  <2>8. CarriedInv'
    <3>1. before.txs \subseteq blocks[n].root \cup TxsOf(job.old)
      BY Zenon, <1>1, <1>2, <2>4 DEF CarriedInv
    <3>2. b.root = blocks[n].root \cup b.txs
      BY Zenon, <2>5 DEF Follows
    <3>3. before.txs \subseteq blocks'[Trunk'].root \cup TxsOf(job'.old)
      BY Zenon, <2>3, <2>4, <2>5, <3>1, <3>2
    <3> QED
      BY Zenon, <1>1, <2>1, <3>3 DEF CarriedInv, NoTxLost
  <2>9. CacheInv'
    BY Zenon, <1>1, <2>1 DEF CacheInv
  <2> QED
    BY Zenon, <2>6, <2>7, <2>8, <2>9 DEF ViewInv
<1> QED
  BY Zenon, <1>3, <1>4

LEMMA NoTxsOfEmpty == TxsOf(<<>>) = {}
<1>1. \A i \in 1..Len(<<>>) : FALSE
  OBVIOUS
<1> QED
  BY Zenon, <1>1 DEF TxsOf

(* The end of a rollback.                                                  *)
LEMMA ReconnectDoneViews ==
    ASSUME Inv, ViewInv, ReconnectDone
    PROVE  ViewInv'
<1> DEFINE n == Len(blocks)
<1>1. /\ pc = "reconnect" /\ pc' = "idle" /\ job.old = <<>>
      /\ head' = Top(blocks).hash /\ difficulty' = Top(blocks).hash
      /\ IF job.valid THEN InsertEntry(job.block) ELSE UNCHANGED index
      /\ UNCHANGED <<blocks, ledger, active_receipts, tx_height, before>>
  BY Zenon DEF ReconnectDone, Finish
<1>2. /\ HeightsInv /\ RootsInv /\ ReceiptInv /\ CarriedInv
  BY Zenon DEF ViewInv
<1>3. \A i \in 1..n : Accepted(blocks[i])
  BY Zenon, <1>1, ActiveFacts
<1>4. HeightsInv'
  <2>1. job.block.hash \notin DOMAIN index
    BY Zenon, <1>1 DEF Inv, BranchInv
  <2>2. Heights(index', blocks, n, 1)
    <3>1. CASE job.valid
      BY Zenon, <1>1, <1>2, <1>3, <2>1, <3>1, StoredHeights
    <3>2. CASE ~job.valid
      BY Zenon, <1>1, <1>2, <3>2 DEF HeightsInv
    <3> QED
      BY Zenon, <3>1, <3>2
  <2> QED
    BY Zenon, <1>1, <2>2 DEF HeightsInv
<1>5. RootsInv'
  BY Zenon, <1>1, <1>2 DEF RootsInv
<1>6. Indexed = n /\ Indexed' = n /\ Trunk = n
  BY Zenon, <1>1 DEF Indexed, Trunk, Branching
<1>7. ReceiptInv'
  BY Zenon, <1>1, <1>2, <1>6 DEF ReceiptInv
<1>8. CarriedInv'
  <2>1. before.txs \subseteq blocks[n].root \cup {}
    BY Zenon, <1>1, <1>2, <1>6, NoTxsOfEmpty DEF CarriedInv
  <2>2. ledger.txs = blocks[n].root
    BY ActiveFacts
  <2> QED
    BY Zenon, <1>1, <2>1, <2>2 DEF CarriedInv, NoTxLost
<1>9. CacheInv'
  BY Zenon, <1>1 DEF CacheInv
<1> QED
  BY Zenon, <1>4, <1>5, <1>7, <1>8, <1>9 DEF ViewInv

(* try_incremental_reorg adopts the branch.                                *)
LEMMA AdoptBranchViews ==
    ASSUME Inv, ViewInv, AdoptBranch
    PROVE  ViewInv'
<1> DEFINE n == Len(blocks)
           b == job.block
<1>1. /\ pc = "connect" /\ pc' = "idle" /\ job.todo = <<>> /\ job.reorg
      /\ InsertEntry(b) /\ head' = b.hash /\ difficulty' = b.hash
      /\ result'.reverted = Reverted(job.old, job.new)
      /\ UNCHANGED <<blocks, ledger, active_receipts, tx_height, before>>
  BY Zenon DEF AdoptBranch, Finish
<1>2. /\ HeightsInv /\ RootsInv /\ ReceiptInv /\ CarriedInv
  BY Zenon DEF ViewInv
<1>3. /\ n \in Nat \ {0} /\ blocks[1] = GenesisBlock
      /\ \A i \in 2..n : Follows(blocks[i], blocks[i - 1])
  BY Zenon, ActiveFacts
<1>4. \A i \in 1..n : Accepted(blocks[i]) \/ blocks[i] = b
  BY Zenon, <1>1, ActiveFacts
<1>5. b.hash \notin DOMAIN index /\ b.prev \in DOMAIN index /\ Genesis \in DOMAIN index
  BY Zenon, <1>1 DEF Inv, BranchInv, IndexInv
<1> HIDE DEF n
<1>6. HeightsInv'
  <2>1. /\ DOMAIN index' = DOMAIN index \cup {b.hash} /\ index'[b.hash].block = b
        /\ \A x \in DOMAIN index : index'[x] = index[x]
        /\ index'[b.hash].height = index[b.prev].height + 1
    BY Zenon, <1>1, <1>5, EntryFacts
  <2>2. ASSUME NEW i \in 1..n, blocks[i] = b PROVE index'[b.hash].height = i - 1
    <3>1. i # 1
      BY <1>3, <1>5, <2>2 DEF GenesisBlock
    <3>2. PICK k \in Nat \ {0} : i = k + 1 /\ i - 1 = k /\ k + 1 - 1 = k
      BY <1>3, <3>1
    <3>3. i \in 2..n /\ k \in 1..n /\ k <= n /\ k \in Nat /\ n \in Nat
      BY <1>3, <3>2
    <3>4. b.prev = blocks[k].hash
      BY Zenon, <1>3, <2>2, <3>2, <3>3 DEF Follows
    <3>5. Heights(index, blocks, k, 1)
      BY Zenon, <1>2, <3>3, HeightsLess DEF HeightsInv, n
    <3>6. Accepted(blocks[k]) \/ blocks[k] = job.block
      BY Zenon, <1>4, <3>3
    <3>7. index[b.prev].height + 1 = k + 1 - 1
      BY <1>1, <1>5, <3>4, <3>5, <3>6, NextHeight
    <3> QED
      BY Zenon, <2>1, <3>2, <3>7
  <2>3. Heights(index, blocks, n, 1)
    BY Zenon, <1>2 DEF HeightsInv, n
  <2>4. Heights(index', blocks, n, 1)
    BY Zenon, <1>5, <2>1, <2>2, <2>3, HeightsInsert
  <2> QED
    BY Zenon, <1>1, <2>4 DEF HeightsInv, n
<1>7. RootsInv'
  BY Zenon, <1>1, <1>2 DEF RootsInv
<1>8. ReceiptInv'
  <2>1. Indexed = Len(blocks) /\ Indexed' = Len(blocks)
    BY Zenon, <1>1 DEF Indexed, Branching
  <2> QED
    BY Zenon, <1>1, <1>2, <2>1 DEF ReceiptInv
<1>9. CarriedInv'
  <2>1. /\ before.txs \subseteq blocks[Trunk].root \cup TxsOf(job.old)
        /\ TxsOf(job.new) \subseteq ledger.txs \cup {}
    BY Zenon, <1>1, <1>2, NoTxsOfEmpty DEF CarriedInv
  <2>2. blocks[Trunk].root \subseteq ledger.txs
    <3>1. Trunk \in 1..Len(blocks)
      BY Zenon, <1>1 DEF Inv, AcceptedInv
    <3> QED
      BY Zenon, <1>2, <3>1, RootsGrow
  <2> QED
    BY Zenon, <1>1, <2>1, <2>2 DEF CarriedInv, NoTxLost, Reverted
<1>10. CacheInv'
  BY Zenon, <1>1 DEF CacheInv
<1> QED
  BY Zenon, <1>6, <1>7, <1>8, <1>9, <1>10 DEF ViewInv

(* The replayed blocks, and the height of the next one.                    *)
LEMMA ReplayHeight ==
    ASSUME Inv, pc = "replay", NEW k \in Nat, k + 1 \in 1..Len(job.new),
           k = 0 => Follows(job.new[1], GenesisBlock),
           k > 0 => Follows(job.new[k + 1], job.new[k]),
           Heights(index, job.new, k, 0),
           job.new[k + 1].prev \in DOMAIN index
    PROVE  index[job.new[k + 1].prev].height + 1 = k + 1 - 0
<1>1. /\ job.block.hash \notin DOMAIN index
      /\ \A i \in 1..Len(job.new) : Accepted(job.new[i]) \/ job.new[i] = job.block
      /\ index[Genesis].height = 0
  BY DEF Inv, BranchInv, IndexInv
<1>2. CASE k = 0
  <2>1. job.new[k + 1].prev = Genesis
    BY <1>2 DEF Follows, GenesisBlock
  <2> QED
    BY <1>1, <1>2, <2>1
<1>3. CASE k > 0
  <2>1. k \in Nat \ {0} /\ k \in 1..Len(job.new)
    <3>1. Len(job.new) \in Nat
      BY Zenon, LenProperties DEF Inv, TypeOK, ImportTypeOK, Job
    <3> QED
      BY <1>3, <3>1
  <2>2. job.new[k + 1].prev = job.new[k].hash
    BY Zenon, <1>3 DEF Follows
  <2>3. Accepted(job.new[k]) \/ job.new[k] = job.block
    BY Zenon, <1>1, <2>1
  <2> QED
    BY <1>1, <2>1, <2>2, <2>3, NextHeight
<1> QED
  BY <1>2, <1>3

LEMMA ReplayViews ==
    ASSUME Inv, Inv', ViewInv, Replay
    PROVE  ViewInv'
<1>1. /\ pc = "replay" /\ job.todo # <<>> /\ UNCHANGED chainVars
      /\ \/ /\ job' = [job EXCEPT !.todo = Tail(job.todo),
                                  !.ledger = Execute(job.ledger, Head(job.todo))]
            /\ UNCHANGED <<pc, result, before>>
         \/ Finish(FALSE, {})
  BY Zenon DEF Replay
<1>2. UNCHANGED <<index, blocks, head, ledger, active_receipts, tx_height, difficulty>>
  BY Zenon, <1>1 DEF chainVars
<1>3. /\ HeightsInv /\ RootsInv /\ ReceiptInv /\ CarriedInv /\ CacheInv /\ job \in Job
  BY Zenon DEF ViewInv, Inv, TypeOK, ImportTypeOK
<1>4. CASE Finish(FALSE, {})
  <2>1. pc' = "idle" /\ UNCHANGED before
    BY Zenon, <1>4 DEF Finish
  <2>2. Indexed' = Indexed
    BY Zenon, <1>1, <1>2, <2>1 DEF Indexed, Branching
  <2>3. HeightsInv' /\ RootsInv' /\ ReceiptInv'
    BY Zenon, <1>1, <1>2, <2>1, <2>2, ViewFrame
  <2>4. CarriedInv' /\ CacheInv'
    BY Zenon, <1>1, <1>2, <1>3, <2>1 DEF CarriedInv, CacheInv, NoTxLost
  <2> QED
    BY Zenon, <2>3, <2>4 DEF ViewInv
<1>5. CASE ~Finish(FALSE, {})
  <2> DEFINE k == Replayed
             f == job.new
  <2>1. /\ UNCHANGED <<pc, result, before>>
        /\ job' = [job EXCEPT !.todo = Tail(job.todo),
                              !.ledger = Execute(job.ledger, Head(job.todo))]
    BY Zenon, <1>1, <1>5
  <2>2. job'.new = f /\ job'.todo = Tail(job.todo)
    BY Zenon, <1>3, <2>1 DEF Job
  <2>3. k \in Nat /\ k + 1 \in 1..Len(f) /\ Replayed' = k + 1
    <3>1. /\ Len(job.todo) \in Nat \ {0} /\ Len(Tail(job.todo)) = Len(job.todo) - 1
      BY Zenon, <1>1, <1>3, TailFacts DEF Job
    <3>2. Len(f) \in Nat
      BY Zenon, <1>3, LenProperties DEF Job
    <3>3. Replayed \in 0..Len(f) /\ Replayed' \in 0..Len(f)
      BY Zenon, <1>1, <2>1, <2>2 DEF Inv, ReplayInv
    <3>4. Replayed' = Len(f) - (Len(job.todo) - 1)
      BY Zenon, <2>2, <3>1 DEF Replayed
    <3>5. \A a \in Nat, b \in Nat \ {0} :
             a - b \in 0..a /\ a - (b - 1) \in 0..a
                => a - b \in Nat /\ (a - b) + 1 \in 1..a /\ a - (b - 1) = (a - b) + 1
      OBVIOUS
    <3>6. Len(f) - Len(job.todo) \in 0..Len(f) /\ Len(f) - (Len(job.todo) - 1) \in 0..Len(f)
      BY Zenon, <3>3, <3>4 DEF Replayed
    <3>7. /\ Len(f) - Len(job.todo) \in Nat
          /\ (Len(f) - Len(job.todo)) + 1 \in 1..Len(f)
          /\ Len(f) - (Len(job.todo) - 1) = (Len(f) - Len(job.todo)) + 1
      BY Zenon, <3>1, <3>2, <3>5, <3>6
    <3> QED
      BY Zenon, <3>4, <3>7 DEF Replayed
  <2>4. /\ Follows(f[1], GenesisBlock)
        /\ k > 0 => Follows(f[k + 1], f[k])
    <3>1. ReplayInv' /\ pc' = "replay" /\ Replayed' > 0
      BY <1>1, <2>1, <2>3 DEF Inv
    <3>2. /\ Follows(f[1], GenesisBlock)
          /\ \A i \in 2..k + 1 : Follows(f[i], f[i - 1])
      BY Zenon, <2>2, <2>3, <3>1 DEF ReplayInv
    <3>3. ASSUME k > 0 PROVE Follows(f[k + 1], f[k])
      <4>1. k + 1 \in 2..k + 1 /\ (k + 1) - 1 = k
        BY <2>3, <3>3
      <4>2. Follows(f[k + 1], f[(k + 1) - 1])
        BY Zenon, <3>2, <4>1
      <4> QED
        BY Zenon, <4>1, <4>2 DEF Follows
    <3> QED
      BY Zenon, <3>2, <3>3
  <2> HIDE DEF k
  <2>5. HeightsInv'
    <3>1. Heights(index, f, k, 0)
      BY Zenon, <1>1, <1>3 DEF HeightsInv, k
    <3>2. ASSUME Accepted(f[k + 1]) PROVE index[f[k + 1].hash].height = k + 1 - 0
      <4>1. f[k + 1].hash # Genesis
        BY Zenon, <1>1, <2>3 DEF Inv, BranchInv
      <4>2. /\ f[k + 1].prev \in DOMAIN index
            /\ index[f[k + 1].hash].height = index[f[k + 1].prev].height + 1
        BY Zenon, <3>2, <4>1, AcceptedHeight
      <4>3. index[f[k + 1].prev].height + 1 = k + 1 - 0
        BY Zenon, <1>1, <2>3, <2>4, <3>1, <4>2, ReplayHeight
      <4> QED
        BY Zenon, <4>2, <4>3
    <3>3. Heights(index, f, k + 1, 0)
      BY Zenon, <2>3, <3>1, <3>2, HeightsNext DEF Accepted
    <3> QED
      BY Zenon, <1>2, <1>3, <2>2, <2>3, <3>3 DEF HeightsInv
  <2>6. RootsInv'
    <3>1. Rooted(f, k)
      BY Zenon, <1>1, <1>3 DEF RootsInv, k
    <3>2. f[k + 1].root = TxsUpTo(f, k) \cup f[k + 1].txs
      <4>1. CASE k = 0
        <5>1. \A i \in 1..k : FALSE
          BY <4>1
        <5>2. TxsUpTo(f, k) = {}
          BY Zenon, <5>1, UpTo
        <5>3. f[1].root = {} \cup f[1].txs
          BY Zenon, <2>4 DEF Follows, GenesisBlock
        <5> QED
          BY <4>1, <5>2, <5>3
      <4>2. CASE k # 0
        <5>1. k > 0 /\ k \in 1..k
          BY <2>3, <4>2
        <5> QED
          BY Zenon, <2>4, <3>1, <5>1 DEF Follows, Rooted
      <4> QED
        BY Zenon, <4>1, <4>2
    <3>3. Rooted(f, k + 1)
      BY Zenon, <2>3, <3>1, <3>2, RootedNext
    <3> QED
      BY Zenon, <1>2, <1>3, <2>2, <2>3, <3>3 DEF RootsInv
  <2>7. Indexed' = Indexed
    BY Zenon, <1>1, <1>2, <2>1 DEF Indexed, Branching
  <2>8. ReceiptInv' /\ CarriedInv' /\ CacheInv'
    BY Zenon, <1>1, <1>2, <1>3, <2>1, <2>7 DEF ReceiptInv, CarriedInv, CacheInv, NoTxLost
  <2> QED
    BY Zenon, <2>5, <2>6, <2>8 DEF ViewInv
<1> QED
  BY Zenon, <1>4, <1>5

LEMMA StoreSideBranchViews ==
    ASSUME Inv, ViewInv, StoreSideBranch
    PROVE  ViewInv'
<1>1. /\ pc = "replay" /\ pc' = "idle" /\ InsertEntry(job.block)
      /\ UNCHANGED <<blocks, head, ledger, active_receipts, tx_height, difficulty, before>>
  BY Zenon DEF StoreSideBranch, Finish
<1>2. /\ HeightsInv /\ RootsInv /\ ReceiptInv /\ CarriedInv /\ CacheInv
  BY Zenon DEF ViewInv
<1>3. \A i \in 1..Len(blocks) : Accepted(blocks[i])
  BY Zenon, <1>1, ActiveFacts
<1>4. job.block.hash \notin DOMAIN index
  BY Zenon, <1>1 DEF Inv, BranchInv
<1>5. HeightsInv' /\ RootsInv'
  BY Zenon, <1>1, <1>2, <1>3, <1>4, StoredHeights DEF HeightsInv, RootsInv
<1>6. Indexed = Len(blocks) /\ Indexed' = Len(blocks)
  BY Zenon, <1>1 DEF Indexed, Branching
<1>7. ReceiptInv'
  BY Zenon, <1>1, <1>2, <1>6 DEF ReceiptInv
<1>8. CarriedInv' /\ CacheInv'
  BY Zenon, <1>1, <1>2 DEF CarriedInv, CacheInv, NoTxLost
<1> QED
  BY Zenon, <1>5, <1>7, <1>8 DEF ViewInv

(* rebuild_branch's maps are those of the chain it builds.                 *)
Shifted(f, u, n) ==
    /\ TxsUpTo(u, n + 1) = TxsUpTo(f, n)
    /\ Receipts(u, n + 1) = UNION {{<<h, t>> : t \in f[h].txs} : h \in 1..n}
    /\ ByTx(Receipts(u, n + 1)) = UNION {{<<t, h>> : t \in f[h].txs} : h \in 1..n}

LEMMA ShiftedReceipts ==
    ASSUME NEW f, NEW u, NEW n \in Nat, u[1].txs = {}, \A i \in 1..n : u[i + 1] = f[i]
    PROVE  Shifted(f, u, n)
<1>1. /\ \A i \in 1..n + 1 : i = 1 \/ (i - 1 \in 1..n /\ u[i] = f[i - 1])
      /\ \A i \in 1..n : i + 1 \in 1..n + 1 /\ (i + 1) - 1 = i
  OBVIOUS
<1>2. TxsUpTo(u, n + 1) = TxsUpTo(f, n)
  <2>1. ASSUME NEW t \in TxsUpTo(u, n + 1) PROVE t \in TxsUpTo(f, n)
    <3>1. PICK i \in 1..n + 1 : t \in u[i].txs
      BY Zenon, UpTo
    <3>2. i # 1
      BY Zenon, <3>1
    <3> QED
      BY Zenon, <1>1, <3>1, <3>2, UpTo
  <2>2. ASSUME NEW t \in TxsUpTo(f, n) PROVE t \in TxsUpTo(u, n + 1)
    BY <1>1, UpTo
  <2> QED
    BY Zenon, <2>1, <2>2
<1>3. ASSUME NEW r
      PROVE  r \in Receipts(u, n + 1) <=> \E h \in 1..n : \E t \in f[h].txs : r = <<h, t>>
  <2>1. ASSUME r \in Receipts(u, n + 1) PROVE \E h \in 1..n : \E t \in f[h].txs : r = <<h, t>>
    <3>1. PICK i \in 1..n + 1 : \E t \in u[i].txs : r = <<i - 1, t>>
      BY <2>1, InReceipts
    <3>2. i # 1
      BY Zenon, <3>1
    <3> QED
      BY Zenon, <1>1, <3>1, <3>2
  <2>2. ASSUME NEW h \in 1..n, NEW t \in f[h].txs, r = <<h, t>> PROVE r \in Receipts(u, n + 1)
    <3>1. h + 1 \in 1..n + 1 /\ t \in u[h + 1].txs /\ r = <<(h + 1) - 1, t>>
      BY Zenon, <1>1, <2>2
    <3> QED
      BY Zenon, <3>1, InReceipts
  <2> QED
    BY Zenon, <2>1, <2>2
<1>4. ASSUME NEW p
      PROVE  p \in ByTx(Receipts(u, n + 1)) <=> \E h \in 1..n : \E t \in f[h].txs : p = <<t, h>>
  <2>0. n + 1 \in Nat
    OBVIOUS
  <2>1. ASSUME p \in ByTx(Receipts(u, n + 1)) PROVE \E h \in 1..n : \E t \in f[h].txs : p = <<t, h>>
    <3>1. PICK i \in 1..n + 1 : \E t \in u[i].txs : p = <<t, i - 1>>
      BY <2>0, <2>1, InByTx
    <3>2. i # 1
      BY Zenon, <3>1
    <3> QED
      BY Zenon, <1>1, <3>1, <3>2
  <2>2. ASSUME NEW h \in 1..n, NEW t \in f[h].txs, p = <<t, h>>
        PROVE  p \in ByTx(Receipts(u, n + 1))
    <3>1. h + 1 \in 1..n + 1 /\ t \in u[h + 1].txs /\ p = <<t, (h + 1) - 1>>
      BY Zenon, <1>1, <2>2
    <3> QED
      BY Zenon, <2>0, <3>1, InByTx
  <2> QED
    BY Zenon, <2>1, <2>2
<1>5. \A r : r \in UNION {{<<h, t>> : t \in f[h].txs} : h \in 1..n}
                <=> \E h \in 1..n : \E t \in f[h].txs : r = <<h, t>>
  OBVIOUS
<1>6. \A p : p \in UNION {{<<t, h>> : t \in f[h].txs} : h \in 1..n}
                <=> \E h \in 1..n : \E t \in f[h].txs : p = <<t, h>>
  OBVIOUS
<1>7. Receipts(u, n + 1) = UNION {{<<h, t>> : t \in f[h].txs} : h \in 1..n}
  BY <1>3, <1>5
<1>8. ByTx(Receipts(u, n + 1)) = UNION {{<<t, h>> : t \in f[h].txs} : h \in 1..n}
  BY <1>4, <1>6
<1> QED
  BY Zenon, <1>2, <1>7, <1>8 DEF Shifted

LEMMA ShiftedViews ==
    ASSUME NEW ix, NEW f, NEW u, NEW n \in Nat, u[1] = GenesisBlock,
           \A i \in 1..n : u[i + 1] = f[i],
           Heights(ix, f, n, 0), Rooted(f, n),
           ix[Genesis].height = 0
    PROVE  Heights(ix, u, n + 1, 1) /\ Rooted(u, n + 1)
<1>1. /\ \A i \in 1..n + 1 : i = 1 \/ (i - 1 \in 1..n /\ u[i] = f[i - 1] /\ (i - 1) + 1 = i /\ i - 1 \in Nat)
      /\ \A i \in 1..n + 1 : (i - 1) - 0 = i - 1
      /\ 1 - 1 = 0
  OBVIOUS
<1>2. u[1].hash = Genesis /\ u[1].txs = {} /\ u[1].root = {}
  BY DEF GenesisBlock
<1>3. ASSUME NEW i \in 1..n + 1,
             u[i].hash \in DOMAIN ix, ix[u[i].hash].block = u[i]
      PROVE  ix[u[i].hash].height = i - 1
  <2>1. CASE i = 1
    BY <1>2, <2>1
  <2>2. CASE i # 1
    BY <1>1, <1>3, <2>2 DEF Heights
  <2> QED
    BY Zenon, <2>1, <2>2
<1>4. ASSUME NEW i \in 1..n + 1 PROVE u[i].root = TxsUpTo(u, i)
  <2>1. CASE i = 1
    <3>1. \A j \in 1..1 : j = 1
      OBVIOUS
    <3>2. TxsUpTo(u, 1) = {}
      BY Zenon, <1>2, <3>1, UpTo
    <3> QED
      BY Zenon, <1>2, <2>1, <3>2
  <2>2. CASE i # 1
    <3>1. i - 1 \in 1..n /\ u[i] = f[i - 1] /\ (i - 1) + 1 = i /\ i - 1 \in Nat
      BY Zenon, <1>1, <2>2
    <3>2. \A j \in 1..(i - 1) : u[j + 1] = f[j]
      BY <3>1
    <3>3. TxsUpTo(u, (i - 1) + 1) = TxsUpTo(f, i - 1)
      <4>1. Shifted(f, u, i - 1)
        BY <1>2, <3>1, <3>2, ShiftedReceipts
      <4> QED
        BY Zenon, <4>1 DEF Shifted
    <3> QED
      BY Zenon, <3>1, <3>3 DEF Rooted
  <2> QED
    BY Zenon, <2>1, <2>2
<1> QED
  BY Zenon, <1>3, <1>4 DEF Heights, Rooted

LEMMA AdoptRebuiltViews ==
    ASSUME Inv, ViewInv, AdoptRebuilt
    PROVE  ViewInv'
<1> DEFINE f == job.new
           N == Len(job.new)
           b == job.block
           rev == UNION {blocks[i].txs : i \in {j \in 1..Len(blocks) :
                            \A k \in 1..N : f[k].hash # blocks[j].hash}}
<1>1. /\ pc = "replay" /\ pc' = "idle" /\ job.todo = <<>>
      /\ InsertEntry(b) /\ ledger' = job.ledger
      /\ blocks' = <<GenesisBlock>> \o f
      /\ head' = b.hash /\ difficulty' = b.hash
      /\ active_receipts' = UNION {{<<h, t>> : t \in f[h].txs} : h \in 1..N}
      /\ tx_height' = UNION {{<<t, h>> : t \in f[h].txs} : h \in 1..N}
      /\ result'.reverted = rev
      /\ UNCHANGED before
  BY Zenon DEF AdoptRebuilt, Finish
<1>2. /\ HeightsInv /\ RootsInv /\ CarriedInv
  BY Zenon DEF ViewInv
<1>3. /\ N \in Nat \ {0} /\ f[N] = b
      /\ Follows(f[1], GenesisBlock)
      /\ \A i \in 2..N : Follows(f[i], f[i - 1])
      /\ job.ledger = [at |-> b.hash, txs |-> b.root]
  BY Zenon, <1>1, ReplayedTipFollows
<1>4. /\ b.hash \notin DOMAIN index /\ b.prev \in DOMAIN index /\ Genesis \in DOMAIN index
      /\ index[Genesis].height = 0
      /\ \A i \in 1..N : Accepted(f[i]) \/ f[i] = b
  BY <1>1 DEF Inv, BranchInv, IndexInv
<1>5. /\ f \in Seq(Block) /\ Replayed = N
  BY <1>1, <1>3 DEF Replayed, Inv, TypeOK, ImportTypeOK, Job
<1>6. /\ Len(blocks') = N + 1 /\ blocks'[1] = GenesisBlock
      /\ \A i \in 1..N : blocks'[i + 1] = f[i]
  BY <1>1, <1>5, PrependFacts, GenesisFacts
<1>7. Heights(index, f, N, 0) /\ Rooted(f, N)
  BY Zenon, <1>1, <1>2, <1>5 DEF HeightsInv, RootsInv
<1>8. /\ DOMAIN index' = DOMAIN index \cup {b.hash} /\ index'[b.hash].block = b
      /\ \A x \in DOMAIN index : index'[x] = index[x]
      /\ index'[b.hash].height = index[b.prev].height + 1
  BY Zenon, <1>1, <1>4, EntryFacts
<1>9. Heights(index', f, N, 0)
  <2>1. ASSUME NEW i \in 1..N, f[i] = b PROVE index'[b.hash].height = i - 0
    <3>0. \A n \in Nat : \A j \in 1..n : j - 1 \in Nat /\ (j - 1) + 1 = j /\ j - 0 = (j - 1) + 1 - 0
      OBVIOUS
    <3>1. PICK k \in Nat : k + 1 = i /\ i - 0 = k + 1 - 0 /\ k = i - 1
      BY Zenon, <1>3, <3>0
    <3>2. k <= N /\ N \in Nat /\ k + 1 \in 1..N /\ (k > 0 => k + 1 \in 2..N) /\ (k = 0 => k + 1 = 1)
      BY <1>3, <3>1
    <3>3. Heights(index, f, k, 0)
      BY Zenon, <1>7, <3>2, HeightsLess
    <3>4. k > 0 => Follows(f[k + 1], f[k])
      BY <1>3, <3>1, <3>2 DEF Follows
    <3>5. f[k + 1].prev \in DOMAIN index
      BY Zenon, <1>4, <2>1, <3>1
    <3>6. index[f[k + 1].prev].height + 1 = k + 1 - 0
      BY Zenon, <1>1, <1>3, <3>2, <3>3, <3>4, <3>5, ReplayHeight
    <3> QED
      BY Zenon, <1>8, <2>1, <3>1, <3>6
  <2> QED
    BY Zenon, <1>4, <1>7, <1>8, <2>1, HeightsInsert
<1>10. /\ TxsUpTo(blocks', N + 1) = TxsUpTo(f, N)
       /\ active_receipts' = Receipts(blocks', N + 1)
       /\ tx_height' = ByTx(Receipts(blocks', N + 1))
  <2> DEFINE u == blocks'
  <2>1. blocks'[1].txs = {}
    BY <1>6 DEF GenesisBlock
  <2> QED
    <3>1. /\ TxsUpTo(u, N + 1) = TxsUpTo(f, N)
          /\ Receipts(u, N + 1) = UNION {{<<h, t>> : t \in f[h].txs} : h \in 1..N}
          /\ ByTx(Receipts(u, N + 1)) = UNION {{<<t, h>> : t \in f[h].txs} : h \in 1..N}
      <4>1. N \in Nat /\ u[1].txs = {} /\ \A i \in 1..N : u[i + 1] = f[i]
        BY Zenon, <1>3, <1>6, <2>1
      <4> HIDE DEF N, f, u
      <4>2. Shifted(f, u, N)
        BY <4>1, ShiftedReceipts
      <4> QED
        BY Zenon, <4>2 DEF Shifted
    <3> QED
      BY Zenon, <1>1, <3>1
<1>11. HeightsInv' /\ RootsInv'
  <2>1. index'[Genesis].height = 0
    BY Zenon, <1>4, <1>8
  <2>2. Heights(index', blocks', N + 1, 1) /\ Rooted(blocks', N + 1)
    BY Zenon, <1>3, <1>6, <1>7, <1>9, <2>1, ShiftedViews
  <2> QED
    BY Zenon, <1>1, <1>6, <2>2 DEF HeightsInv, RootsInv
<1>12. ReceiptInv'
  <2>1. Indexed' = N + 1
    BY Zenon, <1>1, <1>6 DEF Indexed, Branching
  <2> QED
    BY Zenon, <1>10, <2>1 DEF ReceiptInv
<1>13. before.txs \subseteq ledger'.txs \cup rev
  <2>1. before.txs = ledger.txs
    BY Zenon, <1>1, <1>2 DEF CarriedInv
  <2>2. Len(blocks) \in 1..Len(blocks) /\ N \in 1..N
    BY <1>3, ActiveFacts
  <2>3. ledger.txs = TxsUpTo(blocks, Len(blocks))
    <3>1. ledger.txs = blocks[Len(blocks)].root
      BY ActiveFacts
    <3> QED
      BY Zenon, <1>2, <2>2, <3>1 DEF RootsInv, Rooted
  <2>4. ledger'.txs = TxsUpTo(f, N)
    <3>1. ledger'.txs = f[N].root
      BY <1>1, <1>3
    <3> QED
      BY Zenon, <1>7, <2>2, <3>1 DEF Rooted
  <2>5. ASSUME NEW t \in before.txs, t \notin rev PROVE t \in TxsUpTo(f, N)
    <3>1. PICK i \in 1..Len(blocks) : t \in blocks[i].txs
      BY Zenon, <2>1, <2>3, UpTo
    <3>2. PICK k \in 1..N : f[k].hash = blocks[i].hash
      BY Zenon, <2>5, <3>1
    <3>3. Accepted(blocks[i])
      BY Zenon, <1>1, ActiveFacts
    <3>4. f[k] = blocks[i]
      BY Zenon, <1>4, <3>2, <3>3 DEF Accepted
    <3> QED
      BY Zenon, <3>1, <3>4, UpTo
  <2> QED
    BY Zenon, <2>4, <2>5
<1>14. CarriedInv' /\ CacheInv'
  BY Zenon, <1>1, <1>13 DEF CarriedInv, CacheInv, NoTxLost
<1> QED
  BY Zenon, <1>11, <1>12, <1>14 DEF ViewInv

LEMMA NextViews == Inv /\ Inv' /\ ViewInv /\ [Next]_vars => ViewInv'
<1> SUFFICES ASSUME Inv, Inv', ViewInv, [Next]_vars PROVE ViewInv'
    BY Zenon
<1>1. ASSUME NEW b \in Offered, Import(b) PROVE ViewInv'
  BY Zenon, <1>1, QuietImportViews, ExtendHeadViews, BeginBranchViews DEF Import
<1>2. ASSUME Step PROVE ViewInv'
  BY Zenon, <1>2, WalkViews, ForkFoundViews, DisconnectViews, DisconnectDoneViews,
     ConnectViews, AdoptBranchViews, SideBranchValidViews, ReconnectViews,
     ReconnectDoneViews, ReplayViews, AdoptRebuiltViews, StoreSideBranchViews DEF Step
<1>3. ASSUME UNCHANGED vars PROVE ViewInv'
  <2>1. UNCHANGED <<index, blocks, head, ledger, active_receipts, tx_height, difficulty,
                    pc, job, result, before>>
    BY Zenon, <1>3 DEF vars, chainVars
  <2>2. Replayed' = Replayed /\ Indexed' = Indexed /\ Trunk' = Trunk
    BY Zenon, <2>1 DEF Replayed, Indexed, Trunk, Branching
  <2>3. HeightsInv' /\ RootsInv' /\ ReceiptInv'
    BY Zenon, <2>1, <2>2 DEF ViewInv, HeightsInv, RootsInv, ReceiptInv
  <2>4. CarriedInv' /\ CacheInv'
    BY Zenon, <2>1, <2>2 DEF ViewInv, CarriedInv, NoTxLost, CacheInv
  <2> QED
    BY Zenon, <2>3, <2>4 DEF ViewInv
<1> QED
  BY Zenon, <1>1, <1>2, <1>3 DEF Next

LEMMA ViewsHold == Spec => [](Inv /\ ViewInv)
BY InitInv, InitViews, NextInv, NextViews, PTL DEF Spec

LEMMA ViewsAtRest ==
    ASSUME Inv, ViewInv, pc = "idle"
    PROVE  ViewsAgree
<1>1. /\ head = Top(blocks).hash /\ difficulty = head
  BY Zenon DEF Inv, OldInv, ViewInv, CacheInv
<1>2. ASSUME NEW i \in 1..Len(blocks)
      PROVE  /\ blocks[i].hash \in DOMAIN index
             /\ index[blocks[i].hash].block = blocks[i]
             /\ index[blocks[i].hash].height = i - 1
  <2>1. Accepted(blocks[i])
    BY Zenon, ActiveFacts
  <2> QED
    BY Zenon, <2>1 DEF Accepted, ViewInv, HeightsInv, Heights
<1>3. ledger.txs = TxsOf(blocks)
  <2>1. /\ blocks \in Seq(Block) /\ Len(blocks) \in Nat \ {0}
        /\ ledger.txs = blocks[Len(blocks)].root
    BY ActiveFacts
  <2>2. Len(blocks) \in 1..Len(blocks)
    BY <2>1
  <2>3. ledger.txs = TxsUpTo(blocks, Len(blocks))
    BY Zenon, <2>1, <2>2 DEF ViewInv, RootsInv, Rooted
  <2> QED
    BY Zenon, <2>1, <2>3, TxsOfUpTo
<1>4. /\ active_receipts = UNION {{<<i - 1, t>> : t \in blocks[i].txs} : i \in 1..Len(blocks)}
      /\ tx_height = {<<r[2], r[1]>> : r \in active_receipts}
  <2>1. Indexed = Len(blocks) /\ pc # "panic"
    BY Zenon DEF Indexed, Branching
  <2> QED
    BY Zenon, <2>1 DEF ViewInv, ReceiptInv, Receipts, ByTx
<1> QED
  BY Zenon, <1>1, <1>2, <1>3, <1>4 DEF ViewsAgree

(* However imports extended, reorganised, validated, rolled back and       *)
(* replayed: between them the receipt and transaction indexes, the heights *)
(* and the cached difficulty, all kept up step by step by connect and      *)
(* disconnect_to, are what a rebuild from the active chain would give.     *)
THEOREM ViewsFollowHead == Spec => []ViewsAgree
<1>1. Inv /\ ViewInv => ViewsAgree
  BY Zenon, ViewsAtRest DEF ViewsAgree
<1> QED
  BY <1>1, ViewsHold, PTL

(* No transaction is lost by a reorganisation of any depth: what was       *)
(* committed before import_block_tracked is either still committed or      *)
(* handed back to the caller for the mempool.                              *)
THEOREM NothingLost == Spec => []NoTxLost
<1>1. ViewInv => NoTxLost
  BY Zenon DEF ViewInv, CarriedInv
<1> QED
  BY <1>1, ViewsHold, PTL

LEMMA NotAbove ==
    ASSUME NEW w \in Nat \ {0}, NEW m \in Nat, NEW n \in Nat
    PROVE  /\ m * w <= n * w => m <= n
           /\ (m + 1) * w = m * w + w
<1>1. ASSUME m > n PROVE m * w > n * w
  <2>1. PICK d \in Nat : m = n + 1 + d
    <3>1. m - (n + 1) \in Nat /\ m = n + 1 + (m - (n + 1))
      BY <1>1
    <3> QED
      BY Zenon, <3>1
  <2>2. m * w = n * w + w + d * w
    BY <2>1
  <2>3. d * w \in Nat /\ n * w \in Nat
    OBVIOUS
  <2> QED
    BY <2>2, <2>3
<1>2. (m + 1) * w = m * w + w
  OBVIOUS
<1>3. m * w \in Nat /\ n * w \in Nat
  OBVIOUS
<1> QED
  BY <1>1, <1>2, <1>3

LEMMA StoredWork ==
    ASSUME SameWork, Inv, RoomInv, NEW b \in Offered, b.prev \in DOMAIN index,
           b.hash \notin DOMAIN index, InsertEntry(b)
    PROVE  \A x \in DOMAIN index' : \A w \in Works : index'[x].work = index'[x].height * w
<1>1. b.work \in Works /\ Works \subseteq Nat \ {0}
  BY Zenon, OfferedAssumption, WorksAssumption
<1> TAKE x \in DOMAIN index'
<1> TAKE w \in Works
<1>2. b.work = w /\ w \in Nat \ {0}
  BY Zenon, <1>1 DEF SameWork
<1>3. \A y \in DOMAIN index : index[y].work = index[y].height * w /\ index[y].height \in Nat
  BY Zenon DEF RoomInv, Inv, TypeOK, ChainTypeOK, Entry
<1>4. /\ DOMAIN index' = DOMAIN index \cup {b.hash}
      /\ \A y \in DOMAIN index : index'[y] = index[y]
      /\ index'[b.hash].height = index[b.prev].height + 1
  BY Zenon, EntryFacts
<1>5. index'[b.hash].work = index[b.prev].work + b.work
  BY Zenon DEF InsertEntry
<1>6. index'[b.hash].work = index'[b.hash].height * w
  <2>1. (index[b.prev].height + 1) * w = index[b.prev].height * w + w
    BY Zenon, <1>2, <1>3, NotAbove
  <2> QED
    BY Zenon, <1>2, <1>3, <1>4, <1>5, <2>1
<1> QED
  BY Zenon, <1>3, <1>4, <1>6

(* No accepted block is higher than the head the import started from; a    *)
(* lighter branch's tip is not either.                                     *)
LEMMA HeadIsHighest ==
    ASSUME SameWork, Inv, RoomInv, pc \notin {"idle", "panic"}
    PROVE  /\ index[job.block.prev].height \in Nat /\ index[before.head].height \in Nat
           /\ index[job.block.prev].height <= index[before.head].height
           /\ ~job.reorg => index[job.block.prev].height + 1 <= index[before.head].height
<1> DEFINE p == index[job.block.prev]
           h == index[before.head]
           w == job.block.work
<1>1. /\ job.block \in Offered /\ job.block.prev \in DOMAIN index /\ before.head \in DOMAIN index
      /\ job.reorg = ( \/ p.work + w > h.work
                       \/ p.work + w = h.work /\ job.block.hash < before.head )
      /\ NoBetter(job.block.prev, before.head)
      /\ job.block.hash \notin DOMAIN index
  BY Zenon DEF Inv, BranchInv, BestInv
<1>2. w \in Works /\ w \in Nat \ {0}
  BY Zenon, <1>1, OfferedAssumption, WorksAssumption
<1>3. p.height \in Nat /\ h.height \in Nat /\ p.work \in Nat /\ h.work \in Nat
  BY Zenon, <1>1 DEF Inv, TypeOK, ChainTypeOK, Entry
<1>4. p.work = p.height * w /\ h.work = h.height * w
  BY Zenon, <1>1, <1>2 DEF RoomInv
<1>5. p.work <= h.work
  BY <1>1, <1>3 DEF NoBetter
<1>6. ~job.reorg => p.work + w <= h.work
  BY <1>1, <1>2, <1>3
<1> HIDE DEF p, h, w
<1>7. (p.height + 1) * w = p.work + w /\ p.height + 1 \in Nat
  BY <1>2, <1>3, <1>4, NotAbove
<1>8. p.height <= h.height
  <2>1. p.height * w <= h.height * w
    BY Zenon, <1>4, <1>5
  <2> QED
    BY Zenon, <1>2, <1>3, <2>1, NotAbove
<1>9. ~job.reorg => p.height + 1 <= h.height
  <2>1. \A m \in Nat, n \in Nat : m * w <= n * w => m <= n
    BY Zenon, <1>2, NotAbove
  <2>2. ~job.reorg => (p.height + 1) * w <= h.height * w
    BY Zenon, <1>4, <1>6, <1>7
  <2> QED
    BY Zenon, <1>3, <1>7, <2>1, <2>2
<1> QED
  BY Zenon, <1>3, <1>8, <1>9 DEF p, h

(* A step that stores nothing and leads to a place that needs no room.     *)
LEMMA RoomFrame ==
    ASSUME RoomInv, UNCHANGED index,
           pc' \in {"idle", "reconnect", "ancestors", "replay"}
    PROVE  RoomInv'
BY Zenon DEF RoomInv, NoPanic

LEMMA RoomStored ==
    ASSUME SameWork, Inv, RoomInv, NEW b \in Offered, b.prev \in DOMAIN index,
           b.hash \notin DOMAIN index, InsertEntry(b), pc' = "idle"
    PROVE  RoomInv'
<1>1. \A x \in DOMAIN index' : \A w \in Works : index'[x].work = index'[x].height * w
  BY Zenon, StoredWork
<1> QED
  BY Zenon, <1>1 DEF RoomInv, NoPanic

LEMMA QuietRoom ==
    ASSUME Inv, RoomInv, NEW b \in Offered,
           ImportKnown(b) \/ RejectCandidate(b) \/ RejectExtension(b)
    PROVE  RoomInv'
<1>1. pc' = "idle" /\ UNCHANGED index
  BY Zenon DEF ImportKnown, RejectCandidate, RejectExtension, Start, Return, chainVars
<1> QED
  BY Zenon, <1>1, RoomFrame

LEMMA ExtendRoom ==
    ASSUME SameWork, Inv, RoomInv, NEW b \in Offered, ExtendHead(b)
    PROVE  RoomInv'
<1>1. /\ b.prev \in DOMAIN index /\ b.hash \notin DOMAIN index /\ InsertEntry(b) /\ pc' = "idle"
  BY Zenon DEF ExtendHead, ValidCandidate, Return, Start
<1> QED
  BY Zenon, <1>1, RoomStored

LEMMA BeginBranchRoom ==
    ASSUME Inv, RoomInv, NEW b \in Offered, BeginBranch(b)
    PROVE  RoomInv'
<1>1. /\ pc' = "locate" /\ UNCHANGED chainVars /\ b.prev \in DOMAIN index
      /\ job' = [NoJob EXCEPT !.block = b, !.reorg = Outweighs(b), !.new = <<b>>]
  BY Zenon DEF BeginBranch, ValidCandidate
<1>2. job'.block = b /\ job'.new = <<b>> /\ UNCHANGED index
  BY Zenon, <1>1 DEF NoJob, chainVars
<1>3. Head(job'.new) = b /\ Len(job'.new) = 1
  BY <1>2
<1> QED
  BY Zenon, <1>1, <1>2, <1>3 DEF RoomInv, NoPanic

LEMMA WalkBackRoom ==
    ASSUME Inv, RoomInv, WalkBack
    PROVE  RoomInv'
<1> DEFINE q == Head(job.new).prev
           b == Parent.block
<1>1. /\ pc = "locate" /\ pc' = "locate" /\ UNCHANGED chainVars
      /\ ~IsActive(Parent) /\ job' = [job EXCEPT !.new = <<b>> \o job.new]
  BY Zenon DEF WalkBack
<1>2. /\ job \in Job /\ job.new \in Seq(Block) /\ job.new # <<>>
      /\ job.new[1].hash # Genesis /\ (Accepted(job.new[1]) \/ job.new[1] = job.block)
      /\ job.block.prev \in DOMAIN index
  <2>1. /\ job \in Job /\ job.new \in Seq(Block) /\ job.new # <<>> /\ BranchInv
    BY Zenon, <1>1 DEF Inv, TypeOK, ImportTypeOK, Job, BranchInv
  <2>2. 1 \in 1..Len(job.new)
    BY <2>1, EmptySeq
  <2> QED
    BY Zenon, <1>1, <2>1, <2>2 DEF BranchInv
<1>3. Head(job.new) = job.new[1] /\ q \in DOMAIN index
  <2>1. Head(job.new) = job.new[1]
    BY <1>2
  <2>2. job.new[1].prev \in DOMAIN index
    BY Zenon, <1>2, AcceptedHeight
  <2> QED
    BY Zenon, <2>1, <2>2
<1>4. q # Genesis
  <2>1. /\ index[Genesis].height = 0 /\ index[Genesis].block.hash = Genesis
        /\ blocks[1].hash = Genesis /\ Len(blocks) \in Nat \ {0}
    BY ActiveFacts DEF Inv, IndexInv, GenesisBlock
  <2>2. ASSUME q = Genesis PROVE IsActive(Parent)
    BY <2>1, <2>2 DEF IsActive, Parent
  <2> QED
    BY Zenon, <1>1, <2>2
<1>5. /\ b.prev \in DOMAIN index /\ index[q].height = index[b.prev].height + 1
      /\ b \in Block /\ index[b.prev].height \in Nat
  BY Zenon, <1>3, <1>4 DEF Parent, Inv, IndexInv, IndexValid, TypeOK, ChainTypeOK, Entry
<1>6. /\ job'.new = <<b>> \o job.new /\ job'.block = job.block /\ UNCHANGED index
  BY Zenon, <1>1, <1>2 DEF Job, chainVars
<1> HIDE DEF b, q
<1>7. Head(job'.new) = b /\ Len(job'.new) = Len(job.new) + 1 /\ Len(job.new) \in Nat
  <2> DEFINE s == job.new
  <2>1. s \in Seq(Block) /\ b \in Block
    BY Zenon, <1>2, <1>5
  <2> HIDE DEF s
  <2>2. /\ Len(s) \in Nat /\ Len(<<b>> \o s) = Len(s) + 1 /\ Head(<<b>> \o s) = b
    BY <2>1, PrependFacts
  <2> QED
    BY Zenon, <1>6, <2>2 DEF s
<1>8. index[q].height + Len(job.new) = index[job.block.prev].height + 1
  BY Zenon, <1>1 DEF RoomInv, q
<1>9. index[b.prev].height + Len(job'.new) = index[job.block.prev].height + 1
  <2> DEFINE x == index[b.prev].height
             n == Len(job.new)
             l == Len(job'.new)
             y == index[job.block.prev].height + 1
             z == index[q].height
  <2>1. x \in Nat /\ n \in Nat /\ z = x + 1 /\ l = n + 1 /\ z + n = y
    BY Zenon, <1>5, <1>7, <1>8
  <2> HIDE DEF x, n, l, y, z
  <2>2. x + l = y
    BY <2>1
  <2> QED
    BY Zenon, <2>2 DEF x, l, y
<1> QED
  BY Zenon, <1>1, <1>6, <1>7, <1>9 DEF RoomInv, NoPanic

LEMMA ForkFoundRoom ==
    ASSUME Inv, ViewInv, RoomInv, ForkFound
    PROVE  RoomInv'
<1>1. /\ pc = "locate" /\ UNCHANGED chainVars /\ UNCHANGED before
      /\ IF UndoCovers(Height - Parent.height)
         THEN /\ pc' = "disconnect"
              /\ job' = [job EXCEPT !.fork = Parent.height, !.todo = job.new]
         ELSE pc' = "ancestors" /\ job' = job
  BY Zenon DEF ForkFound
<1>2. UNCHANGED <<index, blocks, undo_ring>>
  BY Zenon, <1>1 DEF chainVars
<1>3. CASE ~UndoCovers(Height - Parent.height)
  BY Zenon, <1>1, <1>2, <1>3, RoomFrame
<1>4. CASE UndoCovers(Height - Parent.height)
  <2>1. /\ pc' = "disconnect" /\ job'.fork = Parent.height /\ job'.todo = job.new
        /\ job'.block = job.block
    BY Zenon, <1>1, <1>4 DEF Inv, TypeOK, ImportTypeOK, Job
  <2>2. Parent.height + Len(job.new) = index[job.block.prev].height + 1
    BY Zenon, <1>1 DEF RoomInv, Parent
  <2>3. Height - Parent.height <= Len(undo_ring)
    BY Zenon, <1>4 DEF UndoCovers
  <2>4. index[before.head].height = Height
    <3>1. before.head = blocks[Len(blocks)].hash
      BY Zenon, <1>1 DEF Inv, OldInv, Top
    <3>2. /\ Len(blocks) \in 1..Len(blocks) /\ Accepted(blocks[Len(blocks)])
      BY <1>1, ActiveFacts
    <3> QED
      BY Zenon, <3>1, <3>2 DEF ViewInv, HeightsInv, Heights, Accepted, Height
  <2>5. Height - Parent.height <= UndoWindow
    <3>1. /\ Len(undo_ring) \in Nat /\ Len(undo_ring) <= UndoWindow /\ UndoWindow \in Nat
          /\ Len(blocks) \in Nat
      BY Zenon, LenProperties, UndoWindowAssumption DEF Inv, TypeOK, ChainTypeOK
    <3>2. Parent.height \in Nat
      <4>1. Head(job.new).prev \in DOMAIN index
        <5>1. /\ job.new \in Seq(Block) /\ job.new # <<>> /\ BranchInv
          BY Zenon, <1>1 DEF Inv, TypeOK, ImportTypeOK, Job, BranchInv
        <5>2. 1 \in 1..Len(job.new) /\ Head(job.new) = job.new[1]
          BY <5>1, EmptySeq
        <5>3. /\ job.new[1].hash # Genesis /\ (Accepted(job.new[1]) \/ job.new[1] = job.block)
              /\ job.block.prev \in DOMAIN index
          BY Zenon, <1>1, <5>1, <5>2 DEF BranchInv
        <5> QED
          BY Zenon, <5>2, <5>3, AcceptedHeight
      <4> QED
        BY Zenon, <4>1 DEF Parent, Inv, TypeOK, ChainTypeOK, Entry
    <3> QED
      BY <2>3, <3>1, <3>2 DEF Height
  <2>6. Height' = Height
    BY Zenon, <1>2 DEF Height
  <2> QED
    BY Zenon, <1>1, <1>2, <2>1, <2>2, <2>3, <2>4, <2>5, <2>6 DEF RoomInv, NoPanic
<1> QED
  BY Zenon, <1>3, <1>4

LEMMA RingFacts ==
    ASSUME Inv
    PROVE  /\ undo_ring \in Seq(Undo) /\ Len(undo_ring) \in Nat /\ Len(undo_ring) <= UndoWindow
           /\ UndoWindow \in Nat \ {0} /\ Len(blocks) \in Nat \ {0} /\ Height \in Nat
           /\ job \in Job /\ job.fork \in Nat /\ job.todo \in Seq(Block) /\ Len(job.todo) \in Nat
           /\ blocks \in Seq(Block)
<1>1. /\ undo_ring \in Seq(Undo) /\ Len(undo_ring) <= UndoWindow /\ job \in Job
  BY Zenon DEF Inv, TypeOK, ChainTypeOK, ImportTypeOK
<1>2. job.fork \in Nat /\ job.todo \in Seq(Block)
  BY Zenon, <1>1 DEF Job
<1> QED
  BY <1>1, <1>2, LenProperties, ActiveFacts, UndoWindowAssumption DEF Height

LEMMA DisconnectRoom ==
    ASSUME Inv, RoomInv, Disconnect
    PROVE  RoomInv'
<1>1. /\ pc \in {"disconnect", "rollback"} /\ Height > job.fork /\ UNCHANGED before
      /\ undo_ring # <<>> =>
            /\ undo_ring' = Front(undo_ring) /\ blocks' = Front(blocks)
            /\ job' = [job EXCEPT !.old = Disconnected(Top(blocks))]
            /\ UNCHANGED <<index, pc>>
  BY Zenon DEF Disconnect
<1>2. Height - job.fork <= Len(undo_ring)
  BY Zenon, <1>1 DEF RoomInv
<1>3. undo_ring # <<>>
  <2>1. Len(undo_ring) # 0
    BY <1>1, <1>2, RingFacts
  <2> QED
    BY <2>1
<1>4. /\ Len(undo_ring') = Len(undo_ring) - 1 /\ Height' = Height - 1
  <2>1. Len(undo_ring') = Len(undo_ring) - 1 /\ Len(blocks') = Len(blocks) - 1
    <3>1. blocks # <<>>
      BY Zenon DEF Inv, TypeOK, ChainTypeOK
    <3> QED
      BY Zenon, <1>1, <1>3, <3>1, RingFacts, FrontFacts
  <2> QED
    BY Zenon, <2>1 DEF Height
<1>5. /\ job'.fork = job.fork /\ job'.todo = job.todo /\ job'.block = job.block
  BY Zenon, <1>1, <1>3, RingFacts DEF Job
<1>6. Height' - job'.fork <= Len(undo_ring')
  BY <1>2, <1>4, <1>5, RingFacts
<1>7. UNCHANGED <<index, pc, before>>
  BY Zenon, <1>1, <1>3
<1> QED
  BY Zenon, <1>1, <1>5, <1>6, <1>7 DEF RoomInv, NoPanic

LEMMA DisconnectDoneRoom ==
    ASSUME Inv, RoomInv, DisconnectDone
    PROVE  RoomInv'
<1>1. /\ pc \in {"disconnect", "rollback"} /\ Height = job.fork
      /\ pc' = AfterDisconnect /\ UNCHANGED <<index, blocks, undo_ring, job, before>>
  BY Zenon DEF DisconnectDone
<1>2. CASE pc = "rollback"
  <2>1. pc' = "reconnect"
    BY Zenon, <1>1, <1>2 DEF AfterDisconnect
  <2> QED
    BY Zenon, <1>1, <2>1, RoomFrame
<1>3. CASE pc = "disconnect"
  <2>1. pc' = "connect"
    BY Zenon, <1>1, <1>3 DEF AfterDisconnect
  <2>2. /\ Height + Len(job.todo) = index[job.block.prev].height + 1
        /\ index[before.head].height - job.fork <= UndoWindow
    BY Zenon, <1>1, <1>3 DEF RoomInv
  <2>3. Height - job.fork <= Len(undo_ring)
    BY <1>1, RingFacts
  <2>4. Height' = Height
    BY Zenon, <1>1 DEF Height
  <2> QED
    BY <1>1, <2>1, <2>2, <2>3, <2>4 DEF RoomInv, NoPanic
<1> QED
  BY Zenon, <1>1, <1>2, <1>3

(* The rollback of a branch that is no longer than what it replaces.       *)
LEMMA ShortBranchRoom ==
    ASSUME Inv, RoomInv, pc = "connect", pc' = "rollback",
           UNCHANGED <<index, blocks, undo_ring>>, job'.fork = job.fork,
           index[before.head].height \in Nat, Height <= index[before.head].height
    PROVE  RoomInv'
<1>1. /\ Height - job.fork <= Len(undo_ring) \/ Len(undo_ring) = UndoWindow
      /\ index[before.head].height - job.fork <= UndoWindow
  BY Zenon DEF RoomInv
<1>2. Height - job.fork <= Len(undo_ring)
  BY <1>1, RingFacts
<1>3. Height' = Height
  BY Zenon DEF Height
<1> QED
  BY Zenon, <1>2, <1>3 DEF RoomInv, NoPanic

LEMMA SideBranchRoom ==
    ASSUME SameWork, Inv, RoomInv, SideBranchValid
    PROVE  RoomInv'
<1>1. /\ pc = "connect" /\ pc' = "rollback" /\ job.todo = <<>> /\ ~job.reorg
      /\ UNCHANGED <<index, blocks, undo_ring, job>>
  BY Zenon DEF SideBranchValid, chainVars
<1>2. Height + Len(job.todo) = index[job.block.prev].height + 1
  BY Zenon, <1>1 DEF RoomInv
<1>3. /\ index[before.head].height \in Nat
      /\ index[job.block.prev].height + 1 <= index[before.head].height
  BY Zenon, <1>1, HeadIsHighest
<1>4. Height <= index[before.head].height
  <2>1. Len(job.todo) = 0
    BY <1>1
  <2> QED
    BY <1>2, <1>3, <2>1, RingFacts
<1> QED
  BY Zenon, <1>1, <1>3, <1>4, ShortBranchRoom

LEMMA ConnectRoom ==
    ASSUME SameWork, Inv, RoomInv, Connect
    PROVE  RoomInv'
<1> DEFINE b == Head(job.todo)
           log == [height |-> Len(blocks), hash |-> b.hash, undo |-> ledger]
<1>1. /\ pc = "connect" /\ job.todo # <<>> /\ UNCHANGED before
      /\ \/ /\ blocks' = Append(blocks, b) /\ undo_ring' = RememberUndo(Append(undo_ring, log))
            /\ job' = [job EXCEPT !.todo = Tail(job.todo)] /\ UNCHANGED <<index, pc>>
         \/ /\ job' = [job EXCEPT !.valid = FALSE] /\ pc' = "rollback" /\ UNCHANGED chainVars
  BY Zenon DEF Connect, ConnectToActive
<1>2. /\ Height + Len(job.todo) = index[job.block.prev].height + 1
      /\ Height - job.fork <= Len(undo_ring) \/ Len(undo_ring) = UndoWindow
      /\ index[before.head].height - job.fork <= UndoWindow
  BY Zenon, <1>1 DEF RoomInv
<1>3. /\ Len(job.todo) \in Nat \ {0} /\ Tail(job.todo) \in Seq(Block)
      /\ Len(Tail(job.todo)) = Len(job.todo) - 1
  BY Zenon, <1>1, RingFacts, TailFacts
<1>4. CASE pc' = "rollback"
  <2>1. /\ job' = [job EXCEPT !.valid = FALSE] /\ UNCHANGED chainVars
    BY Zenon, <1>1, <1>4
  <2>2. /\ job'.fork = job.fork /\ UNCHANGED <<index, blocks, undo_ring>>
    BY Zenon, <2>1, RingFacts DEF Job, chainVars
  <2>3. /\ index[before.head].height \in Nat /\ index[job.block.prev].height \in Nat
        /\ index[job.block.prev].height <= index[before.head].height
    BY Zenon, <1>1, HeadIsHighest
  <2>4. Height <= index[before.head].height
    <3>1. \A h \in Nat, l \in Nat \ {0}, m \in Nat, n \in Nat :
             h + l = m + 1 /\ m <= n => h <= n
      OBVIOUS
    <3>2. Height \in Nat
      BY Zenon, RingFacts
    <3> QED
      BY Zenon, <1>2, <1>3, <2>3, <3>1, <3>2
  <2> QED
    BY Zenon, <1>1, <1>4, <2>2, <2>3, <2>4, ShortBranchRoom
<1>5. CASE pc' # "rollback"
  <2>1. /\ blocks' = Append(blocks, b) /\ undo_ring' = RememberUndo(Append(undo_ring, log))
        /\ job' = [job EXCEPT !.todo = Tail(job.todo)] /\ UNCHANGED <<index, pc>>
    BY Zenon, <1>1, <1>5
  <2>2. /\ job'.fork = job.fork /\ job'.block = job.block /\ job'.todo = Tail(job.todo)
    BY Zenon, <2>1, RingFacts DEF Job
  <2>3. Height' = Height + 1
    <3>1. Len(blocks') = Len(blocks) + 1
      BY <2>1, RingFacts
    <3> QED
      BY <3>1, RingFacts DEF Height
  <2>4. \/ Len(undo_ring') = Len(undo_ring) + 1 /\ Len(undo_ring) # UndoWindow
        \/ Len(undo_ring') = UndoWindow
    <3>1. Append(undo_ring, log) \in Seq(Undo \cup {log}) /\ Append(undo_ring, log) # <<>>
          /\ Len(Append(undo_ring, log)) = Len(undo_ring) + 1
      <4> HIDE DEF log
      <4>1. undo_ring \in Seq(Undo \cup {log})
        BY RingFacts
      <4> QED
        BY <4>1, RingFacts
    <3> HIDE DEF log
    <3>2. Len(Tail(Append(undo_ring, log))) = Len(undo_ring) + 1 - 1
      BY <3>1, RingFacts
    <3> QED
      BY <2>1, <3>1, <3>2, RingFacts DEF RememberUndo
  <2>5. Height' - job'.fork <= Len(undo_ring') \/ Len(undo_ring') = UndoWindow
    <3>1. CASE Len(undo_ring') = UndoWindow
      BY Zenon, <3>1
    <3>2. CASE Len(undo_ring') # UndoWindow
      <4>1. Len(undo_ring') = Len(undo_ring) + 1 /\ Len(undo_ring) # UndoWindow
        BY Zenon, <2>4, <3>2
      <4>2. \A h \in Nat, k \in Nat, l \in Nat : h - k <= l => (h + 1) - k <= l + 1
        OBVIOUS
      <4>3. Height \in Nat /\ job.fork \in Nat /\ Len(undo_ring) \in Nat
        BY Zenon, RingFacts
      <4> QED
        BY Zenon, <1>2, <2>2, <2>3, <4>1, <4>2, <4>3
    <3> QED
      BY Zenon, <3>1, <3>2
  <2>6. Height' + Len(job'.todo) = index[job.block.prev].height + 1
    <3>1. \A h \in Nat, l \in Nat \ {0} : (h + 1) + (l - 1) = h + l
      OBVIOUS
    <3>2. Height \in Nat
      BY Zenon, RingFacts
    <3>3. Height' + Len(job'.todo) = (Height + 1) + (Len(job.todo) - 1)
      BY Zenon, <1>3, <2>2, <2>3
    <3>4. (Height + 1) + (Len(job.todo) - 1) = Height + Len(job.todo)
      BY Zenon, <1>3, <3>1, <3>2
    <3> QED
      BY Zenon, <1>2, <3>3, <3>4
  <2> QED
    BY Zenon, <1>1, <1>2, <2>1, <2>2, <2>5, <2>6 DEF RoomInv, NoPanic
<1> QED
  BY Zenon, <1>4, <1>5

LEMMA ReconnectRoom ==
    ASSUME Inv, RoomInv, Reconnect
    PROVE  RoomInv'
<1> DEFINE old == job.old
           b == Top(old)
<1>1. /\ pc = "reconnect" /\ old # <<>>
      /\ Executes(ledger, b) => UNCHANGED <<index, pc>>
  BY Zenon DEF Reconnect
<1>2. /\ b.prev = blocks[Len(blocks)].hash
      /\ \A i \in 1..Len(old) : Accepted(old[i]) /\ old[i].hash # Genesis
  <2>1. Trunk = Len(blocks)
    BY Zenon, <1>1 DEF Trunk, Branching
  <2> QED
    BY Zenon, <1>1, <2>1 DEF Inv, OldInv, OldChain
<1>3. Accepted(b) /\ b.hash # Genesis
  <2>1. old \in Seq(Block)
    BY Zenon, RingFacts DEF Job
  <2>2. Len(old) \in 1..Len(old)
    BY <1>1, <2>1, EmptySeq
  <2> QED
    BY Zenon, <1>2, <2>2 DEF Top
<1>4. /\ Len(blocks) \in 1..Len(blocks) /\ Accepted(blocks[Len(blocks)])
      /\ ledger = [at |-> blocks[Len(blocks)].hash, txs |-> blocks[Len(blocks)].root]
  BY <1>1, ActiveFacts
<1> HIDE DEF b
<1>5. /\ b.txs \cap index[b.prev].block.root = {}
      /\ b.root = index[b.prev].block.root \cup b.txs
  <2>1. IndexValid /\ b.hash \in DOMAIN index \ {Genesis} /\ index[b.hash].block = b
    BY Zenon, <1>3 DEF Inv, IndexInv, Accepted
  <2> QED
    BY <2>1 DEF IndexValid
<1>6. Executes(ledger, b)
  BY Zenon, <1>2, <1>4, <1>5 DEF Accepted, Executes
<1>7. pc' = "reconnect" /\ UNCHANGED index
  BY Zenon, <1>1, <1>6
<1> QED
  BY Zenon, <1>7, RoomFrame

LEMMA AdoptRoom ==
    ASSUME SameWork, Inv, RoomInv,
           AdoptBranch \/ ReconnectDone \/ AdoptRebuilt \/ StoreSideBranch
    PROVE  RoomInv'
<1>1. /\ pc \in {"connect", "reconnect", "replay"} /\ pc' = "idle"
      /\ InsertEntry(job.block) \/ UNCHANGED index
  BY Zenon DEF AdoptBranch, ReconnectDone, AdoptRebuilt, StoreSideBranch, Finish
<1>2. /\ job.block \in Offered /\ job.block.prev \in DOMAIN index
      /\ job.block.hash \notin DOMAIN index
  BY Zenon, <1>1 DEF Inv, BranchInv
<1>3. CASE InsertEntry(job.block)
  BY Zenon, <1>1, <1>2, <1>3, RoomStored
<1>4. CASE UNCHANGED index
  BY Zenon, <1>1, <1>4, RoomFrame
<1> QED
  BY Zenon, <1>1, <1>3, <1>4

LEMMA ReplayRoom ==
    ASSUME Inv, RoomInv, CollectAncestor \/ Replay
    PROVE  RoomInv'
<1>1. pc' \in {"idle", "ancestors", "replay"} /\ UNCHANGED index
  BY Zenon DEF CollectAncestor, Replay, Finish, chainVars
<1> QED
  BY Zenon, <1>1, RoomFrame

LEMMA NextRoom ==
    ASSUME SameWork
    PROVE  Inv /\ ViewInv /\ RoomInv /\ [Next]_vars => RoomInv'
<1> SUFFICES ASSUME Inv, ViewInv, RoomInv, [Next]_vars PROVE RoomInv'
    BY Zenon
<1>1. ASSUME NEW b \in Offered, Import(b) PROVE RoomInv'
  BY Zenon, <1>1, QuietRoom, ExtendRoom, BeginBranchRoom DEF Import
<1>2. ASSUME Step PROVE RoomInv'
  BY Zenon, <1>2, WalkBackRoom, ForkFoundRoom, DisconnectRoom, DisconnectDoneRoom,
     ConnectRoom, SideBranchRoom, ReconnectRoom, AdoptRoom, ReplayRoom DEF Step
<1>3. ASSUME UNCHANGED vars PROVE RoomInv'
  <2>1. UNCHANGED <<index, blocks, undo_ring, pc, job, before>>
    BY Zenon, <1>3 DEF vars, chainVars
  <2> QED
    BY Zenon, <2>1 DEF RoomInv, Height, NoPanic
<1> QED
  BY Zenon, <1>1, <1>2, <1>3 DEF Next

LEMMA InitRoom == Init => RoomInv
<1> SUFFICES ASSUME Init PROVE RoomInv
    BY Zenon
<1>1. /\ pc = "idle" /\ DOMAIN index = {Genesis}
      /\ index[Genesis].work = 0 /\ index[Genesis].height = 0
  BY Zenon DEF Init
<1>2. \A w \in Works : 0 = 0 * w
  BY WorksAssumption
<1> QED
  BY Zenon, <1>1, <1>2 DEF RoomInv, NoPanic

(* With a constant difficulty the two expects of disconnect_to and         *)
(* reconnect never fire, for every undo window: the ring still holds the   *)
(* log of every block a rollback has to undo.                              *)
THEOREM NoExpectFires ==
    ASSUME SameWork
    PROVE  Spec => []NoPanic
<1>1. RoomInv => NoPanic
  BY Zenon DEF RoomInv
<1>2. Inv /\ ViewInv /\ RoomInv /\ [Next]_vars => RoomInv'
  BY Zenon, NextRoom
<1> QED
  BY <1>1, <1>2, InitRoom, ViewsHold, PTL DEF Spec
===========================================================================
