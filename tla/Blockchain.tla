---------------------------- MODULE Blockchain ----------------------------
(***************************************************************************)
(* The block store of sov-chain (chain/crates/chain/src/blockchain.rs):    *)
(* the fork-choice index, the materialised active chain, its ledger, its   *)
(* signal log and receipt index, and the bounded ring of undo logs that    *)
(* lets a reorganisation disconnect blocks without replaying the chain.    *)
(*                                                                         *)
(* import_block_tracked runs under the node lock and is the only writer.   *)
(* Its loops (walk back to the fork, disconnect, connect, roll back,       *)
(* reconnect, replay from genesis) are modelled one iteration per step,    *)
(* with pc holding the place reached; no other import starts until pc is   *)
(* "idle" again, and nothing else may read the chain in between.           *)
(*                                                                         *)
(* Data abstraction.  A hash is a natural number, compared as the code     *)
(* compares hashes.  A ledger is the block it is the post-state of and the *)
(* set of transactions applied to it: execution is deterministic, so the   *)
(* branch fixes the rest.  A transaction applies at most once per branch   *)
(* (the nonce rule).  root is the post-state the header commits to.        *)
(* header says whether the checks that need no execution pass: size,       *)
(* height, checkpoint, timestamps, bits, weight, seal, tx root, signatures.*)
(* An undo log is the ledger it restores.                                  *)
(***************************************************************************)
EXTENDS Integers, Sequences, FiniteSets

CONSTANTS
    Hash,        \* block hashes, naturals so that they are ordered
    Genesis,     \* the hash of the genesis block
    Tx,          \* transaction ids
    Works,       \* the proof of work one block may carry
    Bits,        \* version-bits masks
    Offered,     \* the blocks this node may be asked to import
    UndoWindow   \* REORG_UNDO_WINDOW

Block == [hash : Hash, prev : Hash, work : Works \cup {0}, txs : SUBSET Tx,
          bits : Bits, root : SUBSET Tx, header : BOOLEAN]

ASSUME HashAssumption == Hash \subseteq Nat /\ Genesis \in Hash
ASSUME WorksAssumption == Works \subseteq Nat \ {0}
ASSUME BitsAssumption == 0 \in Bits
ASSUME OfferedAssumption ==
    /\ Offered \subseteq Block
    /\ \A b \in Offered : b.hash # Genesis /\ b.work \in Works
ASSUME UndoWindowAssumption == UndoWindow \in Nat \ {0}

VARIABLES
    index,            \* hash -> accepted block with height and cumulative work
    blocks,           \* the active chain, genesis first
    head,             \* hash of the active head
    ledger,           \* the live ledger
    signals,          \* height -> version bits of the active block there
    undo_ring,        \* undo logs of the newest active blocks, newest last
    active_receipts,  \* <<height, tx>>: the receipts of the active blocks
    tx_height,        \* <<tx, height>>: where a transaction is committed
    difficulty,       \* the head the cached difficulty was computed for
    pc,               \* where the import in progress is
    job,              \* its local variables
    result,           \* what the last import returned
    before            \* history: head and committed transactions when the import began

chainVars == <<index, blocks, head, ledger, signals, undo_ring,
               active_receipts, tx_height, difficulty>>
vars == <<chainVars, pc, job, result, before>>

GenesisBlock == [hash |-> Genesis, prev |-> Genesis, work |-> 0, txs |-> {},
                 bits |-> 0, root |-> {}, header |-> TRUE]
GenesisLedger == [at |-> Genesis, txs |-> {}]
NoJob == [block |-> GenesisBlock, reorg |-> FALSE, fork |-> 0, new |-> <<>>,
          todo |-> <<>>, old |-> <<>>, valid |-> TRUE,
          ledger |-> GenesisLedger]

Height == Len(blocks) - 1
Top(s) == s[Len(s)]
Front(s) == SubSeq(s, 1, Len(s) - 1)
TxsOf(s) == UNION {s[i].txs : i \in 1..Len(s)}

(* Mutant of Executes: the committed state root is not compared.           *)
ExecutesAnyRoot(l, b) == l.at = b.prev /\ b.txs \cap l.txs = {}

(* try_connect_block: the block executes on l and commits the state and    *)
(* receipt roots that execution produced.                                  *)
Executes(l, b) ==
    /\ l.at = b.prev
    /\ b.txs \cap l.txs = {}
    /\ b.root = l.txs \cup b.txs

(* execute_block_on *)
Execute(l, b) == [at |-> b.hash, txs |-> l.txs \cup b.txs]

(* Mutant of RememberUndo: the newest log is evicted.                      *)
RememberUndoWrongEnd(ring) == IF Len(ring) > UndoWindow THEN Front(ring) ELSE ring

(* remember_undo: the ring forgets its oldest log past the window.         *)
RememberUndo(ring) == IF Len(ring) > UndoWindow THEN Tail(ring) ELSE ring

(* index_block_receipts, by height and by transaction.                     *)
IndexReceipts(rs, h, txs) ==
    {r \in rs : txs = {} \/ r[1] # h} \cup {<<h, t>> : t \in txs}
IndexTxHeight(ths, h, txs) ==
    {p \in ths : p[1] \notin txs} \cup {<<t, h>> : t \in txs}

(* disconnect_to on the same two maps: the receipts at height h go, and    *)
(* with them the heights of their transactions.                            *)
DropReceipts(rs, h) == {r \in rs : r[1] # h}

(* Mutant of DropTxHeight: the by-transaction index is left stale.         *)
KeepTxHeight(ths, rs, h) == ths

DropTxHeight(ths, rs, h) == {p \in ths : <<h, p[1]>> \notin rs}

(* SignalLog::record and SignalLog::remove.                                *)
RecordSignal(log, h, bits) ==
    [x \in DOMAIN log \cup {h} |-> IF x = h THEN bits ELSE log[x]]

(* Mutant of RemoveSignal: a disconnected block keeps signalling.          *)
KeepSignal(log, h) == log

RemoveSignal(log, h) == [x \in DOMAIN log \ {h} |-> log[x]]

(* Mutant of Reverted: only the old tip's transactions are handed back.    *)
RevertedTipOnly(old, new) == Head(old).txs \ TxsOf(new)

(* Mutant of Reverted: the adopted branch's transactions are handed back.  *)
RevertedSwapped(old, new) == TxsOf(new) \ TxsOf(old)

(* The transactions of the disconnected blocks (newest first) that the new *)
(* branch does not carry.                                                  *)
Reverted(old, new) == TxsOf(old) \ TxsOf(new)

(* insert_entry *)
InsertEntry(b) ==
    index' = [x \in DOMAIN index \cup {b.hash} |->
                IF x = b.hash
                THEN [block  |-> b,
                      height |-> index[b.prev].height + 1,
                      work   |-> index[b.prev].work + b.work]
                ELSE index[x]]

(* connect_to_active: execute in place, keep the undo log.                 *)
ConnectToActive(b) ==
    /\ ledger' = Execute(ledger, b)
    /\ signals' = RecordSignal(signals, Len(blocks), b.bits)
    /\ blocks' = Append(blocks, b)
    /\ undo_ring' = RememberUndo(Append(undo_ring,
                        [height |-> Len(blocks), hash |-> b.hash, undo |-> ledger]))

IndexBlockReceipts(b) ==
    /\ active_receipts' = IndexReceipts(active_receipts, Len(blocks), b.txs)
    /\ tx_height' = IndexTxHeight(tx_height, Len(blocks), b.txs)

Finish(ok, reverted) ==
    /\ pc' = "idle"
    /\ job' = NoJob
    /\ result' = [ok |-> ok, reverted |-> reverted]
    /\ UNCHANGED before

---------------------------------------------------------------------------
Init ==
    /\ index = [x \in {Genesis} |-> [block |-> GenesisBlock, height |-> 0, work |-> 0]]
    /\ blocks = <<GenesisBlock>>
    /\ head = Genesis
    /\ ledger = GenesisLedger
    /\ signals = [h \in {} |-> 0]
    /\ undo_ring = <<>>
    /\ active_receipts = {}
    /\ tx_height = {}
    /\ difficulty = Genesis
    /\ pc = "idle"
    /\ job = NoJob
    /\ result = [ok |-> TRUE, reverted |-> {}]
    /\ before = [head |-> Genesis, txs |-> {}]

(* import_block_tracked, up to the point where it returns or enters a      *)
(* loop.                                                                   *)
Start == pc = "idle" /\ before' = [head |-> head, txs |-> ledger.txs]

Return(ok) ==
    /\ result' = [ok |-> ok, reverted |-> {}]
    /\ UNCHANGED <<pc, job>>

(* A block already held is accepted without effect.                        *)
ImportKnown(b) ==
    /\ Start
    /\ b.hash \in DOMAIN index
    /\ Return(TRUE)
    /\ UNCHANGED chainVars

(* validate_candidate: the parent is held and the header checks pass.      *)
ValidCandidate(b) == b.prev \in DOMAIN index /\ b.header

RejectCandidate(b) ==
    /\ Start
    /\ b.hash \notin DOMAIN index
    /\ ~ValidCandidate(b)
    /\ Return(FALSE)
    /\ UNCHANGED chainVars

(* Fast path: the block extends the head.                                  *)
ExtendHead(b) ==
    /\ Start
    /\ b.hash \notin DOMAIN index
    /\ ValidCandidate(b)
    /\ b.prev = head
    /\ Executes(ledger, b)
    /\ IndexBlockReceipts(b)
    /\ ConnectToActive(b)
    /\ InsertEntry(b)
    /\ head' = b.hash
    /\ difficulty' = b.hash
    /\ Return(TRUE)

(* A block that does not execute is undone in place and refused.           *)
RejectExtension(b) ==
    /\ Start
    /\ b.hash \notin DOMAIN index
    /\ ValidCandidate(b)
    /\ b.prev = head
    /\ ~Executes(ledger, b)
    /\ Return(FALSE)
    /\ UNCHANGED chainVars

(* Mutant of Outweighs: the first block seen keeps a tie.                  *)
OutweighsStrictly(b) == index[b.prev].work + b.work > index[head].work

(* Fork choice: more cumulative work, or as much and a smaller hash.       *)
Outweighs(b) ==
    LET new_work == index[b.prev].work + b.work
        head_work == index[head].work
    IN  new_work > head_work \/ (new_work = head_work /\ b.hash < head)

(* The block is on another branch: reorganise if it outweighs the head,    *)
(* otherwise validate it beside the active chain.                          *)
BeginBranch(b) ==
    /\ Start
    /\ b.hash \notin DOMAIN index
    /\ ValidCandidate(b)
    /\ b.prev # head
    /\ pc' = "locate"
    /\ job' = [NoJob EXCEPT !.block = b, !.reorg = Outweighs(b), !.new = <<b>>]
    /\ UNCHANGED <<chainVars, result>>
(* locate_fork: walk back from the tip to the first active ancestor.  The  *)
(* undo ring must cover the active blocks above it; otherwise the branch   *)
(* is replayed from genesis.                                               *)
Parent == index[Head(job.new).prev]

IsActive(e) == e.height < Len(blocks) /\ blocks[e.height + 1].hash = e.block.hash

WalkBack ==
    /\ pc = "locate"
    /\ ~IsActive(Parent)
    /\ job' = [job EXCEPT !.new = <<Parent.block>> \o @]
    /\ UNCHANGED <<chainVars, pc, result, before>>

(* Mutant of UndoCovers: the ring is taken to cover every depth.           *)
UndoCoversAny(depth) == depth > 0

UndoCovers(depth) == depth > 0 /\ depth <= Len(undo_ring)

ForkFound ==
    /\ pc = "locate"
    /\ IsActive(Parent)
    /\ IF UndoCovers(Height - Parent.height)
       THEN /\ pc' = "disconnect"
            /\ job' = [job EXCEPT !.fork = Parent.height, !.todo = job.new]
       ELSE pc' = "ancestors" /\ job' = job
    /\ UNCHANGED <<chainVars, result, before>>

(* What disconnect_to returns: the first call's result is kept for the     *)
(* reconnect or the reverted transactions, a rollback's is dropped.        *)
Disconnected(b) == IF pc = "disconnect" THEN Append(job.old, b) ELSE job.old

(* One iteration of disconnect_to.  An exhausted ring is the code's        *)
(* expect("undo ring covers the disconnect depth").                        *)
Disconnect ==
    /\ pc \in {"disconnect", "rollback"}
    /\ Height > job.fork
    /\ IF undo_ring = <<>>
       THEN pc' = "panic" /\ UNCHANGED <<chainVars, job>>
       ELSE LET log == Top(undo_ring) IN
            /\ ledger' = log.undo
            /\ undo_ring' = Front(undo_ring)
            /\ blocks' = Front(blocks)
            /\ signals' = RemoveSignal(signals, Height)
            /\ tx_height' = DropTxHeight(tx_height, active_receipts, log.height)
            /\ active_receipts' = DropReceipts(active_receipts, log.height)
            /\ job' = [job EXCEPT !.old = Disconnected(Top(blocks))]
            /\ UNCHANGED <<index, head, difficulty, pc>>
    /\ UNCHANGED <<result, before>>

(* Mutant of AfterDisconnect: a rollback connects the branch again.        *)
AfterDisconnectRetry == "connect"

AfterDisconnect == IF pc = "disconnect" THEN "connect" ELSE "reconnect"

DisconnectDone ==
    /\ pc \in {"disconnect", "rollback"}
    /\ Height = job.fork
    /\ head' = Top(blocks).hash
    /\ pc' = AfterDisconnect
    /\ UNCHANGED <<index, blocks, ledger, signals, undo_ring, active_receipts,
                   tx_height, difficulty, job, result, before>>

(* try_incremental_reorg and try_incremental_side_branch: execute the next *)
(* block of the branch on the disconnected chain.  Only a reorg indexes    *)
(* receipts.  A block that fails sends the import into rollback.           *)
Connect ==
    /\ pc = "connect"
    /\ job.todo # <<>>
    /\ LET b == Head(job.todo) IN
         IF Executes(ledger, b)
         THEN /\ ConnectToActive(b)
              /\ IF job.reorg
                 THEN IndexBlockReceipts(b)
                 ELSE UNCHANGED <<active_receipts, tx_height>>
              /\ job' = [job EXCEPT !.todo = Tail(@)]
              /\ UNCHANGED <<index, head, difficulty, pc>>
         ELSE /\ job' = [job EXCEPT !.valid = FALSE]
              /\ pc' = "rollback"
              /\ UNCHANGED chainVars
    /\ UNCHANGED <<result, before>>

(* A reorg whose branch connected adopts it; the dropped transactions that *)
(* the new branch does not carry are reported.                             *)
AdoptBranch ==
    /\ pc = "connect"
    /\ job.todo = <<>>
    /\ job.reorg
    /\ InsertEntry(job.block)
    /\ head' = job.block.hash
    /\ difficulty' = job.block.hash
    /\ Finish(TRUE, Reverted(job.old, job.new))
    /\ UNCHANGED <<blocks, ledger, signals, undo_ring, active_receipts, tx_height>>

(* A lighter branch that connected is undone again.                        *)
SideBranchValid ==
    /\ pc = "connect"
    /\ job.todo = <<>>
    /\ ~job.reorg
    /\ pc' = "rollback"
    /\ UNCHANGED <<chainVars, job, result, before>>

(* Mutant of Reconnect: the error path returns without re-connecting.      *)
ReconnectValidOnly ==
    /\ pc = "reconnect"
    /\ job.old # <<>>
    /\ IF job.valid
       THEN /\ ConnectToActive(Top(job.old))
            /\ IndexBlockReceipts(Top(job.old))
            /\ UNCHANGED <<index, head, difficulty, pc>>
       ELSE UNCHANGED <<chainVars, pc>>
    /\ job' = [job EXCEPT !.old = Front(@)]
    /\ UNCHANGED <<result, before>>

(* One iteration of reconnect; a failure is the code's expect("re-connecting *)
(* a previously-valid block is deterministic").                            *)
Reconnect ==
    /\ pc = "reconnect"
    /\ job.old # <<>>
    /\ LET b == Top(job.old) IN
         IF Executes(ledger, b)
         THEN /\ ConnectToActive(b)
              /\ IndexBlockReceipts(b)
              /\ job' = [job EXCEPT !.old = Front(@)]
              /\ UNCHANGED <<index, head, difficulty, pc>>
         ELSE pc' = "panic" /\ UNCHANGED <<chainVars, job>>
    /\ UNCHANGED <<result, before>>

ReconnectDone ==
    /\ pc = "reconnect"
    /\ job.old = <<>>
    /\ head' = Top(blocks).hash
    /\ difficulty' = Top(blocks).hash
    /\ IF job.valid THEN InsertEntry(job.block) ELSE UNCHANGED index
    /\ Finish(job.valid, {})
    /\ UNCHANGED <<blocks, ledger, signals, undo_ring, active_receipts, tx_height>>

(* rebuild_branch: collect the ancestors down to genesis, then replay them *)
(* and the tip on the genesis ledger.                                      *)
CollectAncestor ==
    /\ pc = "ancestors"
    /\ IF Head(job.new).prev # Genesis
       THEN job' = [job EXCEPT !.new = <<Parent.block>> \o @] /\ pc' = pc
       ELSE job' = [job EXCEPT !.todo = job.new] /\ pc' = "replay"
    /\ UNCHANGED <<chainVars, result, before>>

Replay ==
    /\ pc = "replay"
    /\ job.todo # <<>>
    /\ LET b == Head(job.todo) IN
         IF Executes(job.ledger, b)
         THEN /\ job' = [job EXCEPT !.todo = Tail(@), !.ledger = Execute(@, b)]
              /\ UNCHANGED <<pc, result, before>>
         ELSE Finish(FALSE, {})
    /\ UNCHANGED chainVars

(* The rebuilt branch replaces the active chain and the undo ring is       *)
(* dropped, or, for a lighter branch, the block is only stored.            *)
AdoptRebuilt ==
    /\ pc = "replay"
    /\ job.todo = <<>>
    /\ job.reorg
    /\ InsertEntry(job.block)
    /\ ledger' = job.ledger
    /\ blocks' = <<GenesisBlock>> \o job.new
    /\ signals' = [h \in 1..Len(job.new) |-> job.new[h].bits]
    /\ head' = job.block.hash
    /\ difficulty' = job.block.hash
    /\ active_receipts' = UNION {{<<h, t>> : t \in job.new[h].txs} : h \in 1..Len(job.new)}
    /\ tx_height' = UNION {{<<t, h>> : t \in job.new[h].txs} : h \in 1..Len(job.new)}
    /\ undo_ring' = <<>>
    /\ Finish(TRUE, UNION {blocks[i].txs : i \in {j \in 1..Len(blocks) :
                        \A k \in 1..Len(job.new) : job.new[k].hash # blocks[j].hash}})

StoreSideBranch ==
    /\ pc = "replay"
    /\ job.todo = <<>>
    /\ ~job.reorg
    /\ InsertEntry(job.block)
    /\ Finish(TRUE, {})
    /\ UNCHANGED <<blocks, head, ledger, signals, undo_ring, active_receipts,
                   tx_height, difficulty>>

Import(b) ==
    \/ ImportKnown(b)
    \/ RejectCandidate(b)
    \/ ExtendHead(b)
    \/ RejectExtension(b)
    \/ BeginBranch(b)

Step ==
    \/ WalkBack
    \/ ForkFound
    \/ Disconnect
    \/ DisconnectDone
    \/ Connect
    \/ AdoptBranch
    \/ SideBranchValid
    \/ Reconnect
    \/ ReconnectDone
    \/ CollectAncestor
    \/ Replay
    \/ AdoptRebuilt
    \/ StoreSideBranch

Next == (\E b \in Offered : Import(b)) \/ Step

Spec == Init /\ [][Next]_vars

(* The thread that holds the node lock keeps running.                      *)
FairSpec == Spec /\ WF_vars(Step)
---------------------------------------------------------------------------
Pcs == {"idle", "locate", "disconnect", "connect", "rollback", "reconnect",
        "ancestors", "replay", "panic"}
Ledgers == [at : Hash, txs : SUBSET Tx]
Entry == [block : Block, height : Nat, work : Nat]
Undo == [height : Nat, hash : Hash, undo : Ledgers]

ChainTypeOK ==
    /\ DOMAIN index \subseteq Hash
    /\ index \in [DOMAIN index -> Entry]
    /\ blocks \in Seq(Block) /\ blocks # <<>>
    /\ head \in DOMAIN index /\ difficulty \in DOMAIN index
    /\ ledger \in Ledgers
    /\ DOMAIN signals \subseteq Nat /\ signals \in [DOMAIN signals -> Bits]
    /\ undo_ring \in Seq(Undo) /\ Len(undo_ring) <= UndoWindow
    /\ active_receipts \subseteq Nat \X Tx
    /\ tx_height \subseteq Tx \X Nat

Job == [block : Block, reorg : BOOLEAN, fork : Nat, new : Seq(Block),
        todo : Seq(Block), old : Seq(Block), valid : BOOLEAN, ledger : Ledgers]

ImportTypeOK ==
    /\ pc \in Pcs
    /\ job \in Job
    /\ result \in [ok : BOOLEAN, reverted : SUBSET Tx]
    /\ before \in [head : Hash, txs : SUBSET Tx]

(* The type of every field of struct Blockchain, with the bound on its     *)
(* undo ring, and of the import's locals.                                  *)
TypeOK == ChainTypeOK /\ ImportTypeOK

(* The accepted block x does not precede the accepted block h in the fork  *)
(* choice.                                                                 *)
NoBetter(x, h) ==
    \/ index[x].work < index[h].work
    \/ index[x].work = index[h].work /\ h <= x

(* Fork choice: between imports the active head is the accepted block with *)
(* the most cumulative work and, among those, the smallest hash.  The head *)
(* is therefore a function of the set of accepted blocks, whatever order   *)
(* they arrived in and however many reorganisations led there.             *)
HeadBest ==
    pc = "idle" =>
        \A x \in DOMAIN index : NoBetter(x, head)

(* The materialised state agrees with the active chain even in the middle  *)
(* of a reorg or a rollback: the ledger is the state the last active       *)
(* header commits to and the signal log holds exactly the active heights,  *)
(* so every block is executed under its own branch's deployments.          *)
StateFollowsChain ==
    /\ \A i \in 2..Len(blocks) : blocks[i].prev = blocks[i - 1].hash
    /\ ledger = [at |-> Top(blocks).hash, txs |-> Top(blocks).root]
    /\ signals = [h \in 1..Height |-> blocks[h + 1].bits]

(* Between imports every derived view is of the chain the head names: each *)
(* active block is the accepted one at its height, the cached difficulty   *)
(* is the head's, and a receipt is found exactly for the transactions of   *)
(* the active blocks, at their height.  A refused or a lighter branch,     *)
(* executed and rolled back, leaves no trace.                              *)
ViewsAgree ==
    pc = "idle" =>
        /\ head = Top(blocks).hash
        /\ difficulty = head
        /\ \A i \in 1..Len(blocks) :
              /\ blocks[i].hash \in DOMAIN index
              /\ index[blocks[i].hash].block = blocks[i]
              /\ index[blocks[i].hash].height = i - 1
        /\ ledger.txs = TxsOf(blocks)
        /\ active_receipts = UNION {{<<i - 1, t>> : t \in blocks[i].txs} : i \in 1..Len(blocks)}
        /\ tx_height = {<<r[2], r[1]>> : r \in active_receipts}

(* Only blocks that executed on their own branch and committed its state   *)
(* root are ever stored ("proof of work alone can never make a fabricated  *)
(* block durable"), and their height and work continue their parent's.     *)
IndexValid ==
    \A x \in DOMAIN index \ {Genesis} :
        LET e == index[x] IN
        /\ e.block.hash = x
        /\ e.block.prev \in DOMAIN index
        /\ LET p == index[e.block.prev] IN
             /\ e.height = p.height + 1
             /\ e.work = p.work + e.block.work
             /\ e.block.txs \cap p.block.root = {}
             /\ e.block.root = p.block.root \cup e.block.txs

(* disconnect_to's debug assertions, and what makes undoing a block sound: *)
(* the ring holds the logs of the newest active blocks, in order, and each *)
(* log restores the ledger its predecessor left.                           *)
RingAligned ==
    /\ Len(undo_ring) <= Height
    /\ \A k \in 1..Len(undo_ring) :
          LET i == Len(blocks) - Len(undo_ring) + k IN
          /\ undo_ring[k].height = i - 1
          /\ undo_ring[k].hash = blocks[i].hash
          /\ undo_ring[k].undo = [at |-> blocks[i - 1].hash, txs |-> blocks[i - 1].root]

(* "No transaction is silently dropped by a reorg": what was committed     *)
(* before an import is committed after it or is handed back as reverted.   *)
NoTxLost == pc = "idle" => before.txs \subseteq ledger.txs \cup result.reverted

(* A refused block does not move the head, although the import may have    *)
(* disconnected the whole undo window and executed part of the branch.     *)
RefusedLeavesHead == pc = "idle" /\ ~result.ok => head = before.head

(* The two expects of disconnect_to and reconnect never fire.              *)
NoPanic == pc # "panic"

(* Every import returns: no walk, rollback or replay runs for ever.        *)
ImportTerminates == pc # "idle" ~> pc = "idle"
---------------------------------------------------------------------------
(* The inductive invariant behind the theorems of BlockchainProofs.        *)

Accepted(b) == b.hash \in DOMAIN index /\ index[b.hash].block = b

Follows(b, p) ==
    /\ b.prev = p.hash
    /\ b.txs \cap p.root = {}
    /\ b.root = p.root \cup b.txs

IndexInv ==
    /\ Genesis \in DOMAIN index
    /\ index[Genesis] = [block |-> GenesisBlock, height |-> 0, work |-> 0]
    /\ IndexValid

ChainInv ==
    /\ blocks[1] = GenesisBlock
    /\ \A i \in 2..Len(blocks) :
          Follows(blocks[i], blocks[i - 1]) /\ blocks[i].hash # Genesis
    /\ StateFollowsChain

(* Above the fork the active chain may hold blocks of the branch under     *)
(* validation, the last of which is not accepted yet.                      *)
Branching == pc \in {"connect", "rollback"}
Trunk == IF Branching THEN job.fork + 1 ELSE Len(blocks)

AcceptedInv ==
    pc # "panic" =>
        /\ Trunk \in 1..Len(blocks)
        /\ \A i \in 1..Trunk : Accepted(blocks[i])
        /\ \A i \in (Trunk + 1)..Len(blocks) :
              Accepted(blocks[i]) \/ blocks[i] = job.block

(* The branch under validation.                                            *)
BranchInv ==
    pc \notin {"idle", "panic"} =>
        /\ job.block \in Offered
        /\ job.block.hash \notin DOMAIN index
        /\ job.block.prev \in DOMAIN index
        /\ before.head \in DOMAIN index
        /\ job.reorg = ( \/ index[job.block.prev].work + job.block.work > index[before.head].work
                         \/ /\ index[job.block.prev].work + job.block.work = index[before.head].work
                            /\ job.block.hash < before.head )
        /\ job.new # <<>>
        /\ Top(job.new) = job.block
        /\ \A i \in 1..Len(job.new) :
              /\ job.new[i].hash # Genesis
              /\ Accepted(job.new[i]) \/ job.new[i] = job.block

(* What is left to connect, and what connecting it will have shown.        *)
TodoInv ==
    /\ pc \in {"disconnect", "connect"} =>
          \A i \in 1..Len(job.todo) :
              /\ job.todo[i].hash # Genesis
              /\ Accepted(job.todo[i]) \/ job.todo[i] = job.block
    /\ pc = "disconnect" => job.todo # <<>> /\ Top(job.todo) = job.block
    /\ pc = "connect" =>
          IF job.todo = <<>> THEN Top(blocks) = job.block
                             ELSE Top(job.todo) = job.block
    /\ pc \in {"rollback", "reconnect"} /\ job.valid =>
          ~job.reorg /\ Follows(job.block, index[job.block.prev].block)

(* What was disconnected leads from the old head back to the block that    *)
(* the active chain was cut at.                                            *)
OldChain(h) ==
    IF job.old = <<>>
    THEN h = before.head
    ELSE /\ job.old[1].hash = before.head
         /\ \A i \in 2..Len(job.old) : job.old[i].hash = job.old[i - 1].prev
         /\ Top(job.old).prev = h
         /\ \A i \in 1..Len(job.old) : Accepted(job.old[i]) /\ job.old[i].hash # Genesis

OldInv ==
    /\ pc \in {"disconnect", "connect", "rollback", "reconnect"} =>
          OldChain(blocks[Trunk].hash)
    /\ pc = "disconnect" => job.fork < Len(blocks)
    /\ pc \in {"locate", "ancestors", "replay"} =>
          head = before.head /\ head = Top(blocks).hash /\ job.old = <<>>
    /\ pc = "idle" => head = Top(blocks).hash

(* What the replay has established of the first blocks of the branch.      *)
Replayed == Len(job.new) - Len(job.todo)

ReplayInv ==
    /\ pc = "ancestors" => job.ledger = GenesisLedger
    /\ pc \in {"locate", "disconnect"} => job.ledger = GenesisLedger
    /\ pc = "replay" =>
          /\ Replayed \in 0..Len(job.new)
          /\ \A i \in 1..Len(job.todo) : job.todo[i] = job.new[Replayed + i]
          /\ Replayed > 0 => Follows(job.new[1], GenesisBlock)
          /\ \A i \in 2..Replayed : Follows(job.new[i], job.new[i - 1])
          /\ job.ledger = IF Replayed = 0 THEN GenesisLedger
                          ELSE [at |-> job.new[Replayed].hash,
                                txs |-> job.new[Replayed].root]

BestInv ==
    /\ HeadBest
    /\ pc \notin {"idle", "panic"} =>
          \A x \in DOMAIN index : NoBetter(x, before.head)

Inv ==
    /\ TypeOK
    /\ IndexInv
    /\ ChainInv
    /\ RingAligned
    /\ AcceptedInv
    /\ BranchInv
    /\ TodoInv
    /\ OldInv
    /\ ReplayInv
    /\ BestInv
    /\ RefusedLeavesHead

(* The views derived from the chain, in the middle of an import too.  The  *)
(* heights the index ix gives to the first n blocks of s, counted from the *)
(* genesis (d = 1) or from the block above it (d = 0).                     *)
Heights(ix, s, n, d) ==
    \A i \in 1..n :
        s[i].hash \in DOMAIN ix /\ ix[s[i].hash].block = s[i]
            => ix[s[i].hash].height = i - d

HeightsInv ==
    /\ Heights(index, blocks, Len(blocks), 1)
    /\ pc = "replay" => Heights(index, job.new, Replayed, 0)

(* A block's root commits to the transactions up to it.                    *)
TxsUpTo(s, n) == UNION {s[i].txs : i \in 1..n}
Rooted(s, n) == \A i \in 1..n : s[i].root = TxsUpTo(s, i)

RootsInv ==
    /\ Rooted(blocks, Len(blocks))
    /\ pc = "replay" => Rooted(job.new, Replayed)

(* The active blocks whose receipts are indexed: a side branch's are not.  *)
Indexed == IF Branching /\ ~job.reorg THEN job.fork + 1 ELSE Len(blocks)
Receipts(s, n) == UNION {{<<i - 1, t>> : t \in s[i].txs} : i \in 1..n}
ByTx(rs) == {<<r[2], r[1]>> : r \in rs}

ReceiptInv ==
    pc # "panic" =>
        /\ active_receipts = Receipts(blocks, Indexed)
        /\ tx_height = ByTx(active_receipts)

(* Where the transactions committed before the import are while it runs.   *)
CarriedInv ==
    /\ pc \in {"locate", "ancestors", "replay"} => before.txs = ledger.txs
    /\ pc \in {"disconnect", "connect", "rollback", "reconnect"} =>
          before.txs \subseteq blocks[Trunk].root \cup TxsOf(job.old)
    /\ pc = "disconnect" => TxsOf(job.new) \subseteq TxsOf(job.todo)
    /\ pc = "connect" => TxsOf(job.new) \subseteq ledger.txs \cup TxsOf(job.todo)
    /\ NoTxLost

CacheInv == pc \in {"idle", "locate", "ancestors", "replay"} => difficulty = head

ViewInv ==
    /\ HeightsInv
    /\ RootsInv
    /\ ReceiptInv
    /\ CarriedInv
    /\ CacheInv

(* Difficulty is constant: every block carries the same work.              *)
SameWork == \A u, v \in Works : u = v

(* What keeps the undo ring long enough when it is: a branch has at most   *)
(* one block more than it replaces, and when it has one more it is not     *)
(* rolled back past its last block.                                        *)
RoomInv ==
    /\ \A x \in DOMAIN index : \A w \in Works : index[x].work = index[x].height * w
    /\ pc = "locate" =>
          index[Head(job.new).prev].height + Len(job.new) = index[job.block.prev].height + 1
    /\ pc = "disconnect" =>
          /\ job.fork + Len(job.todo) = index[job.block.prev].height + 1
          /\ Height - job.fork <= Len(undo_ring)
    /\ pc = "connect" =>
          /\ Height + Len(job.todo) = index[job.block.prev].height + 1
          /\ Height - job.fork <= Len(undo_ring) \/ Len(undo_ring) = UndoWindow
    /\ pc \in {"disconnect", "connect"} =>
          index[before.head].height - job.fork <= UndoWindow
    /\ pc = "rollback" => Height - job.fork <= Len(undo_ring)
    /\ NoPanic
===========================================================================
