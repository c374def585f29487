------------------------------ MODULE Mempool -------------------------------
(***************************************************************************)
(* The transaction pool (mempool/src/lib.rs) under the node that feeds it  *)
(* (node/src/node.rs): submission, replacement, the future-nonce queue,    *)
(* the capacity auction, promotion, the maintenance that follows every     *)
(* imported block, rejection of unminable work and the restart.            *)
(*                                                                         *)
(* The node lock makes each call atomic for the others; pc and job step    *)
(* through its loops, so that every iteration is a state of its own.       *)
(*                                                                         *)
(* A transaction is a record; equal records are equal ids.  Of its action  *)
(* the pool sees the tip, the base coin it moves out (tip included), the   *)
(* weight, and the shielded note it spends, if any.  Signers are numbered  *)
(* because the pool breaks ties by their order.                            *)
(***************************************************************************)
EXTENDS Integers, Sequences, FiniteSets, FiniteSetsExt, SequencesExt

CONSTANTS
    Tx,                  \* the transactions clients and peers may send
    None,
    Capacity,            \* capacity, in transactions
    MaxPerSender,
    QueuedCapacity,
    MaxQueuedPerSender,
    MaxWeight,           \* max_weight: budget of both regions together
    MinRbfBump,          \* MIN_RBF_BUMP_GRAINS
    RateScale,           \* FEE_RATE_WEIGHT_SCALE
    Balances,            \* the balances the accounts may have, by signer
    MaxBlocks,           \* bound on the length of the chain
    UndoWindow,          \* deepest reorganisation done incrementally
    ActivationHeight,    \* first height at which domain-bound signatures pass
    BoundHeight          \* first height at which legacy signatures fail

ASSUME TxAssumption ==
    \A t \in Tx :
        /\ t.signer \in Nat /\ t.nonce \in Nat /\ t.tip \in Nat
        /\ t.outflow \in Nat /\ t.tip <= t.outflow
        /\ t.weight \in Nat \ {0} /\ t.bound \in BOOLEAN
ASSUME LimitAssumption ==
    /\ {Capacity, MaxPerSender, QueuedCapacity, MaxQueuedPerSender} \subseteq Nat \ {0}
    /\ {MaxWeight, MinRbfBump, RateScale} \subseteq Nat \ {0}
    /\ \A b \in Balances : \A t \in Tx : b[t.signer] \in Nat
ASSUME BoundsAssumption == {MaxBlocks, UndoWindow, ActivationHeight, BoundHeight} \subseteq Nat

VARIABLES
    chain,               \* the active chain: each block's transactions, at most one
    balance,             \* account balances at its head
    by_id,               \* the ready region
    by_sender,           \* its index: slot -> transaction
    weight_total,
    queued,              \* the queued region: slot -> transaction
    queued_weight_total,
    fresh,               \* entries <<region, transaction>> stamped by the call in progress
    pc,
    job,                 \* locals of the call in progress
    saved,               \* the pool file
    returned,            \* transactions the last import took off the chain
    holed                \* a reorganisation or a rejection may have left a hole

readyVars == <<by_id, by_sender, weight_total>>
queuedVars == <<queued, queued_weight_total>>
chainVars == <<chain, balance, saved>>
vars == <<chainVars, readyVars, queuedVars, fresh, pc, job, returned, holed>>

-----------------------------------------------------------------------------
Signer == {t.signer : t \in Tx}

Slot(t) == <<t.signer, t.nonce>>

Confirmed == UNION ToSet(chain)

NextNonce(txs, s) == Cardinality({t \in txs : t.signer = s})

Nonce(s) == NextNonce(Confirmed, s)

Weight(S) == MapThenSumSet(LAMBDA t : t.weight, S)

Outflow(S) == MapThenSumSet(LAMBDA t : t.outflow, S)

ReadyOf(s) == {by_sender[k] : k \in {l \in DOMAIN by_sender : l[1] = s}}

Parked == {queued[k] : k \in DOMAIN queued}

QueuedOf(s) == {t \in Parked : t.signer = s}

SenderCount(s) == Cardinality({k \in DOMAIN by_sender : k[1] = s})

(* verify_signature_mode: Legacy, then the grace window, then Bound.        *)
SignatureValid(t, height) ==
    IF height < ActivationHeight THEN ~t.bound ELSE t.bound \/ height < BoundHeight

(* The pool's mode is that of the block after the head.                    *)
VerifySignature(t) == SignatureValid(t, Len(chain) + 1)

(* reject_spent_inputs: another transaction on the chain spent the note.   *)
Spent(t) == t.note # None /\ \E u \in Confirmed : u.note = t.note

(* The next nonce of the sender's run.                                     *)
Expected(s) == Nonce(s) + SenderCount(s)

-----------------------------------------------------------------------------
(* Mutant of ReadyBecomes: remove forgets the nonce index.                 *)
ReadyBecomesStaleIndex(gone, new) ==
    /\ by_id' = (by_id \ gone) \cup new
    /\ by_sender' =
          [k \in DOMAIN by_sender \cup {Slot(t) : t \in new} |->
              IF \E t \in new : Slot(t) = k THEN CHOOSE t \in new : Slot(t) = k
              ELSE by_sender[k]]
    /\ weight_total' = weight_total - Weight(gone) + Weight(new)

(* remove and admit_ready keep by_id, by_sender and weight_total in step.  *)
ReadyBecomes(gone, new) ==
    /\ by_id' = (by_id \ gone) \cup new
    /\ by_sender' =
          [k \in (DOMAIN by_sender \ {Slot(t) : t \in gone}) \cup {Slot(t) : t \in new} |->
              IF \E t \in new : Slot(t) = k THEN CHOOSE t \in new : Slot(t) = k
              ELSE by_sender[k]]
    /\ weight_total' = weight_total - Weight(gone) + Weight(new)

(* remove_queued, retain_queued and admit_queued, likewise.                *)
QueuedBecomes(gone, new) ==
    /\ queued' =
          [k \in (DOMAIN queued \ {Slot(t) : t \in gone}) \cup {Slot(t) : t \in new} |->
              IF \E t \in new : Slot(t) = k THEN CHOOSE t \in new : Slot(t) = k
              ELSE queued[k]]
    /\ queued_weight_total' = queued_weight_total - Weight(gone) + Weight(new)

TotalWeight == weight_total + queued_weight_total

FeeRate(t) == (t.tip * RateScale) \div t.weight

(* Only the highest nonce of a signer may be displaced.                    *)
Tails ==
    {by_sender[k] : k \in {l \in DOMAIN by_sender :
        \A m \in DOMAIN by_sender : m[1] = l[1] => m[2] <= l[2]}}

Cheaper(t, u) ==
    \/ FeeRate(t) < FeeRate(u)
    \/ /\ FeeRate(t) = FeeRate(u)
       /\ \/ SenderCount(t.signer) > SenderCount(u.signer)
          \/ /\ SenderCount(t.signer) = SenderCount(u.signer)
             /\ t.signer < u.signer

Candidates(exclude) == {t \in Tails : t.signer # exclude}

EvictionVictim(exclude) ==
    CHOOSE t \in Candidates(exclude) : \A u \in Candidates(exclude) \ {t} : Cheaper(t, u)

-----------------------------------------------------------------------------
NoJob == [phase |-> "none", tx |-> None, promoting |-> FALSE, signer |-> None,
          todo |-> <<>>, signers |-> {}]

Init ==
    /\ chain = <<>>
    /\ balance \in Balances
    /\ saved = <<>>
    /\ by_id = {} /\ by_sender = <<>> /\ weight_total = 0
    /\ queued = <<>> /\ queued_weight_total = 0
    /\ fresh = {}
    /\ pc = "idle"
    /\ job = NoJob
    /\ returned = {}
    /\ holed = FALSE

(* Mutant of After: promotion goes on after a refusal.                     *)
AfterRetry ==
    IF job.promoting THEN "promote" ELSE IF job.phase = "submit" THEN "idle" ELSE job.phase

(* Where control goes when an admission and its promotions are done.       *)
After == IF job.phase = "submit" THEN "idle" ELSE job.phase

(* Node::submit: a spent note is refused before the pool is asked.  Tx has *)
(* the transactions that pass what depends on the transaction alone: the   *)
(* key controls the signer, the weight is within the limit of a single     *)
(* transaction, and a balance that cannot pay the fee is not made up by a  *)
(* shielded withdrawal.                                                    *)
Submit(t) ==
    /\ pc = "idle"
    /\ ~Spent(t)
    /\ pc' = "insert"
    /\ job' = [NoJob EXCEPT !.phase = "submit", !.tx = t]
    /\ fresh' = {}
    /\ returned' = {}
    /\ UNCHANGED <<chainVars, readyVars, queuedVars, holed>>

-----------------------------------------------------------------------------
(* insert_inner, for job.tx.                                               *)
Inserting == pc = "insert"

Acceptable(t) ==
    /\ VerifySignature(t)
    /\ t.nonce >= Nonce(t.signer)
    /\ t \notin by_id

Taken(t) == Slot(t) \in DOMAIN by_sender

(* Mutant of Future: one nonce past the run is let through.                *)
FutureLoose(t) == t.nonce > Expected(t.signer) + 1

Future(t) == t.nonce > Expected(t.signer)

(* Mutant of AffordableReady: the pooled outflow is not counted.           *)
AffordableReadyAlone(t, released) == t.outflow <= balance[t.signer]

AffordableReady(t, released) ==
    Outflow(ReadyOf(t.signer) \ released) + t.outflow <= balance[t.signer]

Outbids(t, old) == t.tip >= old.tip + MinRbfBump

CanReplace(t, old) == Outbids(t, old) /\ AffordableReady(t, {old})

FitsInsteadOf(t, old) == TotalWeight - old.weight + t.weight <= MaxWeight

(* remove_pending.                                                         *)
RemovePending(t) ==
    IF t \in by_id THEN ReadyBecomes({t}, {}) /\ UNCHANGED queuedVars
    ELSE /\ QueuedBecomes(Parked \cap {t}, {})
         /\ UNCHANGED readyVars

(* A refused transaction goes back to the queue if it came from there and  *)
(* the reason is transient; a refused restore is rejected by id.           *)
Refuse(transient) ==
    /\ pc' = After
    /\ job' = [job EXCEPT !.tx = None, !.promoting = FALSE]
    /\ IF job.promoting
       THEN /\ IF transient THEN QueuedBecomes({}, {job.tx}) ELSE UNCHANGED queuedVars
            /\ UNCHANGED readyVars
       ELSE IF job.phase = "restore" THEN RemovePending(job.tx)
       ELSE UNCHANGED <<readyVars, queuedVars>>
    /\ holed' = (holed \/ (job.phase = "restore" /\ ~job.promoting /\ job.tx \in by_id))
    /\ UNCHANGED <<chainVars, fresh, returned>>

(* An admission to the ready region is followed by a promotion sweep of    *)
(* its signer.                                                             *)
Admitted(t) ==
    /\ pc' = "promote"
    /\ job' = [job EXCEPT !.tx = None, !.promoting = FALSE, !.signer = t.signer]
    /\ fresh' = fresh \cup {<<"ready", t>>}
    /\ UNCHANGED <<chainVars, queuedVars, returned, holed>>

(* Bad signature, stale, duplicate.                                        *)
RefuseUnacceptable ==
    /\ Inserting
    /\ ~Acceptable(job.tx)
    /\ Refuse(FALSE)

(* Replace-by-fee of the transaction in the same slot.                     *)
RefuseReplacement ==
    /\ Inserting
    /\ Acceptable(job.tx)
    /\ Taken(job.tx)
    /\ LET old == by_sender[Slot(job.tx)] IN
         \/ ~CanReplace(job.tx, old) /\ Refuse(FALSE)
         \/ CanReplace(job.tx, old) /\ ~FitsInsteadOf(job.tx, old) /\ Refuse(TRUE)

Replace ==
    /\ Inserting
    /\ Acceptable(job.tx)
    /\ Taken(job.tx)
    /\ LET old == by_sender[Slot(job.tx)] IN
         /\ CanReplace(job.tx, old)
         /\ FitsInsteadOf(job.tx, old)
         /\ ReadyBecomes({old}, {job.tx})
    /\ Admitted(job.tx)

(* insert_queued: the entries a newcomer would displace, its sender's      *)
(* furthest first, then the cheapest of the others.                        *)
Furthest(s) == CHOOSE t \in QueuedOf(s) : \A u \in QueuedOf(s) : u.nonce <= t.nonce

LaterSlot(t, u) == t.signer > u.signer \/ (t.signer = u.signer /\ t.nonce > u.nonce)

Cheapest(S) ==
    CHOOSE t \in S : \A u \in S \ {t} : t.tip < u.tip \/ (t.tip = u.tip /\ LaterSlot(t, u))

OwnDisplaced(t) ==
    IF Cardinality(QueuedOf(t.signer)) >= MaxQueuedPerSender THEN {Furthest(t.signer)} ELSE {}

Displaced(t) ==
    LET rest == Parked \ OwnDisplaced(t) IN
    OwnDisplaced(t) \cup (IF Cardinality(rest) >= QueuedCapacity THEN {Cheapest(rest)} ELSE {})

QueuedIncumbent(t) == {u \in Parked : Slot(u) = Slot(t)}

(* What leaves the queue when the transaction is parked.                   *)
MakesWay(t) == IF QueuedIncumbent(t) # {} THEN QueuedIncumbent(t) ELSE Displaced(t)

AffordableQueued(t) ==
    Outflow(ReadyOf(t.signer)) + Outflow(QueuedOf(t.signer) \ QueuedIncumbent(t)) + t.outflow
        <= balance[t.signer]

WinsQueueSlot(t) ==
    IF QueuedIncumbent(t) # {}
    THEN \A u \in QueuedIncumbent(t) : u # t /\ Outbids(t, u)
    ELSE /\ \A u \in OwnDisplaced(t) : t.nonce < u.nonce
         /\ \A u \in Displaced(t) \ OwnDisplaced(t) : t.tip > u.tip

FitsQueue(t) ==
    LET projected == queued_weight_total - Weight(MakesWay(t)) + t.weight IN
    projected <= MaxWeight \div 4 /\ weight_total + projected <= MaxWeight

CanPark(t) == WinsQueueSlot(t) /\ AffordableQueued(t) /\ FitsQueue(t)

Park ==
    /\ Inserting
    /\ Acceptable(job.tx) /\ ~Taken(job.tx) /\ Future(job.tx)
    /\ CanPark(job.tx)
    /\ QueuedBecomes(MakesWay(job.tx), {job.tx})
    /\ pc' = After
    /\ job' = [job EXCEPT !.tx = None]
    /\ fresh' = fresh \cup {<<"queued", job.tx>>}
    /\ UNCHANGED <<chainVars, readyVars, returned, holed>>

RefusePark ==
    /\ Inserting
    /\ Acceptable(job.tx) /\ ~Taken(job.tx) /\ Future(job.tx)
    /\ ~CanPark(job.tx)
    /\ Refuse(FALSE)

(* A transaction of the run: affordability, the sender's share, then the   *)
(* auction.                                                                *)
OfTheRun(t) == Acceptable(t) /\ ~Taken(t) /\ ~Future(t)

RefuseOverspend ==
    /\ Inserting
    /\ OfTheRun(job.tx)
    /\ ~AffordableReady(job.tx, {})
    /\ Refuse(FALSE)

RefuseSenderLimit ==
    /\ Inserting
    /\ OfTheRun(job.tx)
    /\ AffordableReady(job.tx, {})
    /\ SenderCount(job.tx.signer) >= MaxPerSender
    /\ Refuse(TRUE)

EnterAuction ==
    /\ Inserting
    /\ OfTheRun(job.tx)
    /\ AffordableReady(job.tx, {})
    /\ SenderCount(job.tx.signer) < MaxPerSender
    /\ pc' = "auction"
    /\ UNCHANGED <<chainVars, readyVars, queuedVars, fresh, job, returned, holed>>

(* Mutant of NoRoom: one transaction over capacity.                        *)
NoRoomOffByOne(t) == Cardinality(by_id) > Capacity \/ TotalWeight + t.weight > MaxWeight

(* The capacity auction.  Each turn evicts one transaction, so the loop's  *)
(* explicit budget ends it only when the pool is empty.                    *)
NoRoom(t) == Cardinality(by_id) >= Capacity \/ TotalWeight + t.weight > MaxWeight

Displaces(t, v) ==
    \/ FeeRate(t) > FeeRate(v)
    \/ FeeRate(t) = FeeRate(v) /\ FeeRate(v) = 0 /\ SenderCount(v.signer) > 1

Evict ==
    /\ pc = "auction"
    /\ NoRoom(job.tx)
    /\ Candidates(job.tx.signer) # {}
    /\ LET v == EvictionVictim(job.tx.signer) IN
         Displaces(job.tx, v) /\ ReadyBecomes({v}, {})
    /\ UNCHANGED <<chainVars, queuedVars, fresh, pc, job, returned, holed>>

LoseAuction ==
    /\ pc = "auction"
    /\ NoRoom(job.tx)
    /\ Candidates(job.tx.signer) # {} =>
          ~Displaces(job.tx, EvictionVictim(job.tx.signer))
    /\ Refuse(TRUE)

AdmitReady ==
    /\ pc = "auction"
    /\ ~NoRoom(job.tx)
    /\ ReadyBecomes({}, {job.tx})
    /\ Admitted(job.tx)

-----------------------------------------------------------------------------
(* promote: the queued entry next in the signer's run, admitted in full.   *)
NextSlot == <<job.signer, Expected(job.signer)>>

PromoteNext ==
    /\ pc = "promote"
    /\ NextSlot \in DOMAIN queued
    /\ QueuedBecomes({queued[NextSlot]}, {})
    /\ pc' = "insert"
    /\ job' = [job EXCEPT !.tx = queued[NextSlot], !.promoting = TRUE]
    /\ UNCHANGED <<chainVars, readyVars, fresh, returned, holed>>

PromoteDone ==
    /\ pc = "promote"
    /\ NextSlot \notin DOMAIN queued
    /\ pc' = After
    /\ UNCHANGED <<chainVars, readyVars, queuedVars, fresh, job, returned, holed>>

-----------------------------------------------------------------------------
(* A block's transactions are next in line and spend no note twice.        *)
ValidChain(c) ==
    \A i \in 1..Len(c) : \A t \in c[i] :
        LET earlier == UNION {c[j] : j \in 1..i - 1} IN
        /\ t.nonce = NextNonce(earlier, t.signer)
        /\ SignatureValid(t, i)
        /\ t.note = None \/ \A u \in earlier : u.note # t.note

Txs(bs) == FlattenSeq([i \in 1..Len(bs) |-> SetToSeq(bs[i])])

(* The incremental reorganisation hands the dropped blocks' transactions   *)
(* back newest block first, without those the new branch has; the replay   *)
(* from genesis hands back all of them, oldest first.                      *)
RevertedTxs(old, new) ==
    IF Len(old) <= UndoWindow
    THEN SelectSeq(Txs(Reverse(old)), LAMBDA t : \A i \in 1..Len(new) : t \notin new[i])
    ELSE Txs(old)

(* import_block and commit_mined: the head moves to a chain one block      *)
(* longer that leaves the old one at fork, and the pool is maintained.     *)
ImportBlock(fork, new) ==
    /\ pc = "idle"
    /\ Len(chain) < MaxBlocks
    /\ ValidChain(SubSeq(chain, 1, fork) \o new)
    /\ chain' = SubSeq(chain, 1, fork) \o new
    /\ balance' \in Balances
    /\ ReadyBecomes(by_id \cap new[Len(new)], {})
    /\ LET old == SubSeq(chain, fork + 1, Len(chain)) IN
         /\ job' = [NoJob EXCEPT !.phase = "reverted", !.todo = RevertedTxs(old, new)]
         /\ returned' = ToSet(RevertedTxs(old, new))
         /\ holed' = (holed \/ old # <<>>)
    /\ pc' = "reverted"
    /\ fresh' = {}
    /\ UNCHANGED <<queuedVars, saved>>

ReturnTx ==
    /\ pc = "reverted"
    /\ job.todo # <<>>
    /\ pc' = "insert"
    /\ job' = [job EXCEPT !.tx = Head(job.todo), !.todo = Tail(@)]
    /\ UNCHANGED <<chainVars, readyVars, queuedVars, fresh, returned, holed>>

(* Mutant of Stale: the nonce the head just consumed is kept.              *)
StaleLate(S) == {t \in S : t.nonce + 1 < Nonce(t.signer)}

(* prune: stale entries, then unaffordable tails, then promotion.          *)
Stale(S) == {t \in S : t.nonce < Nonce(t.signer)}

PruneStale ==
    /\ pc = "reverted"
    /\ job.todo = <<>>
    /\ ReadyBecomes(Stale(by_id), {})
    /\ QueuedBecomes(Stale(Parked), {})
    /\ pc' = "afford"
    /\ UNCHANGED <<chainVars, fresh, job, returned, holed>>

Overspent == {s \in Signer : Outflow(ReadyOf(s)) > balance[s]}

EvictHighestNonce ==
    /\ pc = "afford"
    /\ \E s \in Overspent :
          ReadyBecomes({CHOOSE t \in Tails : t.signer = s}, {})
    /\ UNCHANGED <<chainVars, queuedVars, fresh, pc, job, returned, holed>>

BeginSweep ==
    /\ pc = "afford"
    /\ Overspent = {}
    /\ pc' = "sweep"
    /\ job' = [job EXCEPT !.phase = "sweep", !.signers = {t.signer : t \in Parked}]
    /\ UNCHANGED <<chainVars, readyVars, queuedVars, fresh, returned, holed>>

SweepNext ==
    /\ pc = "sweep"
    /\ job.signers # {}
    /\ pc' = "promote"
    /\ job' = [job EXCEPT !.signer = Min(job.signers), !.signers = @ \ {Min(@)}]
    /\ UNCHANGED <<chainVars, readyVars, queuedVars, fresh, returned, holed>>

(* evict_stranded: entries behind the first missing nonce, and everything  *)
(* queued, once older than the time to live; nothing stamped in this call  *)
(* is that old.                                                            *)
Stranded ==
    {t \in by_id : \E n \in Nonce(t.signer)..t.nonce : <<t.signer, n>> \notin DOMAIN by_sender}

(* prune_spent_v2 ends the call.                                           *)
FinishImport ==
    /\ pc = "sweep"
    /\ job.signers = {}
    /\ \E agedReady \in SUBSET {t \in Stranded : <<"ready", t>> \notin fresh},
          agedQueued \in SUBSET {t \in Parked : <<"queued", t>> \notin fresh} :
          LET spent == {t \in by_id \ agedReady : Spent(t)} IN
          /\ ReadyBecomes(agedReady \cup spent, {})
          /\ QueuedBecomes(agedQueued \cup {t \in Parked : Spent(t)}, {})
          /\ holed' = (holed \/ spent # {})
    /\ pc' = "idle"
    /\ job' = NoJob
    /\ fresh' = {}
    /\ UNCHANGED <<chainVars, returned>>

(* reject_tx: the block builder drops a transaction whose turn has come    *)
(* and that does not execute.                                              *)
RejectTx(t) ==
    /\ pc = "idle"
    /\ t \in by_id
    /\ t.nonce = Nonce(t.signer)
    /\ RemovePending(t)
    /\ returned' = {}
    /\ holed' = TRUE
    /\ UNCHANGED <<chainVars, fresh, pc, job>>

-----------------------------------------------------------------------------
(* select: each signer offers its run from the head's nonce to the first   *)
(* hole; the best bid among the lowest left of each is taken, the first    *)
(* signer winning a tie.                                                   *)
Mineable == {t \in by_id \ Stranded : t.nonce >= Nonce(t.signer)}

Heads(S) == {t \in S : \A u \in S : u.signer = t.signer => t.nonce <= u.nonce}

Winner(S) ==
    CHOOSE t \in Heads(S) :
        \A u \in Heads(S) : t.tip > u.tip \/ (t.tip = u.tip /\ t.signer <= u.signer)

Select(max) ==
    LET out[n \in 0..max] ==
            IF n = 0 THEN <<>>
            ELSE LET left == Mineable \ ToSet(out[n - 1]) IN
                 IF left = {} THEN out[n - 1] ELSE Append(out[n - 1], Winner(left))
    IN  out[max]

(* next_nonce: the first free slot, within one more step than a signer may *)
(* hold entries.                                                           *)
FirstFree(s) ==
    LET free == {n \in Nonce(s)..(Nonce(s) + MaxPerSender) : <<s, n>> \notin DOMAIN by_sender}
    IN  IF free = {} THEN Nonce(s) + MaxPerSender + 1 ELSE Min(free)

-----------------------------------------------------------------------------
InSlotOrder(S) == SetToSortSeq(S, LAMBDA t, u : LaterSlot(u, t))

(* write_mempool: ready region first, each in slot order.                  *)
WriteMempool ==
    /\ pc = "idle"
    /\ saved' = InSlotOrder(by_id) \o InSlotOrder(Parked)
    /\ returned' = {}
    /\ UNCHANGED <<chain, balance, readyVars, queuedVars, fresh, pc, job, holed>>

(* A crash, or a shutdown after a last write: what the file holds, which   *)
(* may be older than the chain, is submitted again.                        *)
Restart ==
    /\ pc = "idle"
    /\ job' = [NoJob EXCEPT !.phase = "restore", !.todo = saved]
    /\ pc' = "restore"
    /\ by_id' = {} /\ by_sender' = <<>> /\ weight_total' = 0
    /\ queued' = <<>> /\ queued_weight_total' = 0
    /\ fresh' = {}
    /\ returned' = {}
    /\ holed' = FALSE
    /\ UNCHANGED chainVars

RestoreNext ==
    /\ pc = "restore"
    /\ job.todo # <<>>
    /\ IF Spent(Head(job.todo))
       THEN /\ RemovePending(Head(job.todo))
            /\ job' = [job EXCEPT !.todo = Tail(@)]
            /\ UNCHANGED pc
       ELSE /\ pc' = "insert"
            /\ job' = [job EXCEPT !.tx = Head(job.todo), !.todo = Tail(@)]
            /\ UNCHANGED <<readyVars, queuedVars>>
    /\ UNCHANGED <<chainVars, fresh, returned, holed>>

RestoreDone ==
    /\ pc = "restore"
    /\ job.todo = <<>>
    /\ pc' = "idle"
    /\ job' = NoJob
    /\ fresh' = {}
    /\ UNCHANGED <<chainVars, readyVars, queuedVars, returned, holed>>

-----------------------------------------------------------------------------
InsertStep ==
    \/ RefuseUnacceptable \/ RefuseReplacement \/ Replace
    \/ Park \/ RefusePark
    \/ RefuseOverspend \/ RefuseSenderLimit \/ EnterAuction
    \/ Evict \/ LoseAuction \/ AdmitReady
    \/ PromoteNext \/ PromoteDone

MaintainStep ==
    \/ ReturnTx \/ PruneStale \/ EvictHighestNonce
    \/ BeginSweep \/ SweepNext \/ FinishImport
    \/ RestoreNext \/ RestoreDone

Block == {{}} \cup {{t} : t \in Tx}

Next ==
    \/ \E t \in Tx : Submit(t) \/ RejectTx(t)
    \/ \E fork \in 0..Len(chain) :
          \E new \in [1..Len(chain) + 1 - fork -> Block] : ImportBlock(fork, new)
    \/ WriteMempool \/ Restart
    \/ InsertStep
    \/ MaintainStep

Spec == Init /\ [][Next]_vars

(* A call runs its loops to the end under the node lock.                   *)
FairSpec == Spec /\ WF_vars(InsertStep \/ MaintainStep)

-----------------------------------------------------------------------------
TypeOK ==
    /\ \A i \in 1..Len(chain) : chain[i] \subseteq Tx
    /\ balance \in Balances
    /\ by_id \subseteq Tx /\ Parked \subseteq Tx
    /\ \A k \in DOMAIN by_sender : Slot(by_sender[k]) = k
    /\ \A k \in DOMAIN queued : Slot(queued[k]) = k
    /\ weight_total \in Nat /\ queued_weight_total \in Nat
    /\ fresh \subseteq {"ready", "queued"} \X Tx
    /\ pc \in {"idle", "insert", "auction", "promote", "reverted", "afford", "sweep", "restore"}
    /\ job.tx \in Tx \cup {None} /\ ToSet(job.todo) \subseteq Tx
    /\ ToSet(saved) \subseteq Tx
    /\ returned \subseteq Tx /\ holed \in BOOLEAN

(* The nonce index holds exactly the ready transactions and both running   *)
(* weights are exact, whatever sequence of replacements, auctions,         *)
(* promotions, reorganisations and restarts led here.                      *)
PoolConsistent ==
    /\ TypeOK
    /\ by_id = {by_sender[k] : k \in DOMAIN by_sender}
    /\ Cardinality(by_id) = Cardinality(DOMAIN by_sender)
    /\ weight_total = Weight(by_id)
    /\ queued_weight_total = Weight(Parked)

(* No limit is ever exceeded, in the middle of a call included: the count  *)
(* and the share of each region, the queue's quarter and the whole weight. *)
Bounded ==
    /\ Cardinality(by_id) <= Capacity
    /\ Cardinality(Parked) <= QueuedCapacity
    /\ \A s \in Signer : SenderCount(s) <= MaxPerSender
                         /\ Cardinality(QueuedOf(s)) <= MaxQueuedPerSender
    /\ queued_weight_total <= MaxWeight \div 4
    /\ TotalWeight <= MaxWeight

(* Between calls no signer's ready transactions move more than the signer  *)
(* has at the head: the over-committed tails of an import are gone.        *)
Affordable == pc = "idle" => Overspent = {}

(* Between calls neither region holds a consumed nonce or a spent note,    *)
(* although an import removes by id only the tip block's transactions.     *)
NothingDead ==
    pc = "idle" => \A t \in by_id \cup Parked : t.nonce >= Nonce(t.signer) /\ ~Spent(t)

(* Between calls the template select hands the miner has every signer's    *)
(* nonces in turn from the head's, moves no more than a signer has, and    *)
(* next_nonce names a free slot.  Without a reorganisation or a rejection  *)
(* the template is the whole ready region, and next_nonce the slot behind  *)
(* it: admission, auction, maintenance and restore never open a hole.      *)
TemplateInOrder ==
    pc = "idle" =>
        LET template == Select(Capacity) IN
        /\ \A i \in DOMAIN template :
              LET before == {template[j] : j \in 1..i - 1} IN
              template[i].nonce = NextNonce(Confirmed \cup before, template[i].signer)
        /\ \A s \in Signer :
              /\ Outflow({t \in ToSet(template) : t.signer = s}) <= balance[s]
              /\ <<s, FirstFree(s)>> \notin DOMAIN by_sender
              /\ ~holed => FirstFree(s) = Expected(s)
        /\ ~holed => ToSet(template) = by_id

(* Every call ends: no auction, promotion or maintenance loop runs on.     *)
CallsEnd == pc # "idle" ~> pc = "idle"

(* A transaction a reorganisation took off the chain, still valid on the   *)
(* new one and affordable with all else its signer has pending, is pending *)
(* again unless its slot went to another or the pool has no room.          *)
ReorgKeeps ==
    pc = "idle" /\ TotalWeight + Weight(returned) <= MaxWeight
                /\ Cardinality(by_id \cup returned) <= Capacity =>
        \A t \in returned :
            \/ t \in by_id \cup Parked
            \/ t.nonce < Nonce(t.signer) \/ Spent(t) \/ ~VerifySignature(t)
            \/ \E u \in (by_id \cup Parked) : Slot(u) = Slot(t)
            \/ Cardinality({u \in by_id \cup returned : u.signer = t.signer}) > MaxPerSender
            \/ Outflow({u \in by_id \cup Parked \cup returned : u.signer = t.signer})
                   > balance[t.signer]
=============================================================================
