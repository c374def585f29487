------------------------------ MODULE BlockLog ------------------------------
(***************************************************************************)
(* The append-only block log, the chainstate snapshot and the boot that    *)
(* reads them back (rpc/src/daemon.rs, rpc/src/p2p.rs and the replay half  *)
(* of chain/src/blockchain.rs).                                            *)
(*                                                                         *)
(* Three writers commit blocks to the chain in memory and append them to   *)
(* one log: the mining thread and RPC submitBlock append and fsync, the    *)
(* P2P verifier appends a batch and fsyncs once.  Commit and append happen *)
(* under the node lock, so each is one action; the verifier's fsync and    *)
(* the snapshot's file write happen off the lock.  The process can be      *)
(* killed and the machine can lose power at any point.                     *)
(*                                                                         *)
(* A block is its hash; hashes are naturals so that ties can be broken by  *)
(* order.  What an import checks is the subject of Blockchain; here every  *)
(* offered block is valid and only its parent and its work matter.         *)
(***************************************************************************)
EXTENDS Integers, Sequences, FiniteSets

CONSTANTS
    Hash,        \* the blocks of the network, without genesis
    Genesis,
    Torn,        \* a damaged record
    None,
    Trees,       \* the shapes their tree may have
    FaultSets,   \* the storage faults the machine may have
    MaxCrashes,  \* bound on crashes and power losses
    MaxLog       \* bound on the records appended

ASSUME HashAssumption == Hash \subseteq Nat /\ IsFiniteSet(Hash) /\ Genesis \in Nat \ Hash
ASSUME TagAssumption == Torn \notin Hash /\ None \notin Hash \cup {Genesis}
ASSUME TreesAssumption ==
    \A t \in Trees :
        /\ t \in [Hash \cup {Genesis} -> SUBSET (Hash \cup {Genesis})]
        /\ t[Genesis] = {Genesis}
        /\ \A h \in Hash :
              /\ {h, Genesis} \subseteq t[h]
              /\ \A a, b \in t[h] : t[a] \subseteq t[h] /\ (a \in t[b] \/ b \in t[a])
              /\ \A a \in t[h] \ {h} : h \notin t[a]
ASSUME FaultsAssumption == FaultSets \subseteq SUBSET {"io", "torn"}
ASSUME BoundAssumption == MaxCrashes \in Nat /\ MaxLog \in Nat

VARIABLES
    chain,       \* the blocks from each block down to genesis: a fact about the network
    faults,      \* "io": a write or fsync may fail while the process runs
                 \* "torn": a crash may leave part of a record in the file
    up,          \* the process is running
    index,       \* blocks the running chain knows
    head,        \* its active head
    ledger,      \* the state: how often each block has been executed on it
    producer,    \* the production thread: "on", "halted" or "ended"
    peer,        \* the verifier: "idle", "job" (importing) or "fsync"
    broken,      \* durable_broken: the P2P durability latch
    unsynced,    \* BlockLog.unsynced
    pending,     \* snapshot serialised and not yet written
    log,         \* the records of the file, damaged ones as Torn
    synced,      \* how many of them are on stable storage
    snapshot,    \* the snapshot file: a head and the ledger serialised with it
    promised,    \* blocks an append or a sync has reported durable
    crashes

memVars == <<index, head, ledger, producer, peer, broken, unsynced, pending>>
vars == <<chain, faults, up, memVars, log, synced, snapshot, promised, crashes>>

-----------------------------------------------------------------------------
(* Cumulative work, one unit per block, and live fork choice.              *)
Work(h) == Cardinality(chain[h])

Better(a, b) == Work(a) > Work(b) \/ (Work(a) = Work(b) /\ a < b)

Best(S) == CHOOSE h \in S : \A x \in S \ {h} : Better(h, x)

(* Mutant: a block is accepted before its parent is known.                 *)
OfferedOrphans == Hash \ index

Offered == {b \in Hash \ index : chain[b] \ {b} \subseteq index}

(* The ledger.  Executing a block twice, skipping one or executing one of  *)
(* another branch leaves a state no block commits to.                      *)
FreshLedger == [b \in Hash |-> 0]

StateOf(h) == [b \in Hash |-> IF b \in chain[h] THEN 1 ELSE 0]

Execute(l, S) == [b \in Hash |-> IF b \in S THEN l[b] + 1 ELSE l[b]]

Disconnect(l, S) == [b \in Hash |-> IF b \in S THEN l[b] - 1 ELSE l[b]]

(* The one comparison of state roots that stands for a replay's checks.    *)
ReplayedStateMatchesHead(l, h) == l = StateOf(h)

(* A better block moves the head: the blocks above the fork are undone and *)
(* the new branch is executed.  Any other is kept on a side branch.        *)
Accept(b) ==
    /\ up
    /\ b \in Offered
    /\ index' = index \cup {b}
    /\ \/ /\ Better(b, head)
          /\ head' = b
          /\ ledger' = Execute(Disconnect(ledger, chain[head] \ chain[b]),
                              chain[b] \ chain[head])
       \/ /\ ~Better(b, head)
          /\ UNCHANGED <<head, ledger>>

-----------------------------------------------------------------------------
(* The file.  read_records stops at the first damaged record.              *)
Damaged == {i \in 1..Len(log) : log[i] = Torn}

ReadableLen ==
    IF Damaged = {} THEN Len(log)
    ELSE (CHOOSE i \in Damaged : \A j \in Damaged : i <= j) - 1

ReadRecords == {log[i] : i \in 1..ReadableLen}

Records(n) == {log[i] : i \in 1..n} \ {Torn}

(* append: write, flush, fsync; the flag is cleared before the lock goes.  *)
AppendSynced(b) ==
    /\ Len(log) < MaxLog
    /\ log' = Append(log, b)
    /\ synced' = Len(log')
    /\ unsynced' = FALSE
    /\ promised' = promised \cup Records(Len(log)) \cup {b}

(* Mutant: a failed append cleans up one record too many.                  *)
AppendFailedDropsRecord(b) ==
    /\ "io" \in faults
    /\ Len(log) \in 1..MaxLog - 1
    /\ log' = SubSeq(log, 1, Len(log) - 1)
    /\ synced' = IF synced = Len(log) THEN synced - 1 ELSE synced
    /\ UNCHANGED <<unsynced, promised>>

(* append failing: nothing, part of the record or all of it was written,   *)
(* and nothing more is known to be on stable storage.                      *)
AppendFailed(b) ==
    /\ "io" \in faults
    /\ Len(log) < MaxLog
    /\ log' \in {log, Append(log, Torn), Append(log, b)}
    /\ UNCHANGED <<synced, unsynced, promised>>

(* Mutant: the batched append reports its record durable.                  *)
AppendUnsyncedReported(b) ==
    /\ Len(log) < MaxLog
    /\ log' = Append(log, b)
    /\ unsynced' = TRUE
    /\ promised' = promised \cup {b}
    /\ UNCHANGED synced

AppendUnsynced(b) ==
    /\ Len(log) < MaxLog
    /\ log' = Append(log, b)
    /\ unsynced' = TRUE
    /\ UNCHANGED <<synced, promised>>

WriteFailed ==
    /\ "io" \in faults
    /\ Len(log) < MaxLog
    /\ log' \in {log, Append(log, Torn)}
    /\ UNCHANGED <<synced, unsynced, promised>>

-----------------------------------------------------------------------------
Init ==
    /\ chain \in Trees
    /\ faults \in FaultSets
    /\ up = TRUE
    /\ index = {Genesis}
    /\ head = Genesis
    /\ ledger = FreshLedger
    /\ producer = "on"
    /\ peer = "idle"
    /\ broken = FALSE
    /\ unsynced = FALSE
    /\ pending = None
    /\ log = <<>>
    /\ synced = 0
    /\ snapshot = None
    /\ promised = {}
    /\ crashes = 0

(* A mined block: committed and made durable under the lock, then gossiped.*)
(* The lock holder may find the head moved; the block is then kept on a    *)
(* side branch and persisted all the same.                                 *)
MinerCommit(b) ==
    /\ producer = "on"
    /\ pending = None
    /\ Accept(b)
    /\ AppendSynced(b)
    /\ UNCHANGED <<chain, faults, up, producer, peer, broken, pending, snapshot, crashes>>

(* The log refused the mined block: mining halts and nothing is gossiped.  *)
MinerHalts(b) ==
    /\ producer = "on"
    /\ pending = None
    /\ Accept(b)
    /\ AppendFailed(b)
    /\ producer' = "halted"
    /\ UNCHANGED <<chain, faults, up, peer, broken, pending, snapshot, crashes>>

RpcSubmit(b) ==
    /\ Accept(b)
    /\ AppendSynced(b)
    /\ UNCHANGED <<chain, faults, up, producer, peer, broken, pending, snapshot, crashes>>

RpcSubmitFails(b) ==
    /\ Accept(b)
    /\ AppendFailed(b)
    /\ UNCHANGED <<chain, faults, up, producer, peer, broken, pending, snapshot, crashes>>

(* One block of a verification job.                                        *)
PeerImport(b) ==
    /\ ~broken
    /\ peer \in {"idle", "job"}
    /\ Accept(b)
    /\ AppendUnsynced(b)
    /\ peer' = "job"
    /\ UNCHANGED <<chain, faults, up, producer, broken, pending, snapshot, crashes>>

PeerImportFails(b) ==
    /\ ~broken
    /\ peer \in {"idle", "job"}
    /\ Accept(b)
    /\ WriteFailed
    /\ peer' = "job"
    /\ broken' = TRUE
    /\ UNCHANGED <<chain, faults, up, producer, pending, snapshot, crashes>>

(* Mutant: the flag is taken and the file is not synced.                   *)
SyncBeginForgets ==
    /\ up
    /\ peer = "job"
    /\ peer' = "idle"
    /\ unsynced' = FALSE
    /\ UNCHANGED <<chain, faults, up, index, head, ledger, producer, broken, pending,
                   log, synced, snapshot, promised, crashes>>

(* The job ends with sync_log: the flag is taken, then the file is synced. *)
SyncBegin ==
    /\ up
    /\ peer = "job"
    /\ peer' = IF unsynced THEN "fsync" ELSE "idle"
    /\ unsynced' = FALSE
    /\ UNCHANGED <<chain, faults, up, index, head, ledger, producer, broken, pending,
                   log, synced, snapshot, promised, crashes>>

SyncEnd ==
    /\ up
    /\ peer = "fsync"
    /\ peer' = "idle"
    /\ synced' = Len(log)
    /\ promised' = promised \cup Records(Len(log))
    /\ UNCHANGED <<chain, faults, up, index, head, ledger, producer, broken, unsynced, pending,
                   log, snapshot, crashes>>

SyncFails ==
    /\ up
    /\ "io" \in faults
    /\ peer = "fsync"
    /\ peer' = "idle"
    /\ broken' = TRUE
    /\ UNCHANGED <<chain, faults, up, index, head, ledger, producer, unsynced, pending,
                   log, synced, snapshot, promised, crashes>>

(* The production thread serialises the chainstate under the lock ...      *)
SnapshotOf(h, l) == [head |-> h, ledger |-> l]

SnapshotBytes ==
    /\ up
    /\ producer = "on"
    /\ pending = None
    /\ head # Genesis
    /\ pending' = SnapshotOf(head, ledger)
    /\ UNCHANGED <<chain, faults, up, index, head, ledger, producer, peer, broken, unsynced,
                   log, synced, snapshot, promised, crashes>>

(* ... once more after its loop has ended ...                              *)
FinalSnapshot ==
    /\ up
    /\ producer = "halted"
    /\ producer' = "ended"
    /\ pending' = SnapshotOf(head, ledger)
    /\ UNCHANGED <<chain, faults, up, index, head, ledger, peer, broken, unsynced,
                   log, synced, snapshot, promised, crashes>>

(* ... and replaces the file off the lock: temporary file, fsync, rename.  *)
WriteSnapshot ==
    /\ up
    /\ pending # None
    /\ snapshot' = pending
    /\ pending' = None
    /\ UNCHANGED <<chain, faults, up, index, head, ledger, producer, peer, broken, unsynced,
                   log, synced, promised, crashes>>

-----------------------------------------------------------------------------
(* The process ends: everything in memory is gone.                         *)
Down ==
    /\ up
    /\ crashes < MaxCrashes
    /\ up' = FALSE
    /\ index' = {Genesis}
    /\ head' = Genesis
    /\ ledger' = FreshLedger
    /\ producer' = "ended"
    /\ peer' = "idle"
    /\ broken' = FALSE
    /\ unsynced' = FALSE
    /\ pending' = None
    /\ crashes' = crashes + 1
    /\ UNCHANGED <<chain, faults, snapshot, promised>>

(* Killed between two writes, or in the middle of one.                     *)
Kill ==
    /\ Down
    /\ log' \in {log} \cup (IF "torn" \in faults /\ Offered # {}
                         THEN {Append(log, Torn)} ELSE {})
    /\ UNCHANGED synced

(* Power lost: any part of what was not synced may be missing, and the     *)
(* first missing record may be there in part.                              *)
PowerLoss ==
    /\ Down
    /\ \E n \in synced..Len(log) :
          log' \in {SubSeq(log, 1, n)}
                   \cup (IF "torn" \in faults /\ n < Len(log)
                         THEN {Append(SubSeq(log, 1, n), Torn)} ELSE {})
    /\ synced' = Len(log')

(* heaviest_chain: the heaviest block all of whose ancestors were read.    *)
Connected == {h \in ReadRecords : chain[h] \ {Genesis} \subseteq ReadRecords}

(* Mutant: the last record read is taken for the tip.                      *)
LastRecord == IF ReadableLen = 0 THEN Genesis ELSE log[ReadableLen]

HeaviestTip == IF Connected = {} THEN Genesis ELSE Best(Connected)

(* The blocks above the snapshot's height are executed on its state: one   *)
(* unit of work per block, so the height of a block is its work.           *)
Resumed(tip) ==
    Execute(snapshot.ledger, {b \in chain[tip] : Work(b) > Work(snapshot.head)})

(* Mutant: a snapshot whose checksum matches is trusted, wherever it was   *)
(* taken.                                                                  *)
ResumeUnchecked(tip) == snapshot # None /\ snapshot.head # Genesis

(* resume_from_snapshot: the snapshot must be a block of the chain to boot *)
(* and its ledger the state of that block; then the gap is executed and    *)
(* the state compared once more.                                           *)
ResumeFromSnapshot(tip) ==
    /\ snapshot # None
    /\ snapshot.head \in chain[tip] \ {Genesis}
    /\ ReplayedStateMatchesHead(snapshot.ledger, snapshot.head)
    /\ ReplayedStateMatchesHead(Resumed(tip), tip)

Restart(tip) ==
    /\ ~up
    /\ up' = TRUE
    /\ index' = chain[tip]
    /\ head' = tip
    /\ producer' = "on"
    /\ UNCHANGED <<chain, faults, peer, broken, unsynced, pending, log, synced, promised,
                   crashes>>

BootResumes ==
    /\ ResumeFromSnapshot(HeaviestTip)
    /\ Restart(HeaviestTip)
    /\ ledger' = Resumed(HeaviestTip)
    /\ UNCHANGED snapshot

(* The snapshot is refused: the chain is executed from a fresh ledger, and *)
(* the state reached is saved for the next boot.                           *)
BootReplays ==
    /\ ~ResumeFromSnapshot(HeaviestTip)
    /\ Restart(HeaviestTip)
    /\ ledger' = Execute(FreshLedger, chain[HeaviestTip])
    /\ snapshot' = IF ReadRecords = {} THEN snapshot ELSE SnapshotOf(head', ledger')

Commit ==
    \E b \in Hash :
        \/ MinerCommit(b)
        \/ MinerHalts(b)
        \/ RpcSubmit(b)
        \/ RpcSubmitFails(b)
        \/ PeerImport(b)
        \/ PeerImportFails(b)

Next ==
    \/ Commit
    \/ SyncBegin
    \/ SyncEnd
    \/ SyncFails
    \/ SnapshotBytes
    \/ FinalSnapshot
    \/ WriteSnapshot
    \/ Kill
    \/ PowerLoss
    \/ BootResumes
    \/ BootReplays

Spec == Init /\ [][Next]_vars

(* The verifier finishes the job it is on, fsync included, and a stopped   *)
(* node is started again.                                                  *)
FairSpec ==
    /\ Spec
    /\ WF_vars(SyncBegin)
    /\ WF_vars(SyncEnd \/ SyncFails)
    /\ WF_vars(BootResumes \/ BootReplays)

-----------------------------------------------------------------------------
Snapshots == [head : Hash \cup {Genesis}, ledger : [Hash -> Int]]

TypeOK ==
    /\ chain \in [Hash \cup {Genesis} -> SUBSET (Hash \cup {Genesis})]
    /\ faults \in FaultSets
    /\ up \in BOOLEAN /\ broken \in BOOLEAN /\ unsynced \in BOOLEAN
    /\ index \subseteq Hash \cup {Genesis}
    /\ head \in Hash \cup {Genesis} /\ ledger \in [Hash -> Int]
    /\ peer \in {"idle", "job", "fsync"} /\ producer \in {"on", "halted", "ended"}
    /\ {pending, snapshot} \subseteq Snapshots \cup {None}
    /\ log \in Seq(Hash \cup {Torn}) /\ synced \in 0..Len(log)
    /\ promised \subseteq Hash
    /\ crashes \in 0..MaxCrashes

(* A running node holds the state of its head, every block of that chain   *)
(* executed once and none of another, and its head is the best block it    *)
(* knows: reorgs, a snapshot resume with a gap to execute, a snapshot left *)
(* behind by a reorg or taken of blocks the log has lost, and a full       *)
(* replay must all end in the same place.  A stopped node's snapshot that  *)
(* lies on the chain to boot is never refused: "a snapshot that lags the   *)
(* tip still resumes fast instead of replaying everything".                *)
BootConsistent ==
    /\ TypeOK
    /\ up => ledger = StateOf(head) /\ head = Best(index)
    /\ ~up /\ snapshot # None =>
          (snapshot.head \in chain[HeaviestTip] \ {Genesis} => ResumeFromSnapshot(HeaviestTip))

(* Commit and append share the node lock, so on sound storage the file     *)
(* lists every block after its ancestors: a replay of any prefix of it     *)
(* skips nothing.                                                          *)
LogClosed ==
    faults = {} =>
        \A i \in 1..Len(log) :
            chain[log[i]] \ {log[i], Genesis} \subseteq {log[j] : j \in 1..i - 1}

(* On sound storage the log implements the abstract store: what append or  *)
(* sync reported durable survives every crash, and nothing else appears.   *)
Sound(S) == IF faults = {} THEN S ELSE {}

Store == INSTANCE BlockStore WITH known <- Sound(ReadRecords), durable <- Sound(promised)

ImplementsStore == Store!StoreSpec

(* On sound storage a restarted node stands at least as high as every      *)
(* block it reported durable.                                              *)
NoRegression ==
    faults = {} /\ up => \A b \in promised : ~Better(b, head)

(* Whatever storage does, read_records still returns every synced record   *)
(* it could return before: damage reaches only what follows.               *)
ReadablePrefixKept ==
    [][\A i \in 1..ReadableLen :
          i <= synced => i <= ReadableLen' /\ log'[i] = log[i]]_vars

(* "append_record fsyncs, so a committed record survives power loss": what *)
(* append or sync reported durable is read back, whatever crashes came     *)
(* before it was written.                                                  *)
PromisedSurvives == promised \subseteq ReadRecords

(* Every record written and not synced is reported durable, or the latch stops *)
(* the importer, or the process ends first.                                *)
EventuallySynced ==
    \A b \in Hash : (unsynced /\ b \in ReadRecords) ~> (b \in promised \/ broken \/ ~up)
=============================================================================
