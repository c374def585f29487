------------------------------ MODULE Producer ------------------------------
(***************************************************************************)
(* The production thread of rpc/src/daemon.rs beside the threads that move *)
(* the chain under it: the P2P worker, which imports blocks and publishes  *)
(* how far behind its peers the node is, the operator's mining switch, a   *)
(* failing disk, and a restart.                                            *)
(*                                                                         *)
(* The thread takes the node lock five times in one turn of its loop, and  *)
(* grinds with no lock at all, so each stretch under the lock is one step: *)
(*   "top"      height read, snapshot due?                                 *)
(*   "anchor"   adopt_local_finalized_checkpoint                           *)
(*   "persist"  the anchor file replaced, off the lock                     *)
(*   "gate"     mining switch and published sync status read               *)
(*   "vouch"    pins consulted, decide_mine_phase                          *)
(*   "build"    template built on the head of that moment                  *)
(*   "grind"    sealing, off the lock                                      *)
(*   "commit"   commit_mined and BlockLog::append, then gossip             *)
(*   "halted"   the loop left after a failed append                        *)
(* A template is its parent, and sealing it yields a block of Own: the     *)
(* block this node would mine there.  Work[b] is the work of the chain     *)
(* that ends in b, as its headers declare it; ties go to the smaller hash. *)
(* What the snapshot and the log hold after a crash is the subject of      *)
(* BlockLog: here the log is the set of blocks a restart reads back.       *)
(***************************************************************************)
EXTENDS Checkpoints, FiniteSetsExt

CONSTANTS
    None,
    Own,            \* the blocks this node may mine
    Refused,        \* those of them its own import refuses
    Work,           \* chain_work of each block
    PinSets,        \* the baked checkpoints a build may come with
    Claims,         \* heights a peer may advertise
    Unknown,        \* peers are authenticated and none has advertised a height
    SnapshotEvery,  \* SNAPSHOT_EVERY_BLOCKS
    AnchorStride,   \* LOCAL_ANCHOR_STRIDE
    AnchorDepth,    \* LOCAL_ANCHOR_DEPTH
    GateLag,        \* MINING_GATE_LAG
    FaultSets,      \* the writers whose append may fail: "peer", "mined"
    MaxMined,       \* bound on the blocks this node mines
    MaxTurns,       \* bound on changes of the peers' claim and of the switch
    MaxRestarts     \* bound on restarts

ASSUME ProducerAssumption ==
    /\ Refused \subseteq Own /\ Own \subseteq Blocks /\ None \notin Blocks \cup {Genesis}
    /\ Work \in [Blocks \cup {Genesis} -> Nat]
    /\ \A b \in Blocks : Work[b] > Work[Prev[b]]
    /\ \A s \in PinSets : s \subseteq Blocks /\ Cardinality(s) <= 1
    /\ Claims \subseteq Nat /\ None \notin Claims /\ Unknown \notin Claims
    /\ SnapshotEvery \in Nat \ {0} /\ AnchorStride \in Nat /\ AnchorDepth \in Nat
    /\ GateLag \in Nat /\ MaxMined \in Nat /\ MaxTurns \in Nat /\ MaxRestarts \in Nat
    /\ FaultSets \subseteq SUBSET {"peer", "mined"}

VARIABLES
    known,      \* blocks in the fork-choice index
    head,       \* the active head
    cp,         \* checkpoints (module Checkpoints)
    older,      \* history: blocks of a pinned height stored before the pin was laid
    log,        \* blocks the log gives back after a restart
    broken,     \* durable_broken: the P2P durability latch
    baked,      \* the checkpoints of this build
    anchor,     \* the local anchor file
    claim,      \* the tallest advertised height; None without a peer
    status,     \* SyncShared: authed_peers > 0, and behind
    on,         \* the mining switch
    pc, height, adopted, seen, template, sealed,   \* locals of the thread
    lastSnap, lastAnchor,
    told,       \* history: blocks this node gossiped as mined
    faults, turns, restarts

chainVars == <<known, head, cp, older, log, broken, baked, anchor>>
netVars == <<claim, status, on, turns>>
locals == <<height, adopted, seen, template, sealed, lastSnap, lastAnchor>>
vars == <<chainVars, netVars, pc, locals, told, faults, restarts>>

----------------------------------------------------------------------------

Better(a, b) == Work[a] > Work[b] \/ (Work[a] = Work[b] /\ a < b)

Best(S) == CHOOSE b \in S : \A x \in S \ {b} : Better(b, x)

SameHeight(S, p) == {b \in S : Height(b) = Height(p)}

\* import_block_tracked, for a block that passes every check but the pins
Store(b) ==
    /\ known' = known \cup {b}
    /\ head' = IF Better(b, head) THEN b ELSE head

\* heaviest_chain: the best block all of whose ancestors were read back
Recovered == Best({b \in log \cup {Genesis} : Ancestry(b) \subseteq log \cup {Genesis}})

\* telemetry: claims above the own height, none without a claim
Behind ==
    CASE claim = None -> 0
      [] claim = Unknown -> Unknown
      [] claim # None /\ claim # Unknown -> Max({0, claim - Height(head)})

\* Mutant: a deficit of the tolerated lag pauses mining too
GatesAtLag(behind) == behind = Unknown \/ behind >= GateLag

\* SyncShared::should_gate_mining
ShouldGateMining(behind) == behind = Unknown \/ behind > GateLag

\* Mutant: an unmatched pin does not hold mining back
PhaseIgnoringPins(pinned, unpinned, peers, behind, young) ==
    CASE ~peers -> IF pinned \/ young THEN "connecting" ELSE "mining"
      [] OTHER -> IF behind THEN "syncing" ELSE "mining"

\* decide_mine_phase, for a node with a P2P engine
DecideMinePhase(pinned, unpinned, peers, behind, young) ==
    CASE unpinned -> "syncing"
      [] ~unpinned /\ ~peers -> IF pinned \/ young THEN "connecting" ELSE "mining"
      [] OTHER -> IF behind THEN "syncing" ELSE "mining"

NoStatus == [peers |-> FALSE, behind |-> 0]

\* Daemon::open: the log's heaviest chain, then the baked pins, then the
\* node's own anchor if that chain holds it
BootHead == Recovered

BootPins ==
    LET plain == AddCheckpoints(NoPins, BootHead, baked)
    IN  IF anchor # None /\ anchor \in Ancestry(BootHead)
        THEN AddCheckpoints(plain, BootHead, {anchor})
        ELSE plain

Init ==
    /\ known = {Genesis} /\ head = Genesis
    /\ baked \in PinSets
    /\ cp = [NoPins EXCEPT !.pins = baked]
    /\ older = {} /\ log = {} /\ broken = FALSE
    /\ anchor = None
    /\ claim \in Claims \cup {None, Unknown}
    /\ status = NoStatus
    /\ on = TRUE
    /\ pc = "top" /\ height = 0 /\ adopted = None /\ seen = NoStatus
    /\ template = None /\ sealed = None
    /\ lastSnap = 0 /\ lastAnchor = 0
    /\ told = {}
    /\ faults \in FaultSets
    /\ turns \in 0 .. MaxTurns /\ restarts \in 0 .. MaxRestarts

----------------------------------------------------------------------------
(* The production thread.                                                  *)

\* Top of the loop.  A snapshot is due every SnapshotEvery blocks, and with
\* it, every AnchorStride blocks, a new anchor.
Tick ==
    /\ pc = "top"
    /\ lastSnap' = IF Height(head) >= lastSnap + SnapshotEvery THEN Height(head) ELSE lastSnap
    /\ pc' = IF /\ Height(head) >= lastSnap + SnapshotEvery
                /\ Height(head) >= lastAnchor + AnchorStride
             THEN "anchor" ELSE "gate"
    /\ height' = IF pc' = "anchor" THEN Height(head) ELSE 0
    /\ UNCHANGED <<chainVars, netVars, adopted, seen, template, sealed, lastAnchor, told,
                   faults, restarts>>

\* The lock is taken again; the head may have moved since the height was read.
Adopt ==
    /\ pc = "anchor"
    /\ IF CanAdopt(cp, head, AnchorDepth)
       THEN /\ cp' = AdoptLocalFinalizedCheckpoint(cp, head, AnchorDepth)
            /\ older' = older \cup SameHeight(known, NewestCheckpoint(cp'))
            /\ adopted' = NewestCheckpoint(cp')
            /\ lastAnchor' = height
            /\ pc' = "persist"
       ELSE pc' = "gate" /\ UNCHANGED <<cp, older, adopted, lastAnchor>>
    /\ height' = 0
    /\ UNCHANGED <<known, head, log, broken, baked, anchor, netVars, seen, template, sealed,
                   lastSnap, told, faults, restarts>>

PersistAnchor ==
    /\ pc = "persist"
    /\ anchor' = adopted
    /\ adopted' = None
    /\ pc' = "gate"
    /\ UNCHANGED <<known, head, cp, older, log, broken, baked, netVars, height, seen, template,
                   sealed, lastSnap, lastAnchor, told, faults, restarts>>

\* The switch, then the published status: no lock is held.
ReadStatus ==
    /\ pc = "gate"
    /\ pc' = IF on THEN "vouch" ELSE "top"
    /\ seen' = IF on THEN status ELSE seen
    /\ UNCHANGED <<chainVars, netVars, height, adopted, template, sealed, lastSnap, lastAnchor,
                   told, faults, restarts>>

\* young: CONNECT_GRACE has not passed
Decide(young) ==
    /\ pc = "vouch"
    /\ pc' = IF DecideMinePhase(cp.pins # {}, ~CheckpointSatisfied(cp, head), seen.peers,
                                ShouldGateMining(seen.behind), young) = "mining"
             THEN "build" ELSE "top"
    /\ seen' = NoStatus
    /\ UNCHANGED <<chainVars, netVars, height, adopted, template, sealed, lastSnap, lastAnchor,
                   told, faults, restarts>>

Build ==
    /\ pc = "build"
    /\ template' = head
    /\ height' = Height(head)
    /\ pc' = "grind"
    /\ UNCHANGED <<chainVars, netVars, adopted, seen, sealed, lastSnap, lastAnchor, told,
                   faults, restarts>>

Seal(b) ==
    /\ pc = "grind"
    /\ Prev[b] = template /\ b \notin known
    /\ Cardinality(told) < MaxMined
    /\ sealed' = b
    /\ template' = None
    /\ height' = 0
    /\ pc' = "commit"
    /\ UNCHANGED <<chainVars, netVars, adopted, seen, lastSnap, lastAnchor, told,
                   faults, restarts>>

\* The grind looks for a new tip by height alone.
TipMoved == Height(head) # height

\* A new tip, or wall-clock time past the next difficulty-easing boundary
Abandon(why) ==
    /\ pc = "grind"
    /\ why = "tip" => TipMoved
    /\ template' = None
    /\ height' = 0
    /\ pc' = "top"
    /\ UNCHANGED <<chainVars, netVars, adopted, seen, sealed, lastSnap, lastAnchor,
                   told, faults, restarts>>

\* commit_mined: the import's verdict.  A block that lost the race is stored
\* on a side branch, and that is Ok too.
Commits(b) == b \notin Refused /\ PassesPins(cp, b)

\* Mutant: a block that lost the race is gossiped and not appended
CommitMinedUnlogged ==
    /\ pc = "commit"
    /\ Commits(sealed)
    /\ Store(sealed)
    /\ log' = IF Better(sealed, head) THEN log \cup {sealed} ELSE log
    /\ told' = told \cup {sealed}
    /\ sealed' = None
    /\ pc' = "top"
    /\ UNCHANGED <<cp, older, broken, baked, anchor, netVars, height, adopted, seen, template,
                   lastSnap, lastAnchor, faults, restarts>>

\* Gossip follows the append, also for a block that lost the race
CommitMined ==
    /\ pc = "commit"
    /\ Commits(sealed)
    /\ Store(sealed)
    /\ log' = log \cup {sealed}
    /\ told' = told \cup {sealed}
    /\ sealed' = None
    /\ pc' = "top"
    /\ UNCHANGED <<cp, older, broken, baked, anchor, netVars, height, adopted, seen, template,
                   lastSnap, lastAnchor, faults, restarts>>

\* The log refused the block: it stays in memory, mining halts, no gossip.
AppendFails ==
    /\ pc = "commit"
    /\ "mined" \in faults
    /\ Commits(sealed)
    /\ Store(sealed)
    /\ sealed' = None
    /\ pc' = "halted"
    /\ UNCHANGED <<cp, older, log, broken, baked, anchor, netVars, height, adopted, seen,
                   template, lastSnap, lastAnchor, told, faults, restarts>>

CommitRefused ==
    /\ pc = "commit"
    /\ ~Commits(sealed)
    /\ sealed' = None
    /\ pc' = "top"
    /\ UNCHANGED <<chainVars, netVars, height, adopted, seen, template, lastSnap, lastAnchor,
                   told, faults, restarts>>

----------------------------------------------------------------------------
(* The other threads.                                                      *)

\* A block from a peer: import_and_persist and, when its append fails, the
\* latch that stops the importer.  Own blocks come back from the peers that
\* were told of them.
Arrivals == {b \in ((Blocks \ Own) \cup told) \ known :
                Prev[b] \in known /\ PassesPins(cp, b)}

PeerImport(b) ==
    /\ ~broken
    /\ b \in Arrivals
    /\ Store(b)
    /\ log' = log \cup {b}
    /\ UNCHANGED <<cp, older, broken, baked, anchor, netVars, pc, locals, told, faults, restarts>>

PeerImportFails(b) ==
    /\ ~broken
    /\ "peer" \in faults
    /\ b \in Arrivals
    /\ Store(b)
    /\ broken' = TRUE
    /\ UNCHANGED <<cp, older, log, baked, anchor, netVars, pc, locals, told, faults, restarts>>

\* publish_sync, once per pass of the P2P worker
Publish ==
    /\ status # [peers |-> claim # None, behind |-> Behind]
    /\ status' = [peers |-> claim # None, behind |-> Behind]
    /\ UNCHANGED <<chainVars, claim, on, turns, pc, locals, told, faults, restarts>>

PeersClaim(c) ==
    /\ turns < MaxTurns
    /\ c # claim
    /\ claim' = c
    /\ turns' = turns + 1
    /\ UNCHANGED <<chainVars, status, on, pc, locals, told, faults, restarts>>

Switch ==
    /\ turns < MaxTurns
    /\ on' = ~on
    /\ turns' = turns + 1
    /\ UNCHANGED <<chainVars, claim, status, pc, locals, told, faults, restarts>>

\* The process ends at any point and is started again.
Restart ==
    /\ restarts < MaxRestarts
    /\ restarts' = restarts + 1
    /\ head' = BootHead
    /\ known' = Ancestry(BootHead)
    /\ cp' = BootPins
    /\ older' = UNION {SameHeight(Ancestry(BootHead), p) : p \in cp'.pins}
    /\ broken' = FALSE
    /\ status' = NoStatus
    /\ pc' = "top" /\ height' = 0 /\ adopted' = None /\ seen' = NoStatus
    /\ template' = None /\ sealed' = None
    /\ lastSnap' = 0 /\ lastAnchor' = 0
    /\ UNCHANGED <<log, baked, anchor, claim, on, turns, told, faults>>

Thread ==
    \/ Tick
    \/ Adopt
    \/ PersistAnchor
    \/ ReadStatus
    \/ \E young \in BOOLEAN : Decide(young)
    \/ Build
    \/ Abandon("tip")
    \/ CommitMined
    \/ AppendFails
    \/ CommitRefused

Next ==
    \/ Thread
    \/ \E b \in Own : Seal(b)
    \/ Abandon("eased")
    \/ \E b \in Blocks : PeerImport(b) \/ PeerImportFails(b)
    \/ Publish
    \/ \E c \in Claims \cup {None, Unknown} : PeersClaim(c)
    \/ Switch
    \/ Restart

Spec == Init /\ [][Next]_vars

\* The thread runs and looks for a new tip after every slice; a template
\* ground long enough is sealed; the worker publishes once per pass.
\* Nothing makes a peer send a block.
Fairness ==
    /\ WF_vars(Thread)
    /\ SF_vars(\E b \in Own : Seal(b))
    /\ WF_vars(Publish)

FairSpec == Spec /\ Fairness

----------------------------------------------------------------------------

TypeOK ==
    /\ known \subseteq Blocks \cup {Genesis} /\ head \in known
    /\ CheckpointType(cp)
    /\ log \subseteq Blocks /\ told \subseteq Own
    /\ pc \in {"top", "anchor", "persist", "gate", "vouch", "build", "grind", "commit", "halted"}
    /\ (template # None) <=> (pc = "grind")
    /\ (sealed # None) <=> (pc = "commit")

\* A pin moved forward while side branches are in the store (and a pin laid
\* over a replayed chain): the active chain leaves a pin only onto a block of
\* the pinned height that was already stored when the pin was laid.  No block
\* offered later can lead the node past a pin it contradicts.
PinHeld ==
    \A p \in cp.pins :
        \/ p \in Ancestry(head)
        \/ Height(head) < Height(p)
        \/ BlockAt(head, Height(p)) \in older

\* The pins of a node, baked, adopted and re-adopted at boot, lie on one
\* chain, whatever reorganisations fell between two adoptions; and the set of
\* blocks whose seals may be skipped is the newest pin's ancestry, no more.
PinsOneChain ==
    /\ TypeOK
    /\ \A p, q \in cp.pins : p \in Ancestry(q) \/ q \in Ancestry(p)
    /\ cp.linked # {} => cp.linked = Ancestry(NewestCheckpoint(cp))

\* A node of a checkpointed network mines nothing before the pinned block is
\* in its log: not while it syncs, not on a short branch that outweighs its
\* chain, not after a restart, and not because a status it read was stale.
JoinsBeforeMining ==
    faults = {} /\ log \cap Own # {} => baked \subseteq log

\* What the node serves while the latch is open: its active chain.
Served == IF broken THEN {} ELSE Ancestry(head) \ {Genesis}

\* "a restart can never replay a shorter durable prefix than we advertised":
\* every block gossiped as mined or served to a peer is in the log with all
\* its ancestors, so a restart at this moment recovers it.
AdvertisedDurable ==
    \A b \in told \cup Served : Ancestry(b) \subseteq log \cup {Genesis}

\* The same while the disk is sound, whatever the interleaving of the two
\* writers, lost races and restarts.
AdvertisedDurableSound ==
    faults = {} => AdvertisedDurable

\* The gate is open: switched on, pins matched, and peers none of which
\* claims more than GateLag blocks above the head.
Open ==
    /\ on
    /\ CheckpointSatisfied(cp, head)
    /\ claim \in Claims
    /\ claim - Height(head) <= GateLag

CanMine ==
    /\ Cardinality(told) < MaxMined
    /\ \E b \in Own \ Refused : Prev[b] = head /\ b \notin known

\* A node that may mine does: no stale status, stale template, abandoned or
\* refused block and no restart keeps it from extending its head for ever.
MinesEventually == <>[]Open => []<>(~CanMine \/ pc = "halted")
=============================================================================
