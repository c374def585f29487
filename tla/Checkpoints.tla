---------------------------- MODULE Checkpoints ----------------------------
(***************************************************************************)
(* Trusted checkpoints and the linkage proof: chain/src/blockchain.rs,     *)
(* `add_checkpoints` .. `checkpoint_satisfied`.                            *)
(*                                                                         *)
(* A block stands for its hash.  The block tree is a constant (a hash      *)
(* commits to its whole ancestry); what varies is the active head and the  *)
(* record the code keeps about pins:                                       *)
(*   pins     checkpoints (a pin (height, hash) is the block it names)     *)
(*   linked   linked_to_checkpoint: hashes proven to be ancestors of a pin *)
(*   pending  linkage_pending; linkage_next_height is Len(pending) and     *)
(*            linkage_prev its last entry, as in the code                  *)
(***************************************************************************)
EXTENDS Integers, Sequences, FiniteSets, Functions

CONSTANTS
    Blocks,         \* every block of the instance, genesis excluded
    Prev,           \* Prev[b]: the parent hash a block commits to
    Chain,          \* Chain[b]: the chain ending in b, genesis left out
    FinalityDepth   \* FINALITY_DEPTH

Genesis == 0

ASSUME TreeAssumption ==
    /\ Genesis \notin Blocks
    /\ Blocks \subseteq Nat /\ IsFiniteSet(Blocks)
    /\ Prev \in [Blocks -> Blocks \cup {Genesis}]
    /\ \A b \in Blocks : Prev[b] < b
    /\ Chain \in [Blocks \cup {Genesis} -> Seq(Blocks)]
    /\ Chain[Genesis] = <<>>
    /\ \A b \in Blocks : Chain[b] = Append(Chain[Prev[b]], b)
    /\ FinalityDepth \in Nat

\* The n-th entry of a chain has height n.
Height(b) == Len(Chain[b])

Ancestry(b) == {Genesis} \cup Range(Chain[b])

\* block_by_height on the active chain that ends in `head`
BlockAt(head, h) == IF h = 0 THEN Genesis ELSE Chain[head][h]

NoPins == [pins |-> {}, linked |-> {}, pending |-> <<>>]

CheckpointType(cp) ==
    /\ cp.pins \subseteq Blocks \cup {Genesis}
    /\ cp.linked \subseteq Blocks \cup {Genesis}
    /\ cp.pending \in Seq(Blocks \cup {Genesis})

----------------------------------------------------------------------------

\* newest_checkpoint: the pin of greatest height (there is one per height)
NewestCheckpoint(cp) ==
    CHOOSE p \in cp.pins : \A q \in cp.pins : Height(q) <= Height(p)

CheckpointLinkageReady(cp) == cp.pins = {} \/ cp.linked # {}

\* linkage_progress().0
LinkageNextHeight(cp) == Len(cp.pending)

\* install_checkpoint_linkage: `headers` must run from our own genesis,
\* linked, to the newest pin; an error leaves the proof as it was.
InstallCheckpointLinkage(cp, headers) ==
    LET pin == NewestCheckpoint(cp)
        n == Height(pin) + 1
        proves == /\ Len(headers) >= n
                  /\ headers[1] = Genesis
                  /\ \A i \in 2 .. n : headers[i] # Genesis /\ Prev[headers[i]] = headers[i - 1]
                  /\ headers[n] = pin
    IN  IF proves
        THEN [cp EXCEPT !.linked = {headers[i] : i \in 1 .. n}]
        ELSE cp

\* relink_checkpoint_from_local: the proof rebuilt from the active chain
RelinkCheckpointFromLocal(cp, head) ==
    IF cp.pins = {} \/ Height(head) < Height(NewestCheckpoint(cp))
    THEN cp
    ELSE InstallCheckpointLinkage(cp, <<Genesis>> \o Chain[head])

\* add_checkpoints: a pin replaces one of its height; partial progress stays
AddCheckpoints(cp, head, new) ==
    LET kept == {p \in cp.pins : \A q \in new : Height(q) # Height(p)}
    IN  RelinkCheckpointFromLocal(
            [cp EXCEPT !.pins = kept \cup new, !.linked = {}], head)

\* Mutant: any block of the pinned height will do
ReachesSomePin(cp, path) == path[Len(path)] \in Blocks

\* The proof ends in the pinned hash
ReachesPin(cp, path) == path[Len(path)] = NewestCheckpoint(cp)

\* extend_checkpoint_linkage: the streaming form, one batch of headers at a
\* time.  Err is ~ok; every error drops the partial progress.
ExtendCheckpointLinkage(cp, headers) ==
    LET pin  == NewestCheckpoint(cp)
        seed == IF cp.pending = <<>> THEN <<Genesis>> ELSE cp.pending
        atPin == {i \in 1 .. Len(headers) : Height(headers[i]) = Height(pin)}
        n    == IF atPin = {} THEN Len(headers)
                ELSE CHOOSE i \in atPin : \A j \in atPin : i <= j
        path == seed \o SubSeq(headers, 1, n)
        linksUp == \A i \in Len(seed) + 1 .. Len(path) :
                       /\ Height(path[i]) = i - 1
                       /\ path[i] # Genesis
                       /\ Prev[path[i]] = path[i - 1]
        reset == [cp EXCEPT !.pending = <<>>]
    IN  CASE cp.pins = {} \/ CheckpointLinkageReady(cp) -> [cp |-> cp, ok |-> TRUE]
          [] OTHER ->
             IF pin = Genesis
             THEN [cp |-> [reset EXCEPT !.linked = {Genesis}], ok |-> TRUE]
             ELSE IF ~linksUp \/ (atPin # {} /\ ~ReachesPin(cp, path))
             THEN [cp |-> reset, ok |-> FALSE]
             ELSE IF atPin # {}
             THEN [cp |-> [reset EXCEPT !.linked = Range(path)], ok |-> TRUE]
             ELSE [cp |-> [cp EXCEPT !.pending = path], ok |-> TRUE]

\* checkpoint_satisfied: the newest pin is on the active chain
CheckpointSatisfied(cp, head) ==
    cp.pins = {} \/ NewestCheckpoint(cp) \in Ancestry(head)

\* Mutant: the newest pin need not be matched
CanAdoptUnmatched(cp, head, depth) ==
    LET below == IF depth > FinalityDepth THEN depth ELSE FinalityDepth
    IN  /\ cp.pins # {}
        /\ Height(head) >= below
        /\ Height(head) - below > Height(NewestCheckpoint(cp))

\* adopt_local_finalized_checkpoint: pin our own history `depth` below the
\* tip, only when the newest pin is matched and the new one is newer.
CanAdopt(cp, head, depth) ==
    LET below == IF depth > FinalityDepth THEN depth ELSE FinalityDepth
    IN  /\ cp.pins # {}
        /\ CheckpointSatisfied(cp, head)
        /\ Height(head) >= below
        /\ Height(head) - below > Height(NewestCheckpoint(cp))

AdoptLocalFinalizedCheckpoint(cp, head, depth) ==
    LET below == IF depth > FinalityDepth THEN depth ELSE FinalityDepth
    IN  AddCheckpoints(cp, head, {BlockAt(head, Height(head) - below)})

\* Mutant: the pins bind only once the linkage is proven
PassesPinsLinked(cp, b) ==
    CheckpointLinkageReady(cp) => \A p \in cp.pins : Height(p) = Height(b) => p = b

\* The weak-subjectivity gate of validate_header_for: a block at a pinned
\* height must be the pin.
PassesPins(cp, b) == \A p \in cp.pins : Height(p) = Height(b) => p = b

=============================================================================
