--------------------------- MODULE ProducerProofs ---------------------------
(***************************************************************************)
(* The production thread beside imports, a failing disk and restarts, for  *)
(* every block tree, every set of pins and any number of turns: the pins   *)
(* hold and lie on one chain, nothing is mined before the pinned block is  *)
(* stored, and on a sound disk everything advertised is in the log.        *)
(***************************************************************************)
EXTENDS Producer, CheckpointProofs

Closed(S) == Genesis \in S /\ \A b \in S \ {Genesis} : Prev[b] \in S

Logged == log \cup {Genesis}

(* An anchor, in memory or on disk, is a proper descendant of the baked    *)
(* pin, so that re-adopting it never replaces that pin.                    *)
AnchorOK(x) ==
    x # None => /\ x \in All /\ baked # {}
                /\ \A k \in baked : k \in Ancestry(x) /\ Height(k) < Height(x)

StoreInv ==
    /\ known \subseteq All /\ Closed(known) /\ head \in known
    /\ log \subseteq Blocks /\ told \subseteq Own
    /\ pc \in {"top", "anchor", "persist", "gate", "vouch", "build", "grind", "commit", "halted"}
    /\ template \in All \cup {None} /\ ((template # None) <=> (pc = "grind"))
    /\ sealed \in Own \cup {None} /\ ((sealed # None) <=> (pc = "commit"))
    /\ template # None => template \in known
    /\ sealed # None => Prev[sealed] \in known

PinInv ==
    /\ baked \in PinSets
    /\ cp \in PinRecord /\ ProofSound(cp)
    /\ baked \subseteq cp.pins /\ (cp.pins # {} => baked # {})
    /\ \A p \in cp.pins : baked \subseteq Ancestry(p)
    /\ \A p, q \in cp.pins : p \in Ancestry(q) \/ q \in Ancestry(p)
    /\ AnchorOK(anchor) /\ AnchorOK(adopted)

(* Of the blocks of a pinned height, those that are not the pin were there *)
(* before it.                                                              *)
OldInv == \A p \in cp.pins : \A b \in known : Height(b) = Height(p) => b = p \/ b \in older

(* On a sound disk the log has everything in memory, and it has the baked  *)
(* pin once the thread is past the gate or has mined.                      *)
LogInv ==
    faults = {} =>
        /\ known \subseteq Logged /\ Closed(Logged) /\ told \subseteq log
        /\ pc \in {"build", "grind", "commit"} \/ log \cap Own # {} => baked \subseteq log

Inv == StoreInv /\ PinInv /\ OldInv /\ LogInv

-----------------------------------------------------------------------------
LEMMA ConstantFacts ==
    /\ Own \subseteq Blocks /\ None \notin All /\ Genesis \notin Blocks /\ Blocks \subseteq All
    /\ Work \in [All -> Nat] /\ All \subseteq Nat /\ IsFiniteSet(All)
    /\ \A s \in PinSets : s \subseteq Blocks /\ s \subseteq All
    /\ \A s \in PinSets : \A x, y \in s : x = y
<1>1. Own \subseteq Blocks /\ None \notin All /\ Genesis \notin Blocks /\ Blocks \subseteq All
  BY TreeAssumption, ProducerAssumption DEF All
<1>2. Work \in [All -> Nat] /\ All \subseteq Nat
  BY TreeAssumption, ProducerAssumption DEF All, Genesis
<1>3. IsFiniteSet(All)
  BY TreeAssumption, FS_AddElement DEF All
<1>4. \A s \in PinSets : s \subseteq Blocks /\ Cardinality(s) <= 1
  BY ProducerAssumption
<1>5. ASSUME NEW s \in PinSets, NEW x \in s, NEW y \in s, x # y PROVE FALSE
  <2>1. IsFiniteSet(s) /\ Cardinality(s) \in Nat /\ Cardinality(s) <= 1
    BY <1>4, TreeAssumption, FS_Subset, FS_CardinalityType
  <2>2. IsFiniteSet({x}) /\ Cardinality({x}) = 1
    BY FS_Singleton
  <2>3. Cardinality({x} \cup {y}) = 2
    BY <1>5, <2>2, FS_AddElement
  <2>4. {x} \cup {y} \in SUBSET s
    OBVIOUS
  <2>5. Cardinality({x} \cup {y}) <= Cardinality(s)
    BY <2>1, <2>4, FS_Subset
  <2> QED
    BY <2>1, <2>3, <2>5
<1> QED
  BY <1>1, <1>2, <1>3, <1>4, <1>5

(* heaviest_chain has an answer: some block outweighs all others.          *)
LEMMA BestIn ==
    ASSUME NEW S \in SUBSET All, S # {}
    PROVE  Best(S) \in S
<1> DEFINE rank == [b \in S |-> Work[b]]
<1>1. IsFiniteSet(S) /\ rank \in [S -> Nat] /\ S \in SUBSET Nat
  BY ConstantFacts, FS_Subset
<1>2. PICK h \in S : \A x \in S : rank[x] <= rank[h]
  BY <1>1, GreatestRank
<1> DEFINE T == {x \in S : Work[x] = Work[h]}
<1>3. T \in SUBSET Nat /\ T # {}
  BY <1>1, <1>2
<1>4. PICK m \in T : \A k \in T : m <= k
  BY <1>3, LeastNat
<1>5. ASSUME NEW x \in S \ {m} PROVE Better(m, x)
  <2>1. Work[x] \in Nat /\ Work[m] \in Nat /\ Work[x] <= Work[m] /\ x \in Nat /\ m \in Nat
    BY <1>1, <1>2, <1>4
  <2>2. Work[x] = Work[m] => m <= x
    BY <1>4
  <2> QED
    BY <2>1, <2>2 DEF Better
<1>6. \E b \in S : \A x \in S \ {b} : Better(b, x)
  BY <1>4, <1>5
<1> QED
  BY <1>6 DEF Best

LEMMA BootFacts ==
    ASSUME StoreInv
    PROVE  BootHead \in All /\ Ancestry(BootHead) \subseteq Logged
<1> DEFINE S == {b \in log \cup {Genesis} : Ancestry(b) \subseteq log \cup {Genesis}}
<1>1. Ancestry(Genesis) = {Genesis}
  <2>1. \A i \in 1..0 : FALSE
    OBVIOUS
  <2> QED
    BY <2>1, ChainType, AncestryIs DEF All
<1>2. S \in SUBSET All /\ S # {}
  BY <1>1 DEF StoreInv, All
<1>3. Best(S) \in S
  BY <1>2, BestIn
<1> QED
  BY <1>2, <1>3 DEF BootHead, Recovered, Logged

(* Two pins, and the newest one above the other.                           *)
LEMMA BelowNewest ==
    ASSUME PinInv, NEW q \in cp.pins
    PROVE  q \in Ancestry(NewestCheckpoint(cp))
<1> DEFINE n == NewestCheckpoint(cp)
<1>1. n \in cp.pins /\ n \in All /\ Height(q) <= Height(n)
  BY NewestFacts DEF PinInv
<1>2. q \in All
  BY DEF PinInv, PinRecord
<1>3. CASE n \in Ancestry(q)
  <2>1. Height(n) \in 0..Height(q) /\ BlockAt(q, Height(n)) = n
    BY <1>2, <1>3, AncestorFacts
  <2>2. q \in Ancestry(q)
    BY <1>2, AncestryIs
  <2>3. BlockAt(q, Height(q)) = q /\ Height(q) \in 0..Height(q)
    BY <1>2, <2>2, AncestorFacts
  <2>4. Height(n) = Height(q)
    BY <1>1, <2>1, <2>3
  <2>5. n = q
    BY <2>1, <2>3, <2>4
  <2> QED
    BY <2>2, <2>5
<1> QED
  BY <1>1, <1>3 DEF PinInv

(* A new anchor is newer than every pin and a descendant of all of them.   *)
LEMMA Adopted ==
    ASSUME StoreInv, PinInv, CanAdopt(cp, head, AnchorDepth)
    PROVE  LET r == AdoptLocalFinalizedCheckpoint(cp, head, AnchorDepth)
               x == NewestCheckpoint(r)
           IN  /\ r \in PinRecord /\ ProofSound(r) /\ r.pins = cp.pins \cup {x}
               /\ AnchorOK(x) /\ x \in All /\ \A q \in cp.pins : q \in Ancestry(x)
<1> DEFINE below == IF AnchorDepth > FinalityDepth THEN AnchorDepth ELSE FinalityDepth
           h == Height(head) - below
           y == BlockAt(head, h)
           n == NewestCheckpoint(cp)
           r == AddCheckpoints(cp, head, {y})
<1>1. AdoptLocalFinalizedCheckpoint(cp, head, AnchorDepth) = r
  BY DEF AdoptLocalFinalizedCheckpoint
<1>2. cp.pins # {} /\ n \in Ancestry(head) /\ Height(head) >= below /\ h > Height(n)
  BY DEF CanAdopt, CheckpointSatisfied
<1>3. below \in Nat
  BY TreeAssumption, ProducerAssumption
<1>4. head \in All /\ Height(head) \in Nat /\ n \in All /\ Height(n) \in Nat
  BY <1>2, ChainType, NewestFacts DEF StoreInv, PinInv
<1> HIDE DEF below
<1>5. h \in 0..Height(head)
  BY <1>2, <1>3, <1>4
<1>6. y \in Ancestry(head) /\ y \in All /\ Height(y) = h
  BY <1>4, <1>5, BlockAtFacts
<1> HIDE DEF y, h
<1>7. n \in Ancestry(y)
  <2>1. Height(n) <= Height(y)
    BY <1>2, <1>4, <1>5, <1>6
  <2> QED
    BY <1>2, <1>4, <1>6, <2>1, AncestorFacts
<1>8. ASSUME NEW q \in cp.pins
      PROVE  q \in Ancestry(y) /\ Height(q) < Height(y) /\ Height(q) # Height(y)
  <2>1. q \in Ancestry(n) /\ q \in All /\ Height(q) \in Nat /\ Height(q) <= Height(n)
    BY BelowNewest, NewestFacts, ChainType DEF PinInv, PinRecord
  <2>2. q \in Ancestry(y)
    BY <1>6, <1>7, <2>1, AncestorFacts
  <2> QED
    BY <1>2, <1>4, <1>5, <1>6, <2>1, <2>2
<1>9. /\ r \in PinRecord /\ ProofSound(r)
      /\ r.pins = {p \in cp.pins : \A q \in {y} : Height(q) # Height(p)} \cup {y}
  BY <1>4, <1>6, AddFacts DEF PinInv
<1>10. r.pins = cp.pins \cup {y}
  BY <1>8, <1>9
<1>11. NewestCheckpoint(r) = y
  <2>1. NewestCheckpoint(r) \in cp.pins \cup {y} /\ Height(y) <= Height(NewestCheckpoint(r))
    BY <1>9, <1>10, NewestFacts
  <2>2. ASSUME NEW q \in cp.pins, Height(y) <= Height(q) PROVE FALSE
    <3>1. Height(q) < Height(y) /\ Height(y) \in Nat /\ Height(q) \in Nat
      BY <1>6, <1>8, ChainType DEF PinInv, PinRecord
    <3> QED
      BY <2>2, <3>1
  <2> QED
    BY <2>1, <2>2
<1>12. AnchorOK(y)
  BY <1>2, <1>6, <1>8 DEF AnchorOK, PinInv
<1> QED
  BY <1>1, <1>6, <1>8, <1>9, <1>10, <1>11, <1>12

(* The pins of a restarted node: the baked one, and the anchor above it.   *)
LEMMA BootPinFacts ==
    ASSUME StoreInv, PinInv
    PROVE  /\ BootPins \in PinRecord /\ ProofSound(BootPins)
           /\ BootPins.pins = baked \/ (anchor # None /\ BootPins.pins = baked \cup {anchor})
<1> DEFINE plain == AddCheckpoints(NoPins, BootHead, baked)
           full == AddCheckpoints(plain, BootHead, {anchor})
<1>1. baked \in SUBSET All /\ BootHead \in All
  BY ConstantFacts, BootFacts DEF PinInv
<1>2. NoPins \in PinRecord /\ NoPins.pins = {}
  BY EmptySeq DEF NoPins, PinRecord
<1>6. /\ plain \in PinRecord /\ ProofSound(plain)
      /\ plain.pins = {p \in NoPins.pins : \A q \in baked : Height(q) # Height(p)} \cup baked
  <2>1. ASSUME NEW c \in PinRecord, NEW b \in All, NEW new \in SUBSET All
        PROVE  /\ AddCheckpoints(c, b, new) \in PinRecord /\ ProofSound(AddCheckpoints(c, b, new))
               /\ AddCheckpoints(c, b, new).pins
                    = {p \in c.pins : \A q \in new : Height(q) # Height(p)} \cup new
    BY AddFacts
  <2> QED
    BY <1>1, <1>2, <2>1
<1>3. plain \in PinRecord /\ ProofSound(plain) /\ plain.pins = baked
  BY <1>2, <1>6
<1> HIDE DEF plain
<1>4. BootPins = IF anchor # None /\ anchor \in Ancestry(BootHead) THEN full ELSE plain
  BY DEF BootPins, plain
<1>5. ASSUME anchor # None
      PROVE  full \in PinRecord /\ ProofSound(full) /\ full.pins = baked \cup {anchor}
  <2>1. anchor \in All /\ \A k \in baked : Height(k) < Height(anchor)
    BY <1>5 DEF PinInv, AnchorOK
  <2>2. /\ full \in PinRecord /\ ProofSound(full)
        /\ full.pins = {p \in plain.pins : \A q \in {anchor} : Height(q) # Height(p)} \cup {anchor}
    BY <1>1, <1>3, <2>1, AddFacts
  <2>3. \A k \in baked : Height(anchor) # Height(k)
    <3> SUFFICES ASSUME NEW k \in baked PROVE Height(anchor) # Height(k)
      OBVIOUS
    <3>1. Height(k) \in Nat /\ Height(anchor) \in Nat /\ Height(k) < Height(anchor)
      BY <1>1, <2>1, ChainType
    <3> QED
      BY <3>1
  <2> QED
    BY <1>3, <2>2, <2>3
<1> QED
  BY <1>3, <1>4, <1>5

-----------------------------------------------------------------------------
LEMMA InitInv == Init => Inv
<1> SUFFICES ASSUME Init PROVE Inv
  OBVIOUS
<1>1. baked \in PinSets /\ baked \subseteq Blocks /\ baked \subseteq All /\ \A x, y \in baked : x = y
  BY ConstantFacts DEF Init
<1>2. cp \in PinRecord /\ cp.pins = baked /\ cp.linked = {}
  BY <1>1, EmptySeq DEF Init, NoPins, PinRecord
<1>3. StoreInv
  BY ConstantFacts DEF Init, StoreInv, Closed, All
<1>4. PinInv
  <2>1. \A p \in baked : p \in Ancestry(p)
    BY <1>1, AncestryIs
  <2> QED
    BY <1>1, <1>2, <2>1 DEF Init, PinInv, ProofSound, AnchorOK
<1>5. OldInv
  <2>1. \A p \in baked : Height(p) # 0
    <3> SUFFICES ASSUME NEW p \in baked PROVE Height(p) # 0
      OBVIOUS
    <3>1. Height(p) = Height(Prev[p]) + 1 /\ Height(Prev[p]) \in Nat
      BY <1>1, ChainStep
    <3> QED
      BY <3>1
  <2>2. Height(Genesis) = 0
    BY ChainType
  <2> QED
    BY <1>2, <2>1, <2>2 DEF Init, OldInv
<1>6. LogInv
  BY DEF Init, LogInv, Logged, Closed
<1> QED
  BY <1>3, <1>4, <1>5, <1>6 DEF Inv

(* A step that leaves chain, log and pins alone.                           *)
LEMMA Quiet ==
    ASSUME Inv, UNCHANGED <<known, head, cp, older, log, baked, anchor, told, faults>>,
           AnchorOK(adopted)', StoreInv',
           pc' \in {"build", "grind", "commit"} => pc \in {"build", "grind", "commit"}
    PROVE  Inv'
<1>1. PinInv'
  BY DEF Inv, PinInv, ProofSound, AnchorOK, NewestCheckpoint
<1>2. OldInv'
  BY DEF Inv, OldInv
<1>3. LogInv'
  BY DEF Inv, LogInv, Logged, Closed
<1> QED
  BY <1>1, <1>2, <1>3 DEF Inv

(* A block whose parent is known and that no pin contradicts is stored.    *)
LEMMA Stores ==
    ASSUME Inv, NEW b \in Blocks, Prev[b] \in known, PassesPins(cp, b), Store(b),
           UNCHANGED <<cp, older>>
    PROVE  /\ known' \subseteq All /\ Closed(known') /\ head' \in known' /\ known \subseteq known'
           /\ OldInv'
<1>1. known \subseteq All /\ Closed(known) /\ head \in known
  BY DEF Inv, StoreInv
<1>2. known' = known \cup {b} /\ head' \in {b, head}
  BY DEF Store
<1>3. Closed(known')
  BY <1>1, <1>2 DEF Closed
<1>4. OldInv'
  BY <1>2 DEF Inv, OldInv, PassesPins
<1> QED
  BY <1>1, <1>2, <1>3, <1>4, ConstantFacts

LEMMA ThreadStep == Inv /\ Thread => Inv'
<1> SUFFICES ASSUME Inv, Thread PROVE Inv'
  OBVIOUS
<1> USE DEF netVars, chainVars, locals
<1>1. CASE Tick
  <2>1. StoreInv' /\ pc' \in {"anchor", "gate"}
    BY <1>1 DEF Tick, Inv, StoreInv, Closed
  <2>2. AnchorOK(adopted)'
    BY <1>1 DEF Tick, Inv, PinInv, AnchorOK
  <2> QED
    BY <1>1, <2>1, <2>2, Quiet DEF Tick
<1>2. CASE Adopt
  <2>1. StoreInv' /\ pc' \in {"persist", "gate"}
    BY <1>2 DEF Adopt, Inv, StoreInv, Closed
  <2>2. CASE ~CanAdopt(cp, head, AnchorDepth)
    <3>1. AnchorOK(adopted)'
      BY <1>2, <2>2 DEF Adopt, Inv, PinInv, AnchorOK
    <3> QED
      BY <1>2, <2>1, <2>2, <3>1, Quiet DEF Adopt
  <2>3. CASE CanAdopt(cp, head, AnchorDepth)
    <3> DEFINE x == NewestCheckpoint(cp')
    <3>1. /\ cp' = AdoptLocalFinalizedCheckpoint(cp, head, AnchorDepth)
          /\ older' = older \cup SameHeight(known, x) /\ adopted' = x
          /\ UNCHANGED <<known, head, log, baked, anchor, told, faults>>
      BY <1>2, <2>3 DEF Adopt
    <3>2. /\ cp' \in PinRecord /\ ProofSound(cp') /\ cp'.pins = cp.pins \cup {x}
          /\ AnchorOK(x) /\ x \in All /\ \A q \in cp.pins : q \in Ancestry(x)
      BY <2>3, <3>1, Adopted DEF Inv
    <3>3. x \in Ancestry(x) /\ x # None
      BY <3>2, AncestryIs, ConstantFacts
    <3> HIDE DEF x
    <3>4. PinInv'
      <4>1. AnchorOK(adopted)' /\ AnchorOK(anchor)'
        BY <3>1, <3>2 DEF AnchorOK, Inv, PinInv
      <4>2. \A p \in cp'.pins : baked' \subseteq Ancestry(p)
        BY <3>1, <3>2, <3>3 DEF AnchorOK, Inv, PinInv
      <4>3. baked # {} /\ baked \in PinSets /\ baked \subseteq cp.pins
        BY <3>2, <3>3 DEF AnchorOK, Inv, PinInv
      <4>4. \A p, q \in cp'.pins : p \in Ancestry(q) \/ q \in Ancestry(p)
        BY <3>2, <3>3 DEF Inv, PinInv
      <4>5. ProofSound(cp)'
        BY <3>2 DEF ProofSound, NewestCheckpoint
      <4> QED
        BY <3>1, <3>2, <4>1, <4>2, <4>3, <4>4, <4>5 DEF PinInv
    <3>5. OldInv'
      BY <3>1, <3>2 DEF Inv, OldInv, SameHeight
    <3>6. LogInv'
      BY <2>1, <3>1 DEF Inv, LogInv, Logged, Closed
    <3> QED
      BY <2>1, <3>4, <3>5, <3>6 DEF Inv
  <2> QED
    BY <2>2, <2>3
<1>3. CASE PersistAnchor
  <2>1. StoreInv' /\ pc' = "gate"
    BY <1>3 DEF PersistAnchor, Inv, StoreInv, Closed
  <2>2. PinInv'
    BY <1>3 DEF PersistAnchor, Inv, PinInv, ProofSound, AnchorOK, NewestCheckpoint
  <2>3. OldInv' /\ LogInv'
    BY <1>3, <2>1 DEF PersistAnchor, Inv, OldInv, LogInv, Logged, Closed
  <2> QED
    BY <2>1, <2>2, <2>3 DEF Inv
<1>4. CASE ReadStatus
  <2>1. StoreInv' /\ pc' \in {"vouch", "top"}
    BY <1>4 DEF ReadStatus, Inv, StoreInv, Closed
  <2>2. AnchorOK(adopted)'
    BY <1>4 DEF ReadStatus, Inv, PinInv, AnchorOK
  <2> QED
    BY <1>4, <2>1, <2>2, Quiet DEF ReadStatus
<1>5. ASSUME NEW young \in BOOLEAN, Decide(young) PROVE Inv'
  <2>1. StoreInv' /\ pc' \in {"build", "top"}
    BY <1>5 DEF Decide, Inv, StoreInv, Closed
  <2>2. PinInv' /\ OldInv'
    BY <1>5 DEF Decide, Inv, PinInv, OldInv, ProofSound, AnchorOK, NewestCheckpoint
  <2>3. ASSUME faults = {}, pc' = "build" PROVE baked \subseteq log
    <3>1. CheckpointSatisfied(cp, head)
      BY <1>5, <2>3 DEF Decide, DecideMinePhase
    <3>2. CASE cp.pins = {}
      BY <3>2 DEF Inv, PinInv
    <3>3. CASE cp.pins # {}
      <4> DEFINE n == NewestCheckpoint(cp)
      <4>1. n \in Ancestry(head) /\ n \in cp.pins
        BY <3>1, <3>3, NewestFacts DEF CheckpointSatisfied, Inv, PinInv
      <4>2. head \in All /\ known \subseteq All /\ Closed(known) /\ head \in known
        BY DEF Inv, StoreInv
      <4>3. Ancestry(n) \subseteq Ancestry(head) /\ Ancestry(head) \subseteq known
        BY <4>1, <4>2, AncestorFacts, ClosedAncestry DEF Closed
      <4>4. baked \subseteq Ancestry(n) /\ baked \subseteq Blocks
        BY <4>1, ConstantFacts DEF Inv, PinInv
      <4>5. known \subseteq log \cup {Genesis}
        BY <2>3 DEF Inv, LogInv, Logged
      <4> QED
        BY <4>3, <4>4, <4>5, ConstantFacts
    <3> QED
      BY <3>2, <3>3
  <2>4. LogInv'
    BY <1>5, <2>1, <2>3 DEF Decide, Inv, LogInv, Logged, Closed
  <2> QED
    BY <2>1, <2>2, <2>4 DEF Inv
<1>6. CASE Build
  <2>1. StoreInv' /\ pc = "build"
    BY <1>6, ConstantFacts DEF Build, Inv, StoreInv, Closed
  <2>2. AnchorOK(adopted)'
    BY <1>6 DEF Build, Inv, PinInv, AnchorOK
  <2> QED
    BY <1>6, <2>1, <2>2, Quiet DEF Build
<1>7. CASE Abandon("tip")
  <2>1. StoreInv' /\ pc' = "top"
    BY <1>7 DEF Abandon, Inv, StoreInv, Closed
  <2>2. AnchorOK(adopted)'
    BY <1>7 DEF Abandon, Inv, PinInv, AnchorOK
  <2> QED
    BY <1>7, <2>1, <2>2, Quiet DEF Abandon
<1>8. ASSUME pc = "commit", Commits(sealed), Store(sealed), sealed' = None, pc' \in {"top", "halted"},
             UNCHANGED <<cp, older, baked, anchor, adopted, template, faults>>,
             log' \in {log, log \cup {sealed}}, told' \in {told, told \cup {sealed}},
             faults = {} => log' = log \cup {sealed}
      PROVE  Inv'
  <2>1. sealed \in Own /\ sealed \in Blocks /\ Prev[sealed] \in known /\ PassesPins(cp, sealed)
    BY <1>8, ConstantFacts DEF Inv, StoreInv, Commits
  <2>2. /\ known' \subseteq All /\ Closed(known') /\ head' \in known' /\ known \subseteq known'
        /\ OldInv'
    BY <1>8, <2>1, Stores
  <2>3. StoreInv'
    BY <1>8, <2>1, <2>2 DEF Inv, StoreInv, Closed
  <2>4. PinInv'
    BY <1>8 DEF Inv, PinInv, ProofSound, AnchorOK, NewestCheckpoint
  <2>5. ASSUME faults = {} PROVE LogInv'
    <3>1. /\ known \subseteq Logged /\ Closed(Logged) /\ told \subseteq log /\ baked \subseteq log
      BY <1>8, <2>5 DEF Inv, LogInv
    <3>2. log' = log \cup {sealed} /\ known' = known \cup {sealed} /\ baked' = baked
      BY <1>8, <2>5 DEF Store
    <3>3. known' \subseteq Logged'
      BY <3>1, <3>2 DEF Logged
    <3>4. Closed(Logged')
      BY <2>1, <3>1, <3>2 DEF Logged, Closed
    <3> QED
      BY <1>8, <3>1, <3>2, <3>3, <3>4 DEF LogInv, Logged, Closed
  <2>6. LogInv'
    BY <1>8, <2>5 DEF LogInv
  <2> QED
    BY <2>2, <2>3, <2>4, <2>6 DEF Inv
<1>9. CASE CommitMined
  BY <1>8, <1>9 DEF CommitMined
<1>10. CASE AppendFails
  BY <1>8, <1>10 DEF AppendFails
<1>11. CASE CommitRefused
  <2>1. StoreInv' /\ pc' = "top"
    BY <1>11 DEF CommitRefused, Inv, StoreInv, Closed
  <2>2. AnchorOK(adopted)'
    BY <1>11 DEF CommitRefused, Inv, PinInv, AnchorOK
  <2> QED
    BY <1>11, <2>1, <2>2, Quiet DEF CommitRefused
<1> QED
  BY <1>1, <1>2, <1>3, <1>4, <1>5, <1>6, <1>7, <1>9, <1>10, <1>11 DEF Thread

LEMMA RestartStep == Inv /\ Restart => Inv'
<1> SUFFICES ASSUME Inv, Restart PROVE Inv'
  OBVIOUS
<1>1. BootHead \in All /\ Ancestry(BootHead) \subseteq Logged
  BY BootFacts DEF Inv
<1>2. /\ BootPins \in PinRecord /\ ProofSound(BootPins)
      /\ BootPins.pins = baked \/ (anchor # None /\ BootPins.pins = baked \cup {anchor})
  BY BootPinFacts DEF Inv
<1>3. /\ head' = BootHead /\ known' = Ancestry(BootHead) /\ cp' = BootPins
      /\ older' = UNION {SameHeight(Ancestry(BootHead), p) : p \in cp'.pins}
      /\ pc' = "top" /\ adopted' = None /\ template' = None /\ sealed' = None
      /\ UNCHANGED <<log, baked, anchor, told, faults>>
  BY DEF Restart
<1>4. /\ Ancestry(BootHead) \subseteq All /\ BootHead \in Ancestry(BootHead)
      /\ Closed(Ancestry(BootHead))
  <2>1. /\ Ancestry(BootHead) \subseteq All /\ BootHead \in Ancestry(BootHead)
        /\ Genesis \in Ancestry(BootHead)
    BY <1>1, AncestryIs
  <2>2. ASSUME NEW b \in Ancestry(BootHead) \ {Genesis} PROVE Prev[b] \in Ancestry(BootHead)
    <3>1. b \in Blocks /\ Ancestry(b) \subseteq Ancestry(BootHead)
      BY <1>1, <2>1, <2>2, AncestorFacts DEF All
    <3>2. Prev[b] \in Ancestry(Prev[b])
      BY <3>1, ChainStep, AncestryIs
    <3> QED
      BY <3>1, <3>2, PrevAncestry
  <2> QED
    BY <2>1, <2>2 DEF Closed
<1>5. StoreInv'
  BY <1>3, <1>4 DEF Inv, StoreInv, Closed
<1>6. PinInv'
  <2>1. AnchorOK(anchor)' /\ AnchorOK(adopted)'
    BY <1>3 DEF Inv, PinInv, AnchorOK
  <2>2. baked \in PinSets /\ baked \subseteq All /\ \A x, y \in baked : x = y
    BY ConstantFacts DEF Inv, PinInv
  <2>3. \A p \in baked : p \in Ancestry(p)
    BY <2>2, AncestryIs
  <2>4. anchor # None => /\ anchor \in Ancestry(anchor) /\ baked # {}
                         /\ \A k \in baked : k \in Ancestry(anchor)
    BY AncestryIs DEF Inv, PinInv, AnchorOK
  <2>5. \A p \in cp'.pins : baked \subseteq Ancestry(p)
    BY <1>2, <1>3, <2>2, <2>3, <2>4
  <2>6. \A p, q \in cp'.pins : p \in Ancestry(q) \/ q \in Ancestry(p)
    BY <1>2, <1>3, <2>2, <2>3, <2>4
  <2>7. baked \subseteq cp'.pins /\ (cp'.pins # {} => baked # {})
    BY <1>2, <1>3, <2>4
  <2>8. ProofSound(cp)'
    BY <1>2, <1>3 DEF ProofSound, NewestCheckpoint
  <2> QED
    BY <1>2, <1>3, <2>1, <2>2, <2>5, <2>6, <2>7, <2>8 DEF PinInv
<1>7. OldInv'
  BY <1>3 DEF OldInv, SameHeight
<1>8. LogInv'
  BY <1>1, <1>3 DEF Inv, LogInv, Logged, Closed
<1> QED
  BY <1>5, <1>6, <1>7, <1>8 DEF Inv

LEMMA NextStep == Inv /\ [Next]_vars => Inv'
<1> SUFFICES ASSUME Inv, [Next]_vars PROVE Inv'
  OBVIOUS
<1> USE DEF netVars, chainVars, locals
<1>1. CASE Thread
  BY <1>1, ThreadStep
<1>2. ASSUME NEW b \in Own, Seal(b) PROVE Inv'
  <2>1. StoreInv' /\ pc = "grind"
    <3>1. /\ pc = "grind" /\ Prev[b] = template /\ sealed' = b /\ template' = None /\ pc' = "commit"
          /\ UNCHANGED <<known, head, log, told>>
      BY <1>2 DEF Seal
    <3>2. b # None /\ Prev[b] \in known
      BY <3>1, ConstantFacts DEF Inv, StoreInv
    <3> QED
      BY <3>1, <3>2 DEF Inv, StoreInv, Closed
  <2>2. AnchorOK(adopted)'
    BY <1>2 DEF Seal, Inv, PinInv, AnchorOK
  <2> QED
    BY <1>2, <2>1, <2>2, Quiet DEF Seal
<1>3. CASE Abandon("eased")
  <2>1. StoreInv' /\ pc' = "top"
    BY <1>3 DEF Abandon, Inv, StoreInv, Closed
  <2>2. AnchorOK(adopted)'
    BY <1>3 DEF Abandon, Inv, PinInv, AnchorOK
  <2> QED
    BY <1>3, <2>1, <2>2, Quiet DEF Abandon
<1>4. ASSUME NEW b \in Blocks, b \in Arrivals, Store(b),
             log' \in {log, log \cup {b}}, faults = {} => log' = log \cup {b},
             UNCHANGED <<cp, older, baked, anchor, pc, adopted, template, sealed, told, faults>>
      PROVE  Inv'
  <2>1. Prev[b] \in known /\ PassesPins(cp, b) /\ b \in (Blocks \ Own) \cup told
    BY <1>4 DEF Arrivals
  <2>2. /\ known' \subseteq All /\ Closed(known') /\ head' \in known' /\ known \subseteq known'
        /\ OldInv'
    BY <1>4, <2>1, Stores
  <2>3. StoreInv'
    BY <1>4, <2>2 DEF Inv, StoreInv, Closed
  <2>4. PinInv'
    BY <1>4 DEF Inv, PinInv, ProofSound, AnchorOK, NewestCheckpoint
  <2>5. ASSUME faults = {} PROVE LogInv'
    <3>1. /\ known \subseteq Logged /\ Closed(Logged) /\ told \subseteq log
          /\ pc \in {"build", "grind", "commit"} \/ log \cap Own # {} => baked \subseteq log
      BY <2>5 DEF Inv, LogInv
    <3>2. log' = log \cup {b} /\ known' = known \cup {b} /\ baked' = baked /\ told' = told /\ pc' = pc
      BY <1>4, <2>5 DEF Store
    <3>3. known' \subseteq Logged'
      BY <3>1, <3>2 DEF Logged
    <3>4. Closed(Logged')
      BY <2>1, <3>1, <3>2 DEF Logged, Closed
    <3>5. log' \cap Own # {} => log \cap Own # {}
      BY <2>1, <3>1, <3>2
    <3> QED
      BY <3>1, <3>2, <3>3, <3>4, <3>5 DEF LogInv, Logged, Closed
  <2>6. LogInv'
    BY <1>4, <2>5 DEF LogInv
  <2> QED
    BY <2>2, <2>3, <2>4, <2>6 DEF Inv
<1>5. ASSUME NEW b \in Blocks, PeerImport(b) PROVE Inv'
  BY <1>4, <1>5 DEF PeerImport
<1>6. ASSUME NEW b \in Blocks, PeerImportFails(b) PROVE Inv'
  BY <1>4, <1>6 DEF PeerImportFails
<1>7. ASSUME UNCHANGED <<chainVars, pc, locals, told, faults>> PROVE Inv'
  <2>1. StoreInv'
    BY <1>7 DEF Inv, StoreInv, Closed
  <2>2. AnchorOK(adopted)'
    BY <1>7 DEF Inv, PinInv, AnchorOK
  <2> QED
    BY <1>7, <2>1, <2>2, Quiet
<1>8. CASE Publish
  BY <1>7, <1>8 DEF Publish
<1>9. ASSUME NEW c \in Claims \cup {None, Unknown}, PeersClaim(c) PROVE Inv'
  BY <1>7, <1>9 DEF PeersClaim
<1>10. CASE Switch
  BY <1>7, <1>10 DEF Switch
<1>11. CASE Restart
  BY <1>11, RestartStep
<1>12. CASE UNCHANGED vars
  BY <1>7, <1>12 DEF vars
<1> QED
  BY <1>1, <1>2, <1>3, <1>5, <1>6, <1>8, <1>9, <1>10, <1>11, <1>12 DEF Next

LEMMA Invariance == Spec => []Inv
<1> QED
  BY InitInv, NextStep, PTL DEF Spec

-----------------------------------------------------------------------------
(* For every tree and any number of adoptions, imports and restarts: the   *)
(* active chain leaves a pin only onto a block of the pinned height that   *)
(* was stored before the pin was laid.                                     *)
THEOREM PinsHold == Spec => []PinHeld
<1>1. Inv => PinHeld
  <2> SUFFICES ASSUME Inv, NEW p \in cp.pins, ~(Height(head) < Height(p))
               PROVE  p \in Ancestry(head) \/ BlockAt(head, Height(p)) \in older
    BY DEF PinHeld
  <2>1. head \in All /\ head \in known /\ known \subseteq All /\ Closed(known) /\ p \in All
    BY DEF Inv, StoreInv, PinInv, PinRecord
  <2>2. Height(p) \in 0..Height(head)
    BY <2>1, ChainType
  <2>3. BlockAt(head, Height(p)) \in Ancestry(head) /\ Height(BlockAt(head, Height(p))) = Height(p)
    BY <2>1, <2>2, BlockAtFacts
  <2>4. Ancestry(head) \subseteq known
    BY <2>1, ClosedAncestry DEF Closed
  <2> QED
    BY <2>3, <2>4 DEF Inv, OldInv
<1> QED
  BY <1>1, Invariance, PTL

(* The pins of a node lie on one chain and the linkage proof is the        *)
(* ancestry of the newest of them, whatever reorganisations and restarts   *)
(* fell between two adoptions.                                             *)
THEOREM PinsAreOneChain == Spec => []PinsOneChain
<1>1. Inv => PinsOneChain
  <2> SUFFICES ASSUME Inv PROVE PinsOneChain
    OBVIOUS
  <2>1. CheckpointType(cp)
    BY DEF Inv, PinInv, PinRecord, CheckpointType, All
  <2>2. TypeOK
    BY <2>1 DEF Inv, StoreInv, TypeOK, All
  <2> QED
    BY <2>2 DEF Inv, PinInv, ProofSound, PinsOneChain
<1> QED
  BY <1>1, Invariance, PTL

(* A node of a checkpointed network has the pinned block in its log before *)
(* a block of its own.                                                     *)
THEOREM JoinedBeforeMining == Spec => []JoinsBeforeMining
<1>1. Inv => JoinsBeforeMining
  BY DEF Inv, LogInv, JoinsBeforeMining
<1> QED
  BY <1>1, Invariance, PTL

(* On a sound disk every block gossiped as mined or served to a peer is in *)
(* the log with all its ancestors.                                         *)
THEOREM AdvertisedIsDurable == Spec => []AdvertisedDurableSound
<1>1. Inv => AdvertisedDurableSound
  <2> SUFFICES ASSUME Inv, faults = {}, NEW b \in told \cup Served
               PROVE  Ancestry(b) \subseteq log \cup {Genesis}
    BY DEF AdvertisedDurableSound, AdvertisedDurable
  <2>1. /\ known \subseteq Logged /\ Closed(Logged) /\ told \subseteq log
    BY DEF Inv, LogInv
  <2>2. Logged \in SUBSET All
    BY DEF Inv, StoreInv, Logged, All
  <2>3. head \in known /\ known \subseteq All /\ Closed(known)
    BY DEF Inv, StoreInv
  <2>4. Ancestry(head) \subseteq known
    BY <2>3, ClosedAncestry DEF Closed
  <2>5. b \in Logged
    BY <2>1, <2>4 DEF Served, Logged
  <2> QED
    BY <2>1, <2>2, <2>5, ClosedAncestry DEF Closed, Logged
<1> QED
  BY <1>1, Invariance, PTL
=============================================================================
