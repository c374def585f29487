-------------------------- MODULE CheckpointProofs --------------------------
(***************************************************************************)
(* What the operators of Checkpoints do, for every block tree: facts about *)
(* chains and their prefixes, and that each operation on the pins leaves a *)
(* linkage proof that is the ancestry of the newest pin.                   *)
(***************************************************************************)
EXTENDS Checkpoints, FiniteSetTheorems, TLAPS

(* What the blocks, locators and queues below need of sequences.           *)

(* A sequence over a set is one over every larger set.                     *)
LEMMA SeqMonotonic ==
    ASSUME NEW S, NEW T, NEW seq \in Seq(S), S \subseteq T
    PROVE  seq \in Seq(T)
  OBVIOUS

(* What a sequence over a set holds belongs to the set.                    *)
LEMMA ElementOfSeq ==
    ASSUME NEW S, NEW seq \in Seq(S), NEW n \in 1..Len(seq)
    PROVE  seq[n] \in S
  OBVIOUS

(* The empty sequence has length zero, and no other has.                   *)
LEMMA EmptySeq ==
    ASSUME NEW S
    PROVE  /\ <<>> \in Seq(S) /\ Len(<<>>) = 0
           /\ \A seq \in Seq(S) : seq # <<>> => Len(seq) \in Nat \ {0}
  OBVIOUS

(* A sequence is a function on the positions up to its length.             *)
LEMMA LenProperties ==
    ASSUME NEW S, NEW seq \in Seq(S)
    PROVE  /\ Len(seq) \in Nat /\ seq \in [1..Len(seq) -> S]
           /\ DOMAIN seq = 1..Len(seq)
  OBVIOUS

(* A concatenation holds the one sequence and then the other.              *)
LEMMA ConcatProperties ==
    ASSUME NEW S, NEW s1 \in Seq(S), NEW s2 \in Seq(S)
    PROVE  /\ s1 \o s2 \in Seq(S)
           /\ Len(s1 \o s2) = Len(s1) + Len(s2)
           /\ \A i \in 1..Len(s1) + Len(s2) :
                 (s1 \o s2)[i] = IF i <= Len(s1) THEN s1[i] ELSE s2[i - Len(s1)]
  OBVIOUS

(* A slice holds what lies between its two ends.                           *)
LEMMA SubSeqProperties ==
    ASSUME NEW S, NEW s, NEW m \in Int, NEW n \in Int, \A i \in m..n : s[i] \in S
    PROVE  /\ SubSeq(s, m, n) \in Seq(S)
           /\ Len(SubSeq(s, m, n)) = IF m <= n THEN n - m + 1 ELSE 0
           /\ \A i \in 1..n - m + 1 : SubSeq(s, m, n)[i] = s[m + i - 1]
  OBVIOUS

(* A queue is its first entry and the rest, moved up by one.               *)
LEMMA HeadTailProperties ==
    ASSUME NEW S, NEW s \in Seq(S), s # <<>>
    PROVE  /\ Head(s) \in S /\ Tail(s) \in Seq(S) /\ Len(Tail(s)) = Len(s) - 1
           /\ \A i \in 1..Len(Tail(s)) : Tail(s)[i] = s[i + 1]
  OBVIOUS

(* Appending keeps what was there and adds one entry at the end.           *)
LEMMA AppendProperties ==
    ASSUME NEW S, NEW seq \in Seq(S), NEW elt \in S
    PROVE  /\ Append(seq, elt) \in Seq(S)
           /\ Append(seq, elt) # <<>>
           /\ Len(Append(seq, elt)) = Len(seq) + 1
           /\ \A i \in 1..Len(seq) : Append(seq, elt)[i] = seq[i]
           /\ Append(seq, elt)[Len(seq) + 1] = elt
  OBVIOUS


All == Blocks \cup {Genesis}

LEMMA LeastNat ==
    ASSUME NEW S \in SUBSET Nat, S # {}
    PROVE  \E m \in S : \A k \in S : m <= k
<1>1. IsWellFoundedOn(OpToRel(<, Nat), Nat)
  BY NatLessThanWellFounded
<1>2. PICK m \in S : \A k \in S : ~(<<k, m>> \in OpToRel(<, Nat))
  BY <1>1, WFMin
<1>3. \A k \in S : ~(k < m)
  BY <1>2 DEF OpToRel
<1>4. m \in Nat /\ \A k \in S : k \in Nat
  OBVIOUS
<1>5. \A k \in S : m <= k
  BY <1>3, <1>4
<1> QED
  BY <1>5

(* A finite set has an element of greatest rank: the one with the fewest   *)
(* elements of greater rank.                                               *)
LEMMA GreatestRank ==
    ASSUME NEW S, IsFiniteSet(S), S # {}, NEW rank \in [S -> Nat]
    PROVE  \E x \in S : \A y \in S : rank[y] <= rank[x]
<1> DEFINE Above(x) == {y \in S : rank[y] > rank[x]}
           Counts == {Cardinality(Above(x)) : x \in S}
<1>1. \A x \in S : IsFiniteSet(Above(x)) /\ Cardinality(Above(x)) \in Nat
  BY FS_Subset, FS_CardinalityType
<1>5. Counts \in SUBSET Nat /\ Counts # {}
  BY <1>1
<1>2. PICK c \in Counts : \A k \in Counts : c <= k
  BY <1>5, LeastNat
<1>3. PICK x \in S : c = Cardinality(Above(x))
  BY <1>2
<1>4. ASSUME NEW y \in S, ~(rank[y] <= rank[x]) PROVE FALSE
  <2>1. rank[y] > rank[x]
    BY <1>4
  <2>2. y \in Above(x) /\ y \notin Above(y)
    BY <2>1
  <2>3. \A z \in Above(y) : z \in Above(x)
    BY <2>1
  <2>4. Above(y) \in SUBSET Above(x) /\ Above(y) # Above(x)
    BY <2>2, <2>3
  <2>5. Cardinality(Above(y)) <= Cardinality(Above(x))
        /\ Cardinality(Above(y)) # Cardinality(Above(x))
    BY <1>1, <2>4, FS_Subset
  <2>6. Cardinality(Above(x)) <= Cardinality(Above(y))
    BY <1>2, <1>3
  <2>7. Cardinality(Above(x)) \in Nat /\ Cardinality(Above(y)) \in Nat
    BY <1>1
  <2> HIDE DEF Above
  <2> QED
    BY <2>5, <2>6, <2>7
<1> QED
  BY <1>4

-----------------------------------------------------------------------------
(* Chains.                                                                 *)

LEMMA ChainType ==
    /\ \A b \in All : Chain[b] \in Seq(Blocks) /\ Height(b) \in Nat
    /\ Height(Genesis) = 0 /\ Chain[Genesis] = <<>>
<1>1. \A b \in All : Chain[b] \in Seq(Blocks)
  BY TreeAssumption DEF All
<1>2. \A b \in All : Height(b) \in Nat
  BY <1>1, LenProperties DEF Height
<1>3. Height(Genesis) = 0
  BY TreeAssumption DEF Height
<1> QED
  BY <1>1, <1>2, <1>3, TreeAssumption

LEMMA ChainStep ==
    ASSUME NEW b \in Blocks
    PROVE  /\ b \in All /\ Prev[b] \in All
           /\ b \in Nat /\ Prev[b] \in Nat /\ Prev[b] < b
           /\ Height(b) = Height(Prev[b]) + 1
           /\ Height(b) \in Nat /\ Height(Prev[b]) \in Nat
           /\ Chain[b][Height(b)] = b
           /\ \A i \in 1..Height(Prev[b]) : Chain[b][i] = Chain[Prev[b]][i]
<1>1. b \in All /\ Prev[b] \in All /\ b \in Nat /\ Prev[b] \in Nat /\ Prev[b] < b
  <2>1. Prev[b] \in Blocks \cup {Genesis} /\ Prev[b] < b /\ Blocks \subseteq Nat
    BY TreeAssumption
  <2>2. Genesis \in Nat
    BY DEF Genesis
  <2> QED
    BY <2>1, <2>2 DEF All
<1>2. Chain[Prev[b]] \in Seq(Blocks) /\ Height(Prev[b]) \in Nat /\ Height(b) \in Nat
  BY <1>1, ChainType
<1>3. Chain[b] = Append(Chain[Prev[b]], b)
  BY TreeAssumption
<1>4. Height(b) = Height(Prev[b]) + 1
  BY <1>2, <1>3, AppendProperties DEF Height
<1>5. Chain[b][Height(b)] = b
  BY <1>2, <1>3, <1>4, AppendProperties DEF Height
<1>6. \A i \in 1..Height(Prev[b]) : Chain[b][i] = Chain[Prev[b]][i]
  BY <1>2, <1>3, AppendProperties DEF Height
<1> QED
  BY <1>1, <1>2, <1>4, <1>5, <1>6

(* An entry of a chain has its position as height and the chain up to it   *)
(* as chain.                                                               *)
PrefixOf(b) == \A i \in 1..Height(b) :
    /\ Chain[b][i] \in Blocks /\ Height(Chain[b][i]) = i
    /\ \A j \in 1..i : Chain[Chain[b][i]][j] = Chain[b][j]

LEMMA Prefix == \A b \in All : PrefixOf(b)
<1> DEFINE Bad == {b \in All : ~PrefixOf(b)}
<1>1. SUFFICES ASSUME Bad # {} PROVE FALSE
  OBVIOUS
<1>2. Bad \in SUBSET Nat
  BY TreeAssumption DEF All, Genesis
<1>3. PICK b \in Bad : \A k \in Bad : b <= k
  BY <1>1, <1>2, LeastNat
<1>4. PrefixOf(Genesis)
  BY ChainType DEF PrefixOf
<1>5. b \in Blocks
  BY <1>3, <1>4 DEF All
<1>6. /\ Prev[b] \in All /\ Prev[b] \in Nat /\ b \in Nat /\ Prev[b] < b
      /\ Height(b) = Height(Prev[b]) + 1 /\ Height(Prev[b]) \in Nat
      /\ Chain[b][Height(b)] = b
      /\ \A i \in 1..Height(Prev[b]) : Chain[b][i] = Chain[Prev[b]][i]
  BY <1>5, ChainStep
<1>7. PrefixOf(Prev[b])
  <2>1. ~(b <= Prev[b])
    BY <1>6
  <2> QED
    BY <1>3, <1>6, <2>1
<1>8. ASSUME NEW i \in 1..Height(b)
      PROVE  /\ Chain[b][i] \in Blocks /\ Height(Chain[b][i]) = i
             /\ \A j \in 1..i : Chain[Chain[b][i]][j] = Chain[b][j]
  <2>1. CASE i = Height(b)
    BY <1>5, <1>6, <2>1
  <2>2. CASE i # Height(b)
    <3>1. i \in 1..Height(Prev[b]) /\ \A j \in 1..i : j \in 1..Height(Prev[b])
      BY <1>6, <2>2
    <3> QED
      BY <1>6, <1>7, <3>1 DEF PrefixOf
  <2> QED
    BY <2>1, <2>2
<1> QED
  BY <1>3, <1>8 DEF PrefixOf

LEMMA AncestryIs ==
    ASSUME NEW b \in All
    PROVE  /\ Ancestry(b) = {Genesis} \cup {Chain[b][i] : i \in 1..Height(b)}
           /\ Ancestry(b) = {BlockAt(b, i) : i \in 0..Height(b)}
           /\ Ancestry(b) \subseteq All /\ Genesis \in Ancestry(b) /\ b \in Ancestry(b)
<1>1. DOMAIN Chain[b] = 1..Height(b) /\ Height(b) \in Nat
  BY ChainType, LenProperties DEF Height
<1>2. Ancestry(b) = {Genesis} \cup {Chain[b][i] : i \in 1..Height(b)}
  BY <1>1 DEF Ancestry, Range
<1>3. \A i \in 1..Height(b) : Chain[b][i] \in Blocks
  BY Prefix DEF PrefixOf
<1>4. b \in Ancestry(b)
  <2>1. CASE b = Genesis
    BY <1>2, <2>1
  <2>2. CASE b # Genesis
    <3>1. b \in Blocks
      BY <2>2 DEF All
    <3>2. Height(b) \in 1..Height(b) /\ Chain[b][Height(b)] = b
      BY <3>1, ChainStep
    <3> QED
      BY <1>2, <3>2
  <2> QED
    BY <2>1, <2>2
<1>5. Ancestry(b) = {BlockAt(b, i) : i \in 0..Height(b)}
  <2>1. \A i \in 1..Height(b) : BlockAt(b, i) = Chain[b][i] /\ i \in 0..Height(b)
    BY <1>1 DEF BlockAt
  <2>2. BlockAt(b, 0) = Genesis /\ 0 \in 0..Height(b)
    BY <1>1 DEF BlockAt
  <2>3. \A i \in 0..Height(b) : i = 0 \/ i \in 1..Height(b)
    BY <1>1
  <2> QED
    BY <1>2, <2>1, <2>2, <2>3
<1> QED
  BY <1>2, <1>3, <1>4, <1>5 DEF All

LEMMA BlockAtFacts ==
    ASSUME NEW b \in All, NEW i \in 0..Height(b)
    PROVE  /\ BlockAt(b, i) \in Ancestry(b) /\ BlockAt(b, i) \in All
           /\ Height(BlockAt(b, i)) = i
           /\ \A j \in 0..i : BlockAt(BlockAt(b, i), j) = BlockAt(b, j)
<1>1. Height(b) \in Nat
  BY ChainType
<1>2. BlockAt(b, i) \in Ancestry(b) /\ BlockAt(b, i) \in All
  BY AncestryIs
<1>3. CASE i = 0
  BY <1>2, <1>3, ChainType DEF BlockAt
<1>4. CASE i # 0
  <2>1. i \in 1..Height(b)
    BY <1>1, <1>4
  <2>2. /\ Height(Chain[b][i]) = i
        /\ \A j \in 1..i : Chain[Chain[b][i]][j] = Chain[b][j]
    BY <2>1, Prefix DEF PrefixOf
  <2>3. \A j \in 0..i : j = 0 \/ j \in 1..i
    BY <1>1
  <2> QED
    BY <1>2, <1>4, <2>2, <2>3 DEF BlockAt
<1> QED
  BY <1>3, <1>4

(* An ancestor is the block of its height; its ancestors are ancestors;    *)
(* and two ancestors of one block lie on one chain.                        *)
LEMMA AncestorFacts ==
    ASSUME NEW b \in All, NEW a \in Ancestry(b)
    PROVE  /\ a \in All /\ Height(a) \in 0..Height(b) /\ BlockAt(b, Height(a)) = a
           /\ Ancestry(a) \subseteq Ancestry(b)
           /\ \A c \in Ancestry(b) : Height(a) <= Height(c) => a \in Ancestry(c)
<1>1. PICK i \in 0..Height(b) : a = BlockAt(b, i)
  BY AncestryIs
<1>2. a \in All /\ Height(a) = i /\ \A j \in 0..i : BlockAt(a, j) = BlockAt(b, j)
  BY <1>1, BlockAtFacts
<1>3. Height(b) \in Nat
  BY ChainType
<1>4. Ancestry(a) \subseteq Ancestry(b)
  <2>1. Ancestry(a) = {BlockAt(a, j) : j \in 0..i} /\ Ancestry(b) = {BlockAt(b, j) : j \in 0..Height(b)}
    BY <1>2, AncestryIs
  <2>2. \A j \in 0..i : j \in 0..Height(b)
    BY <1>3
  <2> QED
    BY <1>2, <2>1, <2>2
<1>5. ASSUME NEW c \in Ancestry(b), Height(a) <= Height(c) PROVE a \in Ancestry(c)
  <2>1. PICK k \in 0..Height(b) : c = BlockAt(b, k)
    BY AncestryIs
  <2>2. c \in All /\ Height(c) = k /\ \A j \in 0..k : BlockAt(c, j) = BlockAt(b, j)
    BY <2>1, BlockAtFacts
  <2>3. i \in 0..k
    BY <1>2, <1>5, <2>2
  <2>4. a = BlockAt(c, i)
    BY <1>1, <2>2, <2>3
  <2> QED
    BY <2>2, <2>3, <2>4, AncestryIs
<1> QED
  BY <1>1, <1>2, <1>4, <1>5

LEMMA PrevAncestry ==
    ASSUME NEW b \in Blocks
    PROVE  Ancestry(b) = Ancestry(Prev[b]) \cup {b}
<1>1. /\ Prev[b] \in All /\ b \in All /\ Height(b) = Height(Prev[b]) + 1
      /\ Height(Prev[b]) \in Nat /\ Chain[b][Height(b)] = b
      /\ \A i \in 1..Height(Prev[b]) : Chain[b][i] = Chain[Prev[b]][i]
  BY ChainStep
<1>2. \A i \in 1..Height(b) : i = Height(b) \/ i \in 1..Height(Prev[b])
  BY <1>1
<1>3. \A i \in 1..Height(Prev[b]) : i \in 1..Height(b)
  BY <1>1
<1>4. Height(b) \in 1..Height(b)
  BY <1>1
<1> QED
  BY <1>1, <1>2, <1>3, <1>4, AncestryIs

(* A set of blocks closed under parents holds every ancestor.              *)
LEMMA ClosedAncestry ==
    ASSUME NEW S \in SUBSET All, Genesis \in S, \A b \in S \ {Genesis} : Prev[b] \in S
    PROVE  \A b \in S : Ancestry(b) \subseteq S
<1> DEFINE Bad == {b \in S : ~(Ancestry(b) \subseteq S)}
<1>1. SUFFICES ASSUME Bad # {} PROVE FALSE
  OBVIOUS
<1>2. Bad \in SUBSET Nat
  BY TreeAssumption DEF All, Genesis
<1>3. PICK b \in Bad : \A k \in Bad : b <= k
  BY <1>1, <1>2, LeastNat
<1>4. Ancestry(Genesis) = {Genesis}
  <2>1. \A i \in 1..0 : FALSE
    OBVIOUS
  <2> QED
    BY <2>1, ChainType, AncestryIs DEF All
<1>5. b \in Blocks /\ b # Genesis
  BY <1>3, <1>4 DEF All
<1>6. Prev[b] \in S /\ Prev[b] \in Nat /\ b \in Nat /\ Prev[b] < b
  BY <1>3, <1>5, ChainStep
<1>7. Ancestry(Prev[b]) \subseteq S
  <2>1. ~(b <= Prev[b])
    BY <1>6
  <2> QED
    BY <1>3, <1>6, <2>1
<1> QED
  BY <1>3, <1>5, <1>7, PrevAncestry

-----------------------------------------------------------------------------
(* The pins and the linkage proof.                                         *)

PinRecord == [pins : SUBSET All, linked : SUBSET All, pending : Seq(All)]

LEMMA NewestFacts ==
    ASSUME NEW cp \in PinRecord, cp.pins # {}
    PROVE  /\ NewestCheckpoint(cp) \in cp.pins /\ NewestCheckpoint(cp) \in All
           /\ \A q \in cp.pins : Height(q) <= Height(NewestCheckpoint(cp))
<1> DEFINE rank == [p \in cp.pins |-> Height(p)]
<1>1. cp.pins \in SUBSET All
  BY DEF PinRecord
<1>2. IsFiniteSet(All)
  BY TreeAssumption, FS_AddElement DEF All
<1>3. IsFiniteSet(cp.pins)
  BY <1>1, <1>2, FS_Subset
<1>4. rank \in [cp.pins -> Nat]
  BY <1>1, ChainType
<1>5. \E p \in cp.pins : \A q \in cp.pins : rank[q] <= rank[p]
  BY <1>3, <1>4, GreatestRank
<1>6. \E p \in cp.pins : \A q \in cp.pins : Height(q) <= Height(p)
  BY <1>5
<1> QED
  BY <1>1, <1>6 DEF NewestCheckpoint

(* linked_to_checkpoint is the ancestry of the newest pin, or empty.       *)
ProofSound(cp) == cp.linked # {} => cp.linked = Ancestry(NewestCheckpoint(cp))

LEMMA LocalHeaders ==
    ASSUME NEW head \in All
    PROVE  LET hs == <<Genesis>> \o Chain[head]
           IN  /\ Len(hs) = Height(head) + 1
               /\ \A i \in 1..Height(head) + 1 : hs[i] = BlockAt(head, i - 1)
<1> DEFINE hs == <<Genesis>> \o Chain[head]
<1>1. Chain[head] \in Seq(All) /\ Height(head) \in Nat /\ Len(Chain[head]) = Height(head)
  <2>1. Chain[head] \in Seq(Blocks) /\ Height(head) \in Nat
    BY ChainType
  <2> QED
    BY <2>1 DEF All, Height
<1>2. <<Genesis>> \in Seq(All) /\ Len(<<Genesis>>) = 1 /\ <<Genesis>>[1] = Genesis
  BY DEF All
<1>3. Len(hs) = Height(head) + 1
  BY <1>1, <1>2, ConcatProperties
<1>4. ASSUME NEW i \in 1..Height(head) + 1 PROVE hs[i] = BlockAt(head, i - 1)
  <2>1. i \in 1..Len(<<Genesis>>) + Len(Chain[head])
    BY <1>1, <1>2
  <2>2. hs[i] = IF i <= Len(<<Genesis>>) THEN <<Genesis>>[i] ELSE Chain[head][i - Len(<<Genesis>>)]
    BY <1>1, <1>2, <2>1, ConcatProperties
  <2>3. CASE i = 1
    BY <1>2, <2>2, <2>3 DEF BlockAt
  <2>4. CASE i # 1
    BY <1>1, <1>2, <2>2, <2>4 DEF BlockAt
  <2> QED
    BY <2>3, <2>4
<1> QED
  BY <1>3, <1>4

(* Rebuilding the proof from the active chain changes nothing but linked,  *)
(* and to nothing but the ancestry of the pin.                             *)
LEMMA RelinkFacts ==
    ASSUME NEW cp \in PinRecord, NEW head \in All
    PROVE  LET r == RelinkCheckpointFromLocal(cp, head)
           IN  /\ r \in PinRecord
               /\ r.pins = cp.pins /\ r.pending = cp.pending
               /\ r.linked = cp.linked \/ (r.pins # {} /\ r.linked = Ancestry(NewestCheckpoint(r)))
<1> DEFINE r == RelinkCheckpointFromLocal(cp, head)
           hs == <<Genesis>> \o Chain[head]
           pin == NewestCheckpoint(cp)
           n == Height(pin) + 1
           L == {hs[i] : i \in 1..n}
<1>1. CASE r = cp
  BY <1>1
<1>2. CASE r # cp
  <2>1. /\ cp.pins # {} /\ ~(Height(head) < Height(pin))
        /\ r = InstallCheckpointLinkage(cp, hs)
    BY <1>2 DEF RelinkCheckpointFromLocal
  <2>2. hs[n] = pin /\ r = [cp EXCEPT !.linked = L]
    BY <1>2, <2>1 DEF InstallCheckpointLinkage
  <2>3. pin \in All /\ Height(pin) \in Nat /\ Height(head) \in Nat
    BY <2>1, NewestFacts, ChainType
  <2>4. Height(pin) \in 0..Height(head) /\ n \in 1..Height(head) + 1
    BY <2>1, <2>3
  <2>5. \A i \in 1..n : hs[i] = BlockAt(head, i - 1)
    BY <2>3, <2>4, LocalHeaders
  <2>6. BlockAt(head, Height(pin)) = pin
    BY <2>2, <2>3, <2>4, LocalHeaders
  <2>7. \A j \in 0..Height(pin) : BlockAt(pin, j) = BlockAt(head, j)
    BY <2>4, <2>6, BlockAtFacts
  <2>8. L = {BlockAt(pin, j) : j \in 0..Height(pin)}
    <3> HIDE DEF hs, pin
    <3>4. \A i \in 1..n : i - 1 \in 0..Height(pin)
      BY <2>3
    <3>1. \A i \in 1..n : i - 1 \in 0..Height(pin) /\ hs[i] = BlockAt(pin, i - 1)
      BY <3>4, <2>5, <2>7
    <3>2. \A j \in 0..Height(pin) : j + 1 \in 1..n /\ j + 1 - 1 = j
      BY <2>3
    <3>3. \A j \in 0..Height(pin) : hs[j + 1] = BlockAt(pin, j)
      BY <3>1, <3>2
    <3> QED
      BY <3>1, <3>2, <3>3
  <2>9. L = Ancestry(pin) /\ L \subseteq All
    BY <2>3, <2>8, AncestryIs
  <2> HIDE DEF r, L
  <2>10. r.pins = cp.pins /\ r.pending = cp.pending /\ r.linked = L /\ r \in PinRecord
    BY <2>2, <2>9 DEF PinRecord
  <2>11. NewestCheckpoint(r) = pin
    BY <2>10 DEF NewestCheckpoint
  <2> QED
    BY <2>1, <2>9, <2>10, <2>11 DEF r
<1> QED
  BY <1>1, <1>2

(* add_checkpoints leaves no proof of an older pin behind.                 *)
LEMMA AddFacts ==
    ASSUME NEW cp \in PinRecord, NEW head \in All, NEW new \in SUBSET All
    PROVE  LET r == AddCheckpoints(cp, head, new)
           IN  /\ r \in PinRecord /\ r.pending = cp.pending
               /\ r.pins = {p \in cp.pins : \A q \in new : Height(q) # Height(p)} \cup new
               /\ ProofSound(r)
<1> DEFINE kept == {p \in cp.pins : \A q \in new : Height(q) # Height(p)}
           mid == [cp EXCEPT !.pins = kept \cup new, !.linked = {}]
           r == RelinkCheckpointFromLocal(mid, head)
<1>1. mid \in PinRecord /\ mid.pins = kept \cup new /\ mid.linked = {} /\ mid.pending = cp.pending
  BY DEF PinRecord
<1>2. AddCheckpoints(cp, head, new) = r
  BY DEF AddCheckpoints
<1> HIDE DEF mid
<1>3. /\ r \in PinRecord /\ r.pins = mid.pins /\ r.pending = mid.pending
      /\ r.linked = mid.linked \/ (r.pins # {} /\ r.linked = Ancestry(NewestCheckpoint(r)))
  BY <1>1, RelinkFacts
<1> HIDE DEF r
<1> QED
  BY <1>1, <1>2, <1>3 DEF ProofSound

-----------------------------------------------------------------------------
(* The streamed proof.                                                     *)

(* A run of headers from genesis, each naming the one before it.           *)
IsPath(s) ==
    /\ s \in Seq(All)
    /\ s # <<>> => s[1] = Genesis
    /\ \A i \in 2..Len(s) : s[i] \in Blocks /\ Prev[s[i]] = s[i - 1]

(* Such a run is the chain of every block on it.                           *)
LEMMA PathIsChain ==
    ASSUME NEW s, IsPath(s)
    PROVE  \A i \in 1..Len(s) : /\ s[i] \in All /\ Height(s[i]) = i - 1
                                /\ \A j \in 1..i : s[j] = BlockAt(s[i], j - 1)
<1> DEFINE P(i) == /\ s[i] \in All /\ Height(s[i]) = i - 1
                   /\ \A j \in 1..i : s[j] = BlockAt(s[i], j - 1)
           Bad == {i \in 1..Len(s) : ~P(i)}
<1>1. SUFFICES ASSUME Bad # {} PROVE FALSE
  OBVIOUS
<1>2. s \in Seq(All) /\ Len(s) \in Nat
  BY LenProperties DEF IsPath
<1>3. Bad \in SUBSET Nat
  BY <1>2
<1>4. PICK i \in Bad : \A k \in Bad : i <= k
  BY <1>1, <1>3, LeastNat
<1>5. i \in 1..Len(s) /\ i \in Nat /\ ~P(i)
  BY <1>2, <1>4
<1>6. CASE i = 1
  <2>1. s[1] = Genesis
    <3>1. s # <<>>
      BY <1>2, <1>5, EmptySeq
    <3> QED
      BY <3>1 DEF IsPath
  <2>2. \A j \in 1..1 : j = 1
    OBVIOUS
  <2>3. BlockAt(Genesis, 1 - 1) = Genesis
    BY DEF BlockAt
  <2>4. P(1)
    BY <2>1, <2>2, <2>3, ChainType DEF All
  <2> QED
    BY <1>5, <1>6, <2>4
<1>7. CASE i # 1
  <2>1. i \in 2..Len(s) /\ i - 1 \in 1..Len(s) /\ ~(i <= i - 1)
    BY <1>2, <1>5, <1>7
  <2>2. s[i] \in Blocks /\ Prev[s[i]] = s[i - 1]
    BY <2>1 DEF IsPath
  <2>3. P(i - 1)
    BY <1>4, <2>1
  <2>4. /\ s[i] \in All /\ Height(s[i]) = Height(s[i - 1]) + 1
        /\ Chain[s[i]][Height(s[i])] = s[i]
        /\ \A k \in 1..Height(s[i - 1]) : Chain[s[i]][k] = Chain[s[i - 1]][k]
    BY <2>2, ChainStep
  <2>5. Height(s[i - 1]) = i - 2 /\ Height(s[i]) = i - 1
    BY <1>5, <2>3, <2>4
  <2>6. ASSUME NEW j \in 1..i PROVE s[j] = BlockAt(s[i], j - 1)
    <3>1. CASE j = i
      BY <1>5, <1>7, <2>4, <2>5, <3>1 DEF BlockAt
    <3>2. CASE j # i
      <4>1. j \in 1..(i - 1) /\ (j - 1 = 0 \/ j - 1 \in 1..(i - 2))
        BY <1>5, <3>2
      <4>2. s[j] = BlockAt(s[i - 1], j - 1)
        BY <2>3, <4>1
      <4>3. BlockAt(s[i - 1], j - 1) = BlockAt(s[i], j - 1)
        BY <2>4, <2>5, <4>1 DEF BlockAt
      <4> QED
        BY <4>2, <4>3
    <3> QED
      BY <3>1, <3>2
  <2>7. P(i)
    BY <2>4, <2>5, <2>6
  <2> QED
    BY <1>5, <2>7
<1> QED
  BY <1>6, <1>7

LEMMA PathAncestry ==
    ASSUME NEW s, IsPath(s), s # <<>>
    PROVE  Range(s) = Ancestry(s[Len(s)]) /\ s[Len(s)] \in All /\ Len(s) \in Nat \ {0}
<1> DEFINE b == s[Len(s)]
<1>1. s \in Seq(All) /\ Len(s) \in Nat \ {0} /\ DOMAIN s = 1..Len(s)
  BY LenProperties, EmptySeq DEF IsPath
<1>2. Len(s) \in 1..Len(s)
  BY <1>1
<1>3. b \in All /\ Height(b) = Len(s) - 1 /\ \A j \in 1..Len(s) : s[j] = BlockAt(b, j - 1)
  BY <1>2, PathIsChain
<1>4. Range(s) = {s[i] : i \in 1..Len(s)}
  BY <1>1 DEF Range
<1>5. Ancestry(b) = {BlockAt(b, k) : k \in 0..Height(b)}
  BY <1>3, AncestryIs
<1> HIDE DEF b
<1>6. \A i \in 1..Len(s) : i - 1 \in 0..Height(b)
  BY <1>1, <1>3
<1>7. \A k \in 0..Height(b) : k + 1 \in 1..Len(s) /\ k + 1 - 1 = k
  BY <1>1, <1>3
<1>8. \A k \in 0..Height(b) : s[k + 1] = BlockAt(b, k)
  BY <1>3, <1>7
<1>9. {s[i] : i \in 1..Len(s)} = {BlockAt(b, k) : k \in 0..Height(b)}
  BY <1>3, <1>6, <1>7, <1>8
<1> QED
  BY <1>1, <1>3, <1>4, <1>5, <1>9 DEF b

(* extend_checkpoint_linkage keeps the progress a path from genesis, and   *)
(* completes it to nothing but the ancestry of the newest pin.             *)
LEMMA ExtendFacts ==
    ASSUME NEW cp \in PinRecord, ProofSound(cp), IsPath(cp.pending),
           NEW headers \in Seq(Blocks)
    PROVE  LET r == ExtendCheckpointLinkage(cp, headers).cp
           IN  r \in PinRecord /\ ProofSound(r) /\ IsPath(r.pending)
<1> DEFINE r == ExtendCheckpointLinkage(cp, headers).cp
           pin == NewestCheckpoint(cp)
           seed == IF cp.pending = <<>> THEN <<Genesis>> ELSE cp.pending
           atPin == {i \in 1..Len(headers) : Height(headers[i]) = Height(pin)}
           n == IF atPin = {} THEN Len(headers)
                ELSE CHOOSE i \in atPin : \A j \in atPin : i <= j
           sub == SubSeq(headers, 1, n)
           path == seed \o sub
           linksUp == \A i \in Len(seed) + 1 .. Len(path) :
                          /\ Height(path[i]) = i - 1
                          /\ path[i] # Genesis
                          /\ Prev[path[i]] = path[i - 1]
           reset == [cp EXCEPT !.pending = <<>>]
<1>1. CASE r = cp
  BY <1>1
<1>2. IsPath(<<>>) /\ \A S : <<>> \in Seq(S)
  <2>1. <<>> \in Seq(All) /\ Len(<<>>) = 0
    BY EmptySeq
  <2> QED
    BY <2>1 DEF IsPath
<1>3. /\ reset \in PinRecord /\ reset.pins = cp.pins /\ reset.pending = <<>>
      /\ reset.linked = cp.linked /\ NewestCheckpoint(reset) = pin
  BY <1>2 DEF PinRecord, NewestCheckpoint
<1>4. CASE r = reset
  BY <1>2, <1>3, <1>4 DEF ProofSound
<1>5. IsPath(seed) /\ seed # <<>> /\ seed \in Seq(All) /\ Len(seed) \in Nat \ {0}
  <2>1. IsPath(<<Genesis>>) /\ <<Genesis>> # <<>>
    BY DEF IsPath, All
  <2>2. IsPath(seed) /\ seed # <<>>
    BY <2>1
  <2>3. seed \in Seq(All)
    BY <2>2 DEF IsPath
  <2> HIDE DEF seed
  <2> QED
    BY <2>2, <2>3, EmptySeq
<1>6. Len(headers) \in Nat /\ n \in 0..Len(headers)
  <2>1. Len(headers) \in Nat
    BY LenProperties
  <2>2. CASE atPin = {}
    BY <2>1, <2>2
  <2>3. CASE atPin # {}
    <3>1. atPin \in SUBSET Nat
      BY <2>1
    <3>2. \E m \in atPin : \A j \in atPin : m <= j
      BY <2>3, <3>1, LeastNat
    <3>3. n \in atPin
      BY <2>3, <3>2
    <3> QED
      BY <2>1, <3>3
  <2> QED
    BY <2>2, <2>3
<1>7. sub \in Seq(Blocks) /\ sub \in Seq(All) /\ Len(sub) = n /\ n \in Nat
  <2> HIDE DEF n
  <2>1. \A i \in 1..n : headers[i] \in Blocks
    BY <1>6, ElementOfSeq
  <2>2. sub \in Seq(Blocks) /\ Len(sub) = n
    BY <1>6, <2>1, SubSeqProperties
  <2> QED
    BY <1>6, <2>2, SeqMonotonic DEF All
<1> HIDE DEF n, sub, seed
<1>8. /\ path \in Seq(All) /\ Len(path) = Len(seed) + Len(sub)
      /\ \A i \in 1..Len(seed) + Len(sub) :
            path[i] = IF i <= Len(seed) THEN seed[i] ELSE sub[i - Len(seed)]
  BY <1>5, <1>7, ConcatProperties
<1> HIDE DEF path
<1>9. ASSUME linksUp PROVE IsPath(path) /\ path # <<>>
  <2>1. path[1] = Genesis
    BY <1>5, <1>7, <1>8 DEF IsPath
  <2>2. ASSUME NEW i \in 2..Len(path) PROVE path[i] \in Blocks /\ Prev[path[i]] = path[i - 1]
    <3>1. i \in 1..Len(seed) + Len(sub) /\ i - 1 \in 1..Len(seed) + Len(sub)
      BY <1>5, <1>7, <1>8
    <3>2. CASE i <= Len(seed)
      <4>1. i \in 2..Len(seed) /\ i - 1 <= Len(seed)
        BY <1>5, <3>1, <3>2
      <4>2. path[i] = seed[i] /\ path[i - 1] = seed[i - 1]
        BY <1>8, <3>1, <3>2, <4>1
      <4> QED
        BY <1>5, <4>1, <4>2 DEF IsPath
    <3>3. CASE ~(i <= Len(seed))
      <4>1. i \in Len(seed) + 1 .. Len(path) /\ i - Len(seed) \in 1..Len(sub)
        BY <1>5, <1>7, <1>8, <3>1, <3>3
      <4>2. path[i] = sub[i - Len(seed)]
        BY <1>8, <3>1, <3>3
      <4>3. path[i] \in Blocks
        BY <1>7, <4>1, <4>2, ElementOfSeq
      <4> QED
        BY <1>9, <4>1, <4>3
    <3> QED
      BY <3>2, <3>3
  <2>3. path # <<>>
    BY <1>5, <1>7, <1>8, EmptySeq
  <2> QED
    BY <1>8, <2>1, <2>2, <2>3 DEF IsPath
<1>10. CASE pin = Genesis /\ r = [reset EXCEPT !.linked = {Genesis}]
  <2>1. Ancestry(Genesis) = {Genesis}
    <3>1. \A i \in 1..0 : FALSE
      OBVIOUS
    <3> QED
      BY <3>1, ChainType, AncestryIs DEF All
  <2>2. /\ r \in PinRecord /\ r.linked = {Genesis} /\ r.pending = <<>> /\ r.pins = cp.pins
    BY <1>3, <1>10 DEF PinRecord, All
  <2>3. NewestCheckpoint(r) = Genesis
    BY <1>10, <2>2 DEF NewestCheckpoint
  <2> QED
    BY <1>2, <2>1, <2>2, <2>3 DEF ProofSound
<1>11. CASE linksUp /\ path[Len(path)] = pin /\ r = [reset EXCEPT !.linked = Range(path)]
  <2>1. Range(path) = Ancestry(pin) /\ pin \in All
    BY <1>9, <1>11, PathAncestry
  <2>2. Range(path) \subseteq All
    BY <2>1, AncestryIs
  <2>3. /\ r \in PinRecord /\ r.linked = Range(path) /\ r.pending = <<>> /\ r.pins = cp.pins
    BY <1>3, <1>11, <2>2 DEF PinRecord
  <2>4. NewestCheckpoint(r) = pin
    BY <2>3 DEF NewestCheckpoint
  <2> QED
    BY <1>2, <2>1, <2>3, <2>4 DEF ProofSound
<1>12. CASE linksUp /\ r = [cp EXCEPT !.pending = path]
  <2>1. /\ r \in PinRecord /\ r.linked = cp.linked /\ r.pending = path /\ r.pins = cp.pins
    BY <1>8, <1>12 DEF PinRecord
  <2>2. NewestCheckpoint(r) = pin
    BY <2>1 DEF NewestCheckpoint
  <2> QED
    BY <1>9, <1>12, <2>1, <2>2 DEF ProofSound
<1>13. \/ r = cp \/ r = reset \/ (pin = Genesis /\ r = [reset EXCEPT !.linked = {Genesis}])
       \/ linksUp /\ path[Len(path)] = pin /\ r = [reset EXCEPT !.linked = Range(path)]
       \/ linksUp /\ r = [cp EXCEPT !.pending = path]
  BY DEF ExtendCheckpointLinkage, ReachesPin, n, sub, seed, path
<1> QED
  BY <1>1, <1>4, <1>10, <1>11, <1>12, <1>13
=============================================================================
