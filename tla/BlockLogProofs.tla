--------------------------- MODULE BlockLogProofs ---------------------------
(***************************************************************************)
(* The block log for every finite set of blocks, every tree over them,     *)
(* every combination of storage faults and any number of crashes.  Inv     *)
(* holds whatever the storage does, SoundInv adds what holds without       *)
(* faults; the refinement of BlockStore follows from both.                 *)
(***************************************************************************)
EXTENDS BlockLog, FiniteSetTheorems, SequenceTheorems, WellFoundedInduction, TLAPS

All == Hash \cup {Genesis}

(* Fork choice as a relation on the blocks of a tree t.                    *)
Beats(t, a, b) ==
    \/ Cardinality(t[a]) > Cardinality(t[b])
    \/ Cardinality(t[a]) = Cardinality(t[b]) /\ a < b

LEMMA LeastNatural ==
    ASSUME NEW S \in SUBSET Nat, S # {}
    PROVE  \E m \in S : \A k \in S : m <= k
<1>1. IsWellFoundedOn(OpToRel(<, Nat), Nat)
  BY NatLessThanWellFounded
<1>2. PICK m \in S : \A k \in S : ~(<<k, m>> \in OpToRel(<, Nat))
  BY <1>1, WFMin
<1>3. \A k \in S : ~(k < m)
  BY <1>2 DEF OpToRel
<1>4. m \in Nat /\ \A k \in S : k \in Nat
  OBVIOUS
<1>5. \A k \in S : m <= k
  BY <1>3, <1>4
<1> QED
  BY <1>5

LEMMA TreeFacts ==
    ASSUME NEW t \in Trees
    PROVE  /\ t \in [All -> SUBSET All]
           /\ t[Genesis] = {Genesis}
           /\ \A h \in All : h \in t[h] /\ Genesis \in t[h]
           /\ \A h \in All : \A a \in t[h] : t[a] \subseteq t[h]
           /\ \A h \in All : \A a \in t[h] \ {h} : h \notin t[a]
           /\ \A h \in All : \A a, b \in t[h] : a \in t[b] \/ b \in t[a]
           /\ \A h \in All : IsFiniteSet(t[h]) /\ Cardinality(t[h]) \in Nat
<1>1. IsFiniteSet(All)
  BY HashAssumption, FS_AddElement DEF All
<1>2. t \in [All -> SUBSET All] /\ t[Genesis] = {Genesis}
  BY TreesAssumption DEF All
<1>3. \A h \in All : h \in t[h] /\ Genesis \in t[h]
  BY TreesAssumption DEF All
<1>4. \A h \in All : \A a \in t[h] : t[a] \subseteq t[h]
  BY TreesAssumption DEF All
<1>5. \A h \in All : \A a \in t[h] \ {h} : h \notin t[a]
  BY TreesAssumption DEF All
<1>6. \A h \in All : IsFiniteSet(t[h])
  BY <1>1, <1>2, FS_Subset
<1>7. \A h \in All : Cardinality(t[h]) \in Nat
  BY <1>6, FS_CardinalityType
<1>8. \A h \in All : \A a, b \in t[h] : a \in t[b] \/ b \in t[a]
  <2>1. \A h \in Hash : \A a, b \in t[h] : a \in t[b] \/ b \in t[a]
    BY TreesAssumption
  <2> QED
    BY <1>2, <2>1 DEF All
<1> QED
  BY <1>2, <1>3, <1>4, <1>5, <1>6, <1>7, <1>8

(* Live fork choice is a strict total order, so it never hesitates between *)
(* two blocks, and a block beats every one of its ancestors.               *)
LEMMA BeatsOrder ==
    ASSUME NEW t \in Trees
    PROVE  /\ \A a \in All : ~Beats(t, a, a)
           /\ \A a, b \in All : Beats(t, a, b) => ~Beats(t, b, a)
           /\ \A a, b \in All : a # b => Beats(t, a, b) \/ Beats(t, b, a)
           /\ \A a, b, c \in All : Beats(t, a, b) /\ Beats(t, b, c) => Beats(t, a, c)
<1>1. \A a \in All : a \in Nat /\ Cardinality(t[a]) \in Nat
  BY HashAssumption, TreeFacts DEF All
<1> QED
  BY <1>1 DEF Beats

LEMMA BeatsAncestors ==
    ASSUME NEW t \in Trees, NEW h \in All, NEW a \in t[h] \ {h}
    PROVE  /\ a \in All /\ Beats(t, h, a)
           /\ Cardinality(t[a]) < Cardinality(t[h])
<1>1. a \in All
  BY TreeFacts
<1>2. t[a] \in SUBSET t[h] /\ t[a] # t[h] /\ IsFiniteSet(t[h])
  BY TreeFacts, <1>1
<1>3. Cardinality(t[a]) <= Cardinality(t[h]) /\ Cardinality(t[a]) # Cardinality(t[h])
  BY <1>2, FS_Subset
<1>4. Cardinality(t[a]) \in Nat /\ Cardinality(t[h]) \in Nat
  BY TreeFacts, <1>1
<1> QED
  BY <1>1, <1>3, <1>4 DEF Beats

(* A non-empty set of blocks has a best one.                               *)
LEMMA BestExists ==
    ASSUME NEW t \in Trees, NEW S \in SUBSET All, S # {}
    PROVE  \E h \in S : \A x \in S \ {h} : Beats(t, h, x)
<1> DEFINE C == Cardinality(All)
           Gap(x) == C - Cardinality(t[x])
           Gaps == {Gap(x) : x \in S}
<1>1. C \in Nat /\ \A x \in All : Cardinality(t[x]) \in 0..C
  <2>1. IsFiniteSet(All)
    BY HashAssumption, FS_AddElement DEF All
  <2>2. \A x \in All : Cardinality(t[x]) <= C
    BY <2>1, TreeFacts, FS_Subset
  <2> QED
    BY <2>1, <2>2, TreeFacts, FS_CardinalityType
<1>2. Gaps \in SUBSET Nat /\ Gaps # {}
  BY <1>1
<1>3. PICK g \in Gaps : \A k \in Gaps : g <= k
  BY <1>2, LeastNatural
<1> DEFINE Heaviest == {x \in S : Gap(x) = g}
<1>4. Heaviest \in SUBSET Nat /\ Heaviest # {}
  BY <1>3, HashAssumption DEF All
<1>5. PICK h \in Heaviest : \A k \in Heaviest : h <= k
  BY <1>4, LeastNatural
<1>6. ASSUME NEW x \in S \ {h}
      PROVE  Beats(t, h, x)
  <2>1. h \in Nat /\ x \in Nat /\ Cardinality(t[h]) \in 0..C /\ Cardinality(t[x]) \in 0..C
    BY <1>1, HashAssumption DEF All
  <2>2. Gap(h) <= Gap(x)
    BY <1>3
  <2>3. Gap(h) = Gap(x) => h <= x
    BY <1>5
  <2> QED
    BY <1>1, <2>1, <2>2, <2>3 DEF Beats
<1> QED
  BY <1>6

-----------------------------------------------------------------------------
(* The file: what an append, a cut and read_records do.                    *)
Recs(s) == {s[i] : i \in 1..Len(s)}

DamagedIn(s) == {i \in 1..Len(s) : s[i] = Torn}

ReadLen(s) ==
    IF DamagedIn(s) = {} THEN Len(s)
    ELSE (CHOOSE i \in DamagedIn(s) : \A j \in DamagedIn(s) : i <= j) - 1

LEMMA Appended ==
    ASSUME NEW S, NEW s \in Seq(S), NEW e \in S
    PROVE  /\ Append(s, e) \in Seq(S)
           /\ Len(s) \in Nat
           /\ Len(Append(s, e)) = Len(s) + 1
           /\ \A i \in 1..Len(s) : Append(s, e)[i] = s[i]
           /\ Append(s, e)[Len(s) + 1] = e
           /\ Recs(Append(s, e)) = Recs(s) \cup {e}
<1>1. /\ Append(s, e) \in Seq(S)
      /\ Len(s) \in Nat
      /\ Len(Append(s, e)) = Len(s) + 1
      /\ \A i \in 1..Len(s) : Append(s, e)[i] = s[i]
      /\ Append(s, e)[Len(s) + 1] = e
  BY AppendProperties, LenProperties
<1>2. PICK n \in Nat : n = Len(s)
  BY <1>1
<1>3. 1..(n + 1) = (1..n) \cup {n + 1}
  BY <1>2
<1>4. Recs(Append(s, e)) = {Append(s, e)[i] : i \in (1..n) \cup {n + 1}}
  BY <1>1, <1>2, <1>3 DEF Recs
<1> QED
  BY <1>1, <1>2, <1>4 DEF Recs

LEMMA Cut ==
    ASSUME NEW S, NEW s \in Seq(S), NEW n \in 0..Len(s)
    PROVE  /\ SubSeq(s, 1, n) \in Seq(S)
           /\ Len(SubSeq(s, 1, n)) = n
           /\ \A i \in 1..n : SubSeq(s, 1, n)[i] = s[i] /\ i \in 1..Len(s)
<1>1. Len(s) \in Nat /\ n \in Nat /\ \A i \in 1..Len(s) : s[i] \in S
  BY LenProperties, ElementOfSeq
<1>2. \A i \in 1..n : i \in 1..Len(s) /\ s[i] \in S
  BY <1>1
<1>3. /\ SubSeq(s, 1, n) \in Seq(S)
      /\ Len(SubSeq(s, 1, n)) = n
      /\ \A i \in 1..n : SubSeq(s, 1, n)[i] = s[i]
  BY <1>1, <1>2
<1> QED
  BY <1>2, <1>3

(* read_records returns the longest undamaged prefix.                      *)
LEMMA ReadLenFacts ==
    ASSUME NEW s \in Seq(Hash \cup {Torn})
    PROVE  /\ ReadLen(s) \in 0..Len(s)
           /\ \A i \in 1..ReadLen(s) : i \in 1..Len(s) /\ s[i] \in Hash
           /\ \A i \in 1..Len(s) : (\A j \in 1..i : s[j] # Torn) => i <= ReadLen(s)
<1>1. Len(s) \in Nat /\ \A i \in 1..Len(s) : s[i] \in Hash \cup {Torn}
  BY LenProperties, ElementOfSeq
<1>2. CASE DamagedIn(s) = {}
  <2>1. ReadLen(s) = Len(s) /\ \A i \in 1..Len(s) : s[i] \in Hash
    BY <1>1, <1>2 DEF ReadLen, DamagedIn
  <2> QED
    BY <1>1, <2>1
<1>3. CASE DamagedIn(s) # {}
  <2>1. DamagedIn(s) \in SUBSET Nat
    BY <1>1 DEF DamagedIn
  <2>2. \E m \in DamagedIn(s) : \A k \in DamagedIn(s) : m <= k
    BY <1>3, <2>1, LeastNatural
  <2> DEFINE m == CHOOSE i \in DamagedIn(s) : \A j \in DamagedIn(s) : i <= j
  <2>3. m \in DamagedIn(s) /\ \A k \in DamagedIn(s) : m <= k
    BY <2>2
  <2>4. ReadLen(s) = m - 1
    BY <1>3 DEF ReadLen
  <2> HIDE DEF m
  <2>5. m \in 1..Len(s) /\ s[m] = Torn
    BY <2>3 DEF DamagedIn
  <2>6. \A i \in 1..Len(s) : i < m => s[i] # Torn
    BY <1>1, <2>3, <2>5 DEF DamagedIn
  <2>7. \A i \in 1..(m - 1) : i \in 1..Len(s) /\ i < m
    BY <1>1, <2>5
  <2>8. \A i \in 1..(m - 1) : s[i] \in Hash
    BY <1>1, <2>6, <2>7
  <2>9. \A i \in 1..Len(s) : (\A j \in 1..i : s[j] # Torn) => i <= m - 1
    BY <1>1, <2>5
  <2> QED
    BY <1>1, <2>4, <2>5, <2>7, <2>8, <2>9
<1> QED
  BY <1>2, <1>3

(* The project's operators on the file and on fork choice are these.       *)
LEMMA SameOperators ==
    /\ \A a, b : Better(a, b) <=> Beats(chain, a, b)
    /\ ReadableLen = ReadLen(log)
    /\ ReadRecords = {log[i] : i \in 1..ReadLen(log)}
<1>1. \A a, b : Better(a, b) <=> Beats(chain, a, b)
  BY DEF Better, Beats, Work
<1>2. ReadableLen = ReadLen(log)
  BY DEF ReadableLen, ReadLen, Damaged, DamagedIn
<1> QED
  BY <1>1, <1>2 DEF ReadRecords

-----------------------------------------------------------------------------
(* The inductive invariant.  The index is closed under ancestors and the   *)
(* head of a running node beats the rest of it; without faults the file    *)
(* holds only whole records, each after its ancestors, all of the running  *)
(* index, nothing better than the head, and the promised ones are synced.  *)
TypeInv == chain \in Trees /\ TypeOK

IndexInv ==
    /\ Genesis \in index
    /\ \A h \in index : chain[h] \subseteq index
    /\ up => /\ head \in index
             /\ \A x \in index \ {head} : Beats(chain, head, x)

(* The ledger is the state of the head and so is the one in every snapshot.*)
StateInv ==
    /\ ledger = StateOf(head)
    /\ pending # None => pending.ledger = StateOf(pending.head)
    /\ snapshot # None => snapshot.ledger = StateOf(snapshot.head)

SoundInv ==
    faults = {} =>
        /\ \A i \in 1..Len(log) : log[i] \in Hash
        /\ \A i \in 1..Len(log) :
              chain[log[i]] \ {log[i], Genesis} \subseteq {log[j] : j \in 1..i - 1}
        /\ promised \subseteq {log[i] : i \in 1..synced}
        /\ up => /\ index \ {Genesis} \subseteq Recs(log)
                 /\ \A r \in Recs(log) : ~Beats(chain, r, head)

LEMMA TypeFacts ==
    ASSUME TypeInv
    PROVE  /\ chain \in Trees
           /\ index \in SUBSET All
           /\ head \in All
           /\ log \in Seq(Hash \cup {Torn})
           /\ Len(log) \in Nat
           /\ synced \in 0..Len(log)
           /\ \A i \in 1..Len(log) : log[i] \in Hash \cup {Torn}
BY LenProperties, ElementOfSeq DEF TypeInv, TypeOK, All

(* The block a boot resumes at is a block of the tree.                     *)
LEMMA ReadFacts ==
    ASSUME TypeInv
    PROVE  /\ ReadRecords \subseteq Hash
           /\ HeaviestTip \in All
           /\ chain[HeaviestTip] \subseteq All
           /\ Connected # {} =>
                /\ HeaviestTip \in Connected
                /\ \A x \in Connected \ {HeaviestTip} : Beats(chain, HeaviestTip, x)
<1>1. chain \in Trees /\ log \in Seq(Hash \cup {Torn})
  BY TypeFacts
<1>2. ReadRecords \subseteq Hash
  BY <1>1, ReadLenFacts, SameOperators
<1>3. Connected \in SUBSET All
  BY <1>2 DEF Connected, All
<1>4. ASSUME Connected # {}
      PROVE  /\ HeaviestTip \in Connected
             /\ \A x \in Connected \ {HeaviestTip} : Beats(chain, HeaviestTip, x)
  <2>1. \E h \in Connected : \A x \in Connected \ {h} : Beats(chain, h, x)
    BY <1>1, <1>3, <1>4, BestExists
  <2>2. \E h \in Connected : \A x \in Connected \ {h} : Better(h, x)
    BY <2>1, SameOperators
  <2>3. /\ Best(Connected) \in Connected
        /\ \A x \in Connected \ {Best(Connected)} : Better(Best(Connected), x)
    BY <2>2 DEF Best
  <2>4. HeaviestTip = Best(Connected)
    BY <1>4 DEF HeaviestTip
  <2> QED
    BY <2>3, <2>4, SameOperators
<1>5. HeaviestTip \in All
  BY <1>3, <1>4 DEF HeaviestTip, All
<1>6. chain[HeaviestTip] \subseteq All
  BY <1>1, <1>5, TreeFacts
<1> QED
  BY <1>2, <1>4, <1>5, <1>6

(* What a step of the file does to its type.                               *)
LEMMA LogType ==
    ASSUME TypeInv, NEW e \in Hash \cup {Torn}
    PROVE  /\ Append(log, e) \in Seq(Hash \cup {Torn})
           /\ Len(Append(log, e)) = Len(log) + 1
           /\ synced \in 0..Len(Append(log, e))
           /\ Len(Append(log, e)) \in 0..Len(Append(log, e))
           /\ Records(Len(log)) \subseteq Hash
<1>1. /\ Append(log, e) \in Seq(Hash \cup {Torn})
      /\ Len(Append(log, e)) = Len(log) + 1
  BY TypeFacts, Appended
<1>2. Records(Len(log)) \subseteq Hash
  BY TypeFacts DEF Records
<1> QED
  BY <1>1, <1>2, TypeFacts

LEMMA AcceptType ==
    ASSUME TypeInv, NEW b \in Hash, Accept(b)
    PROVE  /\ index' \subseteq Hash \cup {Genesis}
           /\ head' \in Hash \cup {Genesis}
           /\ ledger' \in [Hash -> Int]
BY DEF TypeInv, TypeOK, Accept, Execute, Disconnect

LEMMA CommitType ==
    ASSUME TypeInv, Commit
    PROVE  TypeInv'
<1>1. PICK b \in Hash :
          \/ MinerCommit(b)
          \/ MinerHalts(b)
          \/ RpcSubmit(b)
          \/ RpcSubmitFails(b)
          \/ PeerImport(b)
          \/ PeerImportFails(b)
  BY DEF Commit
<1>2. /\ Append(log, b) \in Seq(Hash \cup {Torn})
      /\ synced \in 0..Len(Append(log, b))
      /\ Len(Append(log, b)) \in 0..Len(Append(log, b))
      /\ Append(log, Torn) \in Seq(Hash \cup {Torn})
      /\ synced \in 0..Len(Append(log, Torn))
      /\ Records(Len(log)) \subseteq Hash
  BY LogType
<1>3. Accept(b)
  BY <1>1 DEF MinerCommit, MinerHalts, RpcSubmit, RpcSubmitFails, PeerImport, PeerImportFails
<1>4. /\ index' \subseteq Hash \cup {Genesis}
      /\ head' \in Hash \cup {Genesis}
      /\ ledger' \in [Hash -> Int]
  BY <1>3, AcceptType
<1>5. /\ log' \in Seq(Hash \cup {Torn})
      /\ synced' \in 0..Len(log')
      /\ promised' \subseteq Hash
      /\ unsynced' \in BOOLEAN
  <2>1. AppendSynced(b) \/ AppendFailed(b) \/ AppendUnsynced(b) \/ WriteFailed
    BY <1>1 DEF MinerCommit, MinerHalts, RpcSubmit, RpcSubmitFails, PeerImport,
                PeerImportFails
  <2> QED
    BY <1>2, <2>1 DEF AppendSynced, AppendFailed, AppendUnsynced, WriteFailed, TypeInv,
                      TypeOK
<1>6. /\ chain' = chain /\ faults' = faults /\ up' = up /\ pending' = pending
      /\ snapshot' = snapshot /\ crashes' = crashes
      /\ producer' \in {"on", "halted", "ended"}
      /\ peer' \in {"idle", "job", "fsync"}
      /\ broken' \in BOOLEAN
  BY <1>1 DEF MinerCommit, MinerHalts, RpcSubmit, RpcSubmitFails, PeerImport,
              PeerImportFails, TypeInv, TypeOK
<1> QED
  BY <1>4, <1>5, <1>6 DEF TypeInv, TypeOK

(* A crash keeps every synced record.                                      *)
LEMMA PowerLossFile ==
    ASSUME TypeInv, PowerLoss
    PROVE  /\ log' \in Seq(Hash \cup {Torn})
           /\ synced' = Len(log')
           /\ synced <= Len(log')
           /\ \E n \in synced..Len(log) :
                 /\ n <= Len(log')
                 /\ \A i \in 1..n : log'[i] = log[i]
                 /\ "torn" \notin faults => Len(log') = n
<1>1. PICK n \in synced..Len(log) :
          \/ log' = SubSeq(log, 1, n)
          \/ "torn" \in faults /\ log' = Append(SubSeq(log, 1, n), Torn)
  BY DEF PowerLoss
<1>2. n \in 0..Len(log) /\ synced \in Nat /\ synced <= n /\ n \in Nat
  BY <1>1, TypeFacts
<1> DEFINE cut == SubSeq(log, 1, n)
<1>3. /\ cut \in Seq(Hash \cup {Torn})
      /\ Len(cut) = n
      /\ \A i \in 1..n : cut[i] = log[i]
  BY <1>2, TypeFacts, Cut
<1>4. Torn \in Hash \cup {Torn}
  OBVIOUS
<1> HIDE DEF cut
<1>5. /\ Append(cut, Torn) \in Seq(Hash \cup {Torn})
      /\ Len(Append(cut, Torn)) = n + 1
      /\ \A i \in 1..n : Append(cut, Torn)[i] = cut[i]
  BY <1>3, <1>4, Appended
<1>6. CASE log' = cut
  BY <1>2, <1>3, <1>6 DEF PowerLoss
<1>7. CASE "torn" \in faults /\ log' = Append(cut, Torn)
  BY <1>2, <1>3, <1>5, <1>7 DEF PowerLoss
<1> QED
  BY <1>1, <1>6, <1>7 DEF cut

LEMMA TypeStep ==
    ASSUME TypeInv, [Next]_vars
    PROVE  TypeInv'
<1>1. CASE Commit
  BY <1>1, CommitType
<1>2. CASE SyncBegin
  BY <1>2 DEF SyncBegin, TypeInv, TypeOK
<1>3. CASE SyncEnd
  <2>1. Records(Len(log)) \subseteq Hash /\ Len(log) \in 0..Len(log)
    BY TypeFacts DEF Records
  <2> QED
    BY <1>3, <2>1 DEF SyncEnd, TypeInv, TypeOK
<1>4. CASE SyncFails
  BY <1>4 DEF SyncFails, TypeInv, TypeOK
<1>5. CASE SnapshotBytes
  BY <1>5 DEF SnapshotBytes, SnapshotOf, Snapshots, TypeInv, TypeOK
<1>6. CASE FinalSnapshot
  BY <1>6 DEF FinalSnapshot, SnapshotOf, Snapshots, TypeInv, TypeOK
<1>7. CASE WriteSnapshot
  BY <1>7 DEF WriteSnapshot, TypeInv, TypeOK
<1>8. ASSUME Down, log' \in Seq(Hash \cup {Torn}), synced' \in 0..Len(log')
      PROVE  TypeInv'
  <2>1. crashes' \in 0..MaxCrashes
    BY <1>8, BoundAssumption DEF Down, TypeInv, TypeOK
  <2>2. ledger' \in [Hash -> Int]
    BY <1>8 DEF Down, FreshLedger
  <2> QED
    BY <1>8, <2>1, <2>2 DEF Down, TypeInv, TypeOK
<1>9. CASE Kill
  <2>1. log' \in {log, Append(log, Torn)} /\ synced' = synced /\ Down
    BY <1>9 DEF Kill
  <2>2. log' \in Seq(Hash \cup {Torn}) /\ synced' \in 0..Len(log')
    BY <2>1, LogType, TypeFacts
  <2> QED
    BY <1>8, <2>1, <2>2
<1>10. CASE PowerLoss
  <2>1. Down
    BY <1>10 DEF PowerLoss
  <2>2. log' \in Seq(Hash \cup {Torn}) /\ synced' \in 0..Len(log')
    BY <1>10, PowerLossFile, LenProperties
  <2> QED
    BY <1>8, <2>1, <2>2
<1>11. CASE BootResumes \/ BootReplays
  <2>1. ledger' \in [Hash -> Int]
    <3>1. CASE BootResumes
      <4>1. Resumed(HeaviestTip) = StateOf(HeaviestTip)
        BY <3>1 DEF BootResumes, ResumeFromSnapshot, ReplayedStateMatchesHead
      <4> QED
        BY <3>1, <4>1 DEF BootResumes, StateOf
    <3>2. CASE BootReplays
      BY <3>2 DEF BootReplays, Execute, FreshLedger
    <3> QED
      BY <1>11, <3>1, <3>2
  <2>2. head' \in All /\ index' \subseteq All
    BY <1>11, ReadFacts DEF BootResumes, BootReplays, Restart
  <2>3. snapshot' \in Snapshots \cup {None}
    BY <1>11, <2>1, <2>2 DEF BootResumes, BootReplays, SnapshotOf, Snapshots, TypeInv, TypeOK, All
  <2> QED
    BY <1>11, <2>1, <2>2, <2>3 DEF BootResumes, BootReplays, Restart, TypeInv, TypeOK, All
<1>12. CASE UNCHANGED vars
  BY <1>12 DEF vars, memVars, TypeInv, TypeOK
<1> QED
  BY <1>1, <1>2, <1>3, <1>4, <1>5, <1>6, <1>7, <1>9, <1>10, <1>11, <1>12 DEF Next

-----------------------------------------------------------------------------
(* The running index.                                                      *)
LEMMA AcceptIndex ==
    ASSUME TypeInv, IndexInv, NEW b \in Hash, Accept(b), chain' = chain, up' = up
    PROVE  /\ IndexInv'
           /\ ~Beats(chain, b, head')
           /\ \A r \in All : ~Beats(chain, r, head) => ~Beats(chain, r, head')
<1>1. /\ chain \in Trees /\ head \in All /\ b \in All /\ index \in SUBSET All
      /\ b \notin index /\ chain[b] \ {b} \subseteq index /\ up
      /\ index' = index \cup {b}
      /\ head' = IF Beats(chain, b, head) THEN b ELSE head
  BY TypeFacts, SameOperators DEF Accept, Offered, All
<1>2. head \in index /\ \A x \in index \ {head} : Beats(chain, head, x)
  BY <1>1 DEF IndexInv
<1>3. \A x \in index' \ {head'} : Beats(chain, head', x)
  <2>1. CASE Beats(chain, b, head)
    BY <1>1, <1>2, <2>1, BeatsOrder
  <2>2. CASE ~Beats(chain, b, head)
    BY <1>1, <1>2, <2>2, BeatsOrder
  <2> QED
    BY <2>1, <2>2
<1>4. \A h \in index' : chain[h] \subseteq index'
  BY <1>1 DEF IndexInv
<1>5. ~Beats(chain, b, head')
  BY <1>1, BeatsOrder
<1>6. \A r \in All : ~Beats(chain, r, head) => ~Beats(chain, r, head')
  <2>1. CASE Beats(chain, b, head)
    BY <1>1, <2>1, BeatsOrder
  <2>2. CASE ~Beats(chain, b, head)
    BY <1>1, <2>2
  <2> QED
    BY <2>1, <2>2
<1> QED
  BY <1>1, <1>3, <1>4, <1>5, <1>6 DEF IndexInv

LEMMA IndexStep ==
    ASSUME TypeInv, IndexInv, [Next]_vars
    PROVE  IndexInv'
<1>1. CASE Commit
  <2>1. PICK b \in Hash : Accept(b) /\ chain' = chain /\ up' = up
    BY <1>1 DEF Commit, MinerCommit, MinerHalts, RpcSubmit, RpcSubmitFails, PeerImport,
                PeerImportFails
  <2> QED
    BY <2>1, AcceptIndex
<1>2. CASE Kill \/ PowerLoss
  <2>1. chain[Genesis] = {Genesis}
    BY TypeFacts, TreeFacts
  <2> QED
    BY <1>2, <2>1 DEF Kill, PowerLoss, Down, IndexInv
<1>3. CASE BootResumes \/ BootReplays
  <2> DEFINE tip == HeaviestTip
  <2>1. /\ chain' = chain /\ index' = chain[tip] /\ head' = tip
    BY <1>3 DEF BootResumes, BootReplays, Restart
  <2>2. chain \in Trees /\ tip \in All
    BY TypeFacts, ReadFacts
  <2> HIDE DEF tip
  <2>3. /\ Genesis \in chain[tip] /\ tip \in chain[tip]
        /\ \A h \in chain[tip] : chain[h] \subseteq chain[tip]
    BY <2>2, TreeFacts
  <2>4. \A x \in chain[tip] \ {tip} : Beats(chain, tip, x)
    BY <2>2, BeatsAncestors
  <2> QED
    BY <2>1, <2>3, <2>4 DEF IndexInv
<1>4. CASE \/ SyncBegin \/ SyncEnd \/ SyncFails \/ SnapshotBytes
           \/ FinalSnapshot \/ WriteSnapshot \/ UNCHANGED vars
  <2>1. /\ chain' = chain /\ index' = index /\ up' = up /\ head' = head
    BY <1>4 DEF SyncBegin, SyncEnd, SyncFails, SnapshotBytes, FinalSnapshot, WriteSnapshot,
                vars, memVars
  <2> QED
    BY <2>1 DEF IndexInv
<1> QED
  BY <1>1, <1>2, <1>3, <1>4 DEF Next

-----------------------------------------------------------------------------
(* The state.  A reorg leaves the state of the new head: what it undoes    *)
(* and what it executes are the two sides of the fork.                     *)
LEMMA ReorgState ==
    ASSUME NEW a, NEW b
    PROVE  Execute(Disconnect(StateOf(a), chain[a] \ chain[b]), chain[b] \ chain[a]) = StateOf(b)
BY DEF Execute, Disconnect, StateOf

LEMMA ReplayState ==
    ASSUME NEW h
    PROVE  Execute(FreshLedger, chain[h]) = StateOf(h)
BY DEF Execute, FreshLedger, StateOf

(* The blocks of a chain above one of its blocks in work are exactly those *)
(* the state of that block lacks.                                          *)
LEMMA GapState ==
    ASSUME chain \in Trees, NEW tip \in All, NEW s \in chain[tip]
    PROVE  Execute(StateOf(s), {b \in chain[tip] : Work(b) > Work(s)}) = StateOf(tip)
<1> DEFINE gap == {b \in chain[tip] : Work(b) > Work(s)}
<1>1. s \in All /\ chain[s] \subseteq chain[tip] /\ chain[tip] \subseteq All
  BY TreeFacts
<1>2. \A b \in All : Work(b) \in Nat
  BY TreeFacts DEF Work
<1>3. ASSUME NEW b \in chain[s]
      PROVE  b \notin gap
  <2>1. b = s \/ Work(b) < Work(s)
    BY <1>1, BeatsAncestors DEF Work
  <2> QED
    BY <1>1, <1>2, <2>1
<1>4. ASSUME NEW b \in chain[tip], b \notin chain[s]
      PROVE  b \in gap
  <2>1. b \in All /\ s \in chain[b] /\ s # b
    BY <1>1, <1>4, TreeFacts
  <2>2. Work(s) < Work(b)
    BY <2>1, BeatsAncestors DEF Work
  <2> QED
    BY <1>1, <1>2, <2>1, <2>2
<1>5. gap \subseteq chain[tip]
  OBVIOUS
<1> HIDE DEF gap
<1>6. \A b \in Hash : (IF b \in gap THEN StateOf(s)[b] + 1 ELSE StateOf(s)[b])
                        = IF b \in chain[tip] THEN 1 ELSE 0
  BY <1>1, <1>3, <1>4, <1>5 DEF StateOf
<1>7. Execute(StateOf(s), gap) = StateOf(tip)
  BY <1>6 DEF Execute, StateOf
<1> QED
  BY <1>7 DEF gap

LEMMA StateStep ==
    ASSUME TypeInv, StateInv, [Next]_vars
    PROVE  StateInv'
<1>1. chain' = chain
  BY DEF Next, Commit, MinerCommit, MinerHalts, RpcSubmit, RpcSubmitFails, PeerImport,
         PeerImportFails, SyncBegin, SyncEnd, SyncFails, SnapshotBytes, FinalSnapshot,
         WriteSnapshot, Kill, PowerLoss, Down, BootResumes, BootReplays, Restart, vars
<1>2. CASE Commit
  <2>1. PICK b \in Hash : Accept(b) /\ pending' = pending /\ snapshot' = snapshot
    BY <1>2 DEF Commit, MinerCommit, MinerHalts, RpcSubmit, RpcSubmitFails, PeerImport,
                PeerImportFails
  <2>2. ledger' = StateOf(head')
    BY <2>1, ReorgState DEF Accept, StateInv
  <2> QED
    BY <1>1, <2>1, <2>2 DEF StateInv, StateOf
<1>3. CASE SnapshotBytes \/ FinalSnapshot
  <2>1. /\ head' = head /\ ledger' = ledger /\ snapshot' = snapshot
        /\ pending'.head = head /\ pending'.ledger = ledger
    BY <1>3 DEF SnapshotBytes, FinalSnapshot, SnapshotOf
  <2> QED
    BY <1>1, <2>1 DEF StateInv, StateOf
<1>4. CASE WriteSnapshot
  <2>1. /\ head' = head /\ ledger' = ledger /\ snapshot' = pending /\ pending' = None
    BY <1>4 DEF WriteSnapshot
  <2> QED
    BY <1>1, <2>1 DEF StateInv, StateOf
<1>5. CASE Kill \/ PowerLoss
  <2>1. chain[Genesis] = {Genesis} /\ Genesis \notin Hash
    BY TypeFacts, TreeFacts, HashAssumption
  <2>2. FreshLedger = StateOf(Genesis)
    BY <2>1 DEF FreshLedger, StateOf
  <2>3. /\ head' = Genesis /\ ledger' = FreshLedger /\ snapshot' = snapshot /\ pending' = None
    BY <1>5 DEF Kill, PowerLoss, Down
  <2> QED
    BY <1>1, <2>2, <2>3 DEF StateInv, StateOf
<1>6. CASE BootResumes \/ BootReplays
  <2>1. head' = HeaviestTip /\ pending' = pending
    BY <1>6 DEF BootResumes, BootReplays, Restart
  <2>2. ledger' = StateOf(head')
    BY <1>6, <2>1, ReplayState DEF BootResumes, BootReplays, ResumeFromSnapshot,
                                   ReplayedStateMatchesHead
  <2>3. \/ snapshot' = snapshot
        \/ snapshot'.head = head' /\ snapshot'.ledger = ledger'
    BY <1>6 DEF BootResumes, BootReplays, SnapshotOf
  <2> QED
    BY <1>1, <2>1, <2>2, <2>3 DEF StateInv, StateOf
<1>7. CASE SyncBegin \/ SyncEnd \/ SyncFails \/ UNCHANGED vars
  <2>1. /\ head' = head /\ ledger' = ledger /\ snapshot' = snapshot /\ pending' = pending
    BY <1>7 DEF SyncBegin, SyncEnd, SyncFails, vars, memVars
  <2> QED
    BY <1>1, <2>1 DEF StateInv, StateOf
<1> QED
  BY <1>2, <1>3, <1>4, <1>5, <1>6, <1>7 DEF Next

-----------------------------------------------------------------------------
(* Sound storage.                                                          *)
LEMMA AppendSound ==
    ASSUME TypeInv, IndexInv, SoundInv, faults = {}, NEW b \in Hash, Accept(b),
           chain' = chain, up' = up, faults' = faults,
           log' = Append(log, b), synced' \in {synced, Len(log')},
           promised' \subseteq promised \cup Recs(log) \cup {b},
           synced' = synced => promised' = promised
    PROVE  SoundInv'
<1>1. /\ Len(log) \in Nat /\ Len(log') = Len(log) + 1
      /\ \A i \in 1..Len(log) : log'[i] = log[i]
      /\ log'[Len(log) + 1] = b
      /\ Recs(log') = Recs(log) \cup {b}
      /\ synced \in 0..Len(log)
  BY TypeFacts, Appended
<1>2. PICK n \in Nat : n = Len(log)
  BY <1>1
<1>3. \A i \in 1..Len(log') : i \in 1..n \/ i = n + 1
  BY <1>1, <1>2
<1>4. \A i \in 1..Len(log) : log[i] \in Hash
  BY DEF SoundInv
<1>5. \A i \in 1..Len(log') : log'[i] \in Hash
  BY <1>1, <1>2, <1>3, <1>4
<1>6. up /\ index' = index \cup {b} /\ chain[b] \ {b} \subseteq index
  BY DEF Accept, Offered
<1>7. index \ {Genesis} \subseteq Recs(log) /\ \A r \in Recs(log) : ~Beats(chain, r, head)
  BY <1>6 DEF SoundInv
<1>8. ASSUME NEW i \in 1..Len(log')
      PROVE  chain[log'[i]] \ {log'[i], Genesis} \subseteq {log'[j] : j \in 1..i - 1}
  <2>1. CASE i \in 1..n
    <3>1. chain[log[i]] \ {log[i], Genesis} \subseteq {log[j] : j \in 1..i - 1}
      BY <1>2, <2>1 DEF SoundInv
    <3>2. \A j \in 1..i - 1 : log'[j] = log[j]
      BY <1>1, <1>2, <2>1
    <3> QED
      BY <1>1, <1>2, <2>1, <3>1, <3>2
  <2>2. CASE i = n + 1
    <3>1. i - 1 = n /\ log'[i] = b
      BY <1>1, <1>2, <2>2
    <3>2. chain[b] \ {b, Genesis} \subseteq Recs(log)
      BY <1>6, <1>7
    <3>3. Recs(log) = {log'[j] : j \in 1..n}
      BY <1>1, <1>2 DEF Recs
    <3> QED
      BY <3>1, <3>2, <3>3
  <2> QED
    BY <1>3, <2>1, <2>2
<1>9. promised' \subseteq {log'[i] : i \in 1..synced'}
  <2>1. promised \subseteq {log[i] : i \in 1..synced}
    BY DEF SoundInv
  <2>2. \A i \in 1..synced : i \in 1..Len(log)
    BY <1>1
  <2>3. promised \subseteq {log'[i] : i \in 1..synced} /\ promised \subseteq Recs(log)
    BY <1>1, <2>1, <2>2 DEF Recs
  <2>4. CASE synced' = synced
    BY <2>3, <2>4
  <2>5. CASE synced' = Len(log')
    <3>1. promised' \subseteq Recs(log')
      BY <1>1, <2>3
    <3> QED
      BY <2>5, <3>1 DEF Recs
  <2> QED
    BY <2>4, <2>5
<1>10. /\ ~Beats(chain, b, head')
       /\ \A r \in All : ~Beats(chain, r, head) => ~Beats(chain, r, head')
  BY AcceptIndex
<1>11. \A r \in Recs(log') : ~Beats(chain, r, head')
  <2>1. Recs(log) \subseteq All
    BY <1>4 DEF Recs, All
  <2> QED
    BY <1>1, <1>7, <1>10, <2>1
<1>12. index' \ {Genesis} \subseteq Recs(log')
  BY <1>1, <1>6, <1>7
<1> QED
  BY <1>5, <1>8, <1>9, <1>11, <1>12 DEF SoundInv

LEMMA CommitSound ==
    ASSUME TypeInv, IndexInv, SoundInv, faults = {}, Commit
    PROVE  SoundInv'
<1>1. PICK b \in Hash : MinerCommit(b) \/ RpcSubmit(b) \/ PeerImport(b)
  BY DEF Commit, MinerHalts, RpcSubmitFails, PeerImportFails, AppendFailed, WriteFailed
<1>2. /\ Accept(b) /\ chain' = chain /\ up' = up /\ faults' = faults
      /\ AppendSynced(b) \/ AppendUnsynced(b)
  BY <1>1 DEF MinerCommit, RpcSubmit, PeerImport
<1>3. Records(Len(log)) \subseteq Recs(log)
  BY DEF Records, Recs
<1>4. /\ log' = Append(log, b)
      /\ promised' \subseteq promised \cup Recs(log) \cup {b}
  BY <1>2, <1>3 DEF AppendSynced, AppendUnsynced
<1>5. synced' = Len(log') \/ (synced' = synced /\ promised' = promised)
  BY <1>2 DEF AppendSynced, AppendUnsynced
<1>6. CASE synced' = synced /\ promised' = promised
  BY <1>2, <1>4, <1>6, AppendSound
<1>7. CASE synced' = Len(log')
  <2>1. Len(log') = Len(log) + 1 /\ Len(log) \in Nat /\ synced \in 0..Len(log)
    BY <1>4, TypeFacts, Appended
  <2>2. synced' # synced
    BY <1>7, <2>1
  <2> QED
    BY <1>2, <1>4, <1>7, <2>2, AppendSound
<1> QED
  BY <1>5, <1>6, <1>7

LEMMA ReadsAll ==
    ASSUME SoundInv, faults = {}
    PROVE  ReadRecords = Recs(log)
<1>1. DamagedIn(log) = {}
  BY TagAssumption DEF SoundInv, DamagedIn
<1> QED
  BY <1>1, SameOperators DEF ReadLen, Recs

(* Without damage a boot reads every record, all of them connect, and it   *)
(* resumes at the best of them.                                            *)
LEMMA SoundRead ==
    ASSUME TypeInv, SoundInv, faults = {}
    PROVE  /\ ReadRecords = Recs(log)
           /\ Connected = Recs(log)
           /\ HeaviestTip \in Recs(log) \cup {Genesis}
           /\ \A r \in Recs(log) : ~Beats(chain, r, HeaviestTip)
           /\ chain[HeaviestTip] \ {Genesis} \subseteq Recs(log)
<1>1. \A i \in 1..Len(log) : log[i] \in Hash
  BY DEF SoundInv
<1>3. ReadRecords = Recs(log)
  BY ReadsAll
<1>4. ASSUME NEW i \in 1..Len(log)
      PROVE  chain[log[i]] \ {Genesis} \subseteq Recs(log)
  <2>1. chain[log[i]] \ {log[i], Genesis} \subseteq {log[j] : j \in 1..i - 1}
    BY DEF SoundInv
  <2>2. \A j \in 1..i - 1 : j \in 1..Len(log)
    BY TypeFacts
  <2> QED
    BY <2>1, <2>2 DEF Recs
<1>5. Connected = Recs(log)
  BY <1>3, <1>4 DEF Connected, Recs
<1>6. CASE Recs(log) = {}
  <2>1. HeaviestTip = Genesis
    BY <1>5, <1>6 DEF HeaviestTip
  <2>2. chain[Genesis] = {Genesis}
    BY TypeFacts, TreeFacts
  <2> QED
    BY <1>3, <1>5, <1>6, <2>1, <2>2
<1>7. CASE Recs(log) # {}
  <2>1. /\ HeaviestTip \in Recs(log)
        /\ \A x \in Recs(log) \ {HeaviestTip} : Beats(chain, HeaviestTip, x)
    BY <1>5, <1>7, ReadFacts
  <2>2. Recs(log) \subseteq All
    BY <1>1 DEF Recs, All
  <2>3. \A r \in Recs(log) : ~Beats(chain, r, HeaviestTip)
    BY <2>1, <2>2, TypeFacts, BeatsOrder
  <2>4. chain[HeaviestTip] \ {Genesis} \subseteq Recs(log)
    BY <1>4, <2>1 DEF Recs
  <2> QED
    BY <1>3, <1>5, <2>1, <2>3, <2>4
<1> QED
  BY <1>6, <1>7

LEMMA CrashSound ==
    ASSUME TypeInv, SoundInv, faults = {}, Kill \/ PowerLoss
    PROVE  /\ SoundInv'
           /\ promised' = promised
           /\ promised \subseteq Recs(log')
           /\ Recs(log') \subseteq Recs(log)
<1>1. up' = FALSE /\ chain' = chain /\ promised' = promised /\ faults' = faults
  BY DEF Kill, PowerLoss, Down
<1>2. Len(log) \in Nat /\ synced \in 0..Len(log)
  BY TypeFacts
<1>3. PICK n \in synced..Len(log) :
          /\ Len(log') = n
          /\ \A i \in 1..n : log'[i] = log[i]
          /\ synced' \in {synced, n}
  <2>1. CASE Kill
    <3>1. log' = log /\ synced' = synced
      BY <2>1 DEF Kill
    <3> QED
      BY <1>2, <3>1
  <2>2. CASE PowerLoss
    BY <2>2, PowerLossFile
  <2> QED
    BY <2>1, <2>2
<1>4. n \in Nat /\ synced <= n /\ n <= Len(log) /\ synced \in Nat
  BY <1>2, <1>3
<1>5. \A i \in 1..n : i \in 1..Len(log)
  BY <1>2, <1>4
<1>6. \A i \in 1..Len(log') : log'[i] \in Hash
  BY <1>3, <1>5 DEF SoundInv
<1>7. ASSUME NEW i \in 1..Len(log')
      PROVE  chain[log'[i]] \ {log'[i], Genesis} \subseteq {log'[j] : j \in 1..i - 1}
  <2>1. chain[log[i]] \ {log[i], Genesis} \subseteq {log[j] : j \in 1..i - 1}
    BY <1>3, <1>5 DEF SoundInv
  <2>2. \A j \in 1..i - 1 : log'[j] = log[j]
    BY <1>3, <1>4
  <2> QED
    BY <1>3, <2>1, <2>2
<1>8. promised \subseteq {log'[i] : i \in 1..synced}
  <2>1. promised \subseteq {log[i] : i \in 1..synced}
    BY DEF SoundInv
  <2>2. \A i \in 1..synced : i \in 1..n
    BY <1>4
  <2> QED
    BY <1>3, <2>1, <2>2
<1>9. \A i \in 1..synced : i \in 1..synced' /\ i \in 1..n
  BY <1>3, <1>4
<1>10. promised' \subseteq {log'[i] : i \in 1..synced'} /\ promised \subseteq Recs(log')
  BY <1>1, <1>3, <1>8, <1>9 DEF Recs
<1>11. Recs(log') \subseteq Recs(log)
  BY <1>3, <1>5 DEF Recs
<1>12. SoundInv'
  BY <1>1, <1>6, <1>7, <1>10 DEF SoundInv
<1> QED
  BY <1>1, <1>10, <1>11, <1>12

LEMMA SoundStep ==
    ASSUME TypeInv, IndexInv, SoundInv, [Next]_vars
    PROVE  SoundInv'
<1>1. faults' = faults /\ chain' = chain
  BY DEF Next, Commit, MinerCommit, MinerHalts, RpcSubmit, RpcSubmitFails, PeerImport,
         PeerImportFails, SyncBegin, SyncEnd, SyncFails, SnapshotBytes, FinalSnapshot,
         WriteSnapshot, Kill, PowerLoss, Down, BootResumes, BootReplays, Restart, vars
<1>2. SUFFICES ASSUME faults = {}
               PROVE  SoundInv'
  BY <1>1 DEF SoundInv
<1>3. CASE Commit
  BY <1>2, <1>3, CommitSound
<1>4. CASE Kill \/ PowerLoss
  BY <1>2, <1>4, CrashSound
<1>5. CASE SyncEnd
  <2>1. /\ log' = log /\ up' = up /\ index' = index /\ head' = head
        /\ synced' = Len(log) /\ promised' = promised \cup Records(Len(log))
    BY <1>5 DEF SyncEnd
  <2>2. promised \subseteq {log[i] : i \in 1..synced} /\ \A i \in 1..synced : i \in 1..Len(log)
    BY <1>2, TypeFacts DEF SoundInv
  <2>3. promised' \subseteq {log'[i] : i \in 1..synced'}
    BY <2>1, <2>2 DEF Records
  <2> QED
    BY <1>1, <1>2, <2>1, <2>3 DEF SoundInv
<1>6. CASE BootResumes \/ BootReplays
  <2>1. /\ log' = log /\ synced' = synced /\ promised' = promised
        /\ index' = chain[HeaviestTip] /\ head' = HeaviestTip
    BY <1>6 DEF BootResumes, BootReplays, Restart
  <2>2. /\ \A r \in Recs(log) : ~Beats(chain, r, HeaviestTip)
        /\ chain[HeaviestTip] \ {Genesis} \subseteq Recs(log)
    BY <1>2, SoundRead
  <2>3. /\ index' \ {Genesis} \subseteq Recs(log')
        /\ \A r \in Recs(log') : ~Beats(chain', r, head')
    BY <1>1, <2>1, <2>2
  <2> QED
    BY <1>1, <1>2, <2>1, <2>3 DEF SoundInv
<1>7. CASE \/ SyncBegin \/ SyncFails \/ SnapshotBytes
           \/ FinalSnapshot \/ WriteSnapshot \/ UNCHANGED vars
  <2>1. /\ log' = log /\ up' = up /\ index' = index /\ head' = head
        /\ synced' = synced /\ promised' = promised
    BY <1>7 DEF SyncBegin, SyncFails, SnapshotBytes, FinalSnapshot, WriteSnapshot, vars, memVars
  <2> QED
    BY <1>1, <1>2, <2>1 DEF SoundInv
<1> QED
  BY <1>3, <1>4, <1>5, <1>6, <1>7 DEF Next

-----------------------------------------------------------------------------
Inv == TypeInv /\ IndexInv /\ StateInv /\ SoundInv

LEMMA InitInv ==
    ASSUME Init
    PROVE  Inv
<1>1. TypeInv
  <2>1. log \in Seq(Hash \cup {Torn}) /\ synced \in 0..Len(log)
    BY EmptySeq DEF Init
  <2>2. chain \in [Hash \cup {Genesis} -> SUBSET (Hash \cup {Genesis})]
    BY TreesAssumption DEF Init
  <2>3. crashes \in 0..MaxCrashes
    BY BoundAssumption DEF Init
  <2>4. ledger \in [Hash -> Int]
    BY DEF Init, FreshLedger
  <2> QED
    BY <2>1, <2>2, <2>3, <2>4 DEF Init, TypeInv, TypeOK
<1>2. chain[Genesis] = {Genesis}
  BY <1>1, TypeFacts, TreeFacts
<1>3. IndexInv
  BY <1>2 DEF Init, IndexInv
<1>4. Len(log) = 0 /\ Recs(log) = {}
  BY DEF Init, Recs
<1>5. SoundInv
  BY <1>4 DEF Init, SoundInv
<1>6. StateInv
  <2>1. FreshLedger = StateOf(Genesis)
    BY <1>2, HashAssumption DEF FreshLedger, StateOf
  <2> QED
    BY <2>1 DEF Init, StateInv
<1> QED
  BY <1>1, <1>3, <1>5, <1>6 DEF Inv

(* Inv is inductive.                                                       *)
THEOREM Inductive == Spec => []Inv
<1>1. Init => Inv
  BY InitInv
<1>2. Inv /\ [Next]_vars => Inv'
  BY TypeStep, IndexStep, StateStep, SoundStep DEF Inv
<1> QED
  BY <1>1, <1>2, PTL DEF Spec

(* However a node came up (live imports and reorgs, a resume from the      *)
(* snapshot, a replay), whatever the log lost and whatever storage did:    *)
(* every block of its head's chain is executed once in its ledger and no   *)
(* other is, its head is the best block it knows, and a snapshot on the    *)
(* chain to boot passes both comparisons of state roots.                   *)
THEOREM BootIsConsistent == Spec => []BootConsistent
<1>1. Inv => BootConsistent
  <2>1. SUFFICES ASSUME Inv
                 PROVE  /\ up => ledger = StateOf(head) /\ head = Best(index)
                        /\ ~up /\ snapshot # None =>
                              (snapshot.head \in chain[HeaviestTip] \ {Genesis} =>
                                  ResumeFromSnapshot(HeaviestTip))
    BY DEF Inv, TypeInv, BootConsistent
  <2>2. ASSUME snapshot # None, snapshot.head \in chain[HeaviestTip] \ {Genesis}
        PROVE  ResumeFromSnapshot(HeaviestTip)
    <3>1. snapshot.ledger = StateOf(snapshot.head)
      BY <2>1, <2>2 DEF Inv, StateInv
    <3>2. chain \in Trees /\ HeaviestTip \in All
      BY <2>1, TypeFacts, ReadFacts DEF Inv
    <3>3. Resumed(HeaviestTip) = StateOf(HeaviestTip)
      BY <2>2, <3>1, <3>2, GapState DEF Resumed
    <3> QED
      BY <2>2, <3>1, <3>3 DEF ResumeFromSnapshot, ReplayedStateMatchesHead
  <2>3. ASSUME up
        PROVE  ledger = StateOf(head) /\ head = Best(index)
    <3>1. ledger = StateOf(head)
      BY <2>1 DEF Inv, StateInv
    <3>2. /\ chain \in Trees /\ index \in SUBSET All /\ head \in index
          /\ \A x \in index \ {head} : Beats(chain, head, x)
      BY <2>1, <2>3, TypeFacts DEF Inv, IndexInv
    <3>3. head \in index /\ \A x \in index \ {head} : Better(head, x)
      BY <3>2, SameOperators
    <3>4. ASSUME NEW h \in index, \A x \in index \ {h} : Better(h, x), h # head
          PROVE  FALSE
      <4>1. Beats(chain, h, head) /\ Beats(chain, head, h)
        BY <3>2, <3>4, SameOperators
      <4> QED
        BY <3>2, <4>1, BeatsOrder
    <3> QED
      BY <3>1, <3>3, <3>4 DEF Best
  <2> QED
    BY <2>2, <2>3
<1> QED
  BY <1>1, Inductive, PTL

(* On sound storage every record follows its ancestors in the file, for    *)
(* any interleaving of the miner, submitBlock and the verifier.            *)
THEOREM LogIsClosed == Spec => []LogClosed
<1>1. Inv => LogClosed
  BY DEF Inv, SoundInv, LogClosed
<1> QED
  BY <1>1, Inductive, PTL

(* On sound storage a running node stands at least as high as every block  *)
(* it has reported durable, through any number of crashes.                 *)
THEOREM NeverRegresses == Spec => []NoRegression
<1>1. Inv => NoRegression
  <2>1. SUFFICES ASSUME Inv, faults = {}, up, NEW b \in promised
                 PROVE  ~Better(b, head)
    BY DEF NoRegression
  <2>2. promised \subseteq {log[i] : i \in 1..synced} /\ \A r \in Recs(log) : ~Beats(chain, r, head)
    BY <2>1 DEF Inv, SoundInv
  <2>3. \A i \in 1..synced : i \in 1..Len(log)
    BY <2>1, TypeFacts DEF Inv
  <2>4. b \in Recs(log)
    BY <2>2, <2>3 DEF Recs
  <2> QED
    BY <2>2, <2>4, SameOperators
<1> QED
  BY <1>1, Inductive, PTL

-----------------------------------------------------------------------------
(* The refinement of the abstract store.                                   *)
LEMMA ReadsAllNext ==
    ASSUME SoundInv', faults' = {}
    PROVE  ReadRecords' = Recs(log')
<1>1. DamagedIn(log') = {}
  BY TagAssumption DEF SoundInv, DamagedIn
<1>2. ReadRecords' = {log'[i] : i \in 1..ReadLen(log')}
  BY DEF ReadRecords, ReadableLen, ReadLen, Damaged, DamagedIn
<1> QED
  BY <1>1, <1>2 DEF ReadLen, Recs

LEMMA CommitRefines ==
    ASSUME Inv, SoundInv', faults = {}, faults' = {}, Commit
    PROVE  Store!StoreNext
<1>1. PICK b \in Hash : MinerCommit(b) \/ RpcSubmit(b) \/ PeerImport(b)
  BY DEF Commit, MinerHalts, RpcSubmitFails, PeerImportFails, AppendFailed, WriteFailed
<1>2. AppendSynced(b) \/ AppendUnsynced(b)
  BY <1>1 DEF MinerCommit, RpcSubmit, PeerImport
<1>3. ReadRecords = Recs(log) /\ ReadRecords' = Recs(log')
  BY ReadsAll, ReadsAllNext DEF Inv
<1>4. Recs(log') = Recs(log) \cup {b}
  <2>1. log' = Append(log, b)
    BY <1>2 DEF AppendSynced, AppendUnsynced
  <2> QED
    BY <2>1, TypeFacts, Appended DEF Inv
<1>5. CASE AppendUnsynced(b)
  <2>1. promised' = promised
    BY <1>5 DEF AppendUnsynced
  <2>2. Store!Learn
    BY <1>3, <1>4, <2>1 DEF Store!Learn, Sound
  <2> QED
    BY <2>2 DEF Store!StoreNext
<1>6. CASE AppendSynced(b)
  <2> DEFINE D == Records(Len(log)) \cup {b}
  <2>1. promised' = promised \cup D
    BY <1>6 DEF AppendSynced
  <2>2. D \subseteq Recs(log')
    BY <1>4 DEF Records, Recs
  <2>3. Store!LearnDurably
    BY <1>3, <1>4, <2>1, <2>2 DEF Store!LearnDurably, Sound
  <2> QED
    BY <2>3 DEF Store!StoreNext
<1> QED
  BY <1>2, <1>5, <1>6

LEMMA StepRefines ==
    ASSUME Inv, Inv', [Next]_vars
    PROVE  [Store!StoreNext]_(Store!storeVars)
<1>1. faults' = faults
  BY DEF Next, Commit, MinerCommit, MinerHalts, RpcSubmit, RpcSubmitFails, PeerImport,
         PeerImportFails, SyncBegin, SyncEnd, SyncFails, SnapshotBytes, FinalSnapshot,
         WriteSnapshot, Kill, PowerLoss, Down, BootResumes, BootReplays, Restart, vars
<1>2. CASE faults # {}
  BY <1>1, <1>2 DEF Store!storeVars, Sound
<1>3. CASE faults = {}
  <2>1. SoundInv /\ SoundInv' /\ TypeInv /\ faults' = {}
    BY <1>1, <1>3 DEF Inv
  <2>2. ReadRecords = Recs(log) /\ ReadRecords' = Recs(log')
    BY <1>3, <2>1, ReadsAll, ReadsAllNext
  <2>3. CASE Commit
    BY <1>3, <2>1, <2>3, CommitRefines
  <2>4. CASE Kill \/ PowerLoss
    <3>1. promised' = promised /\ promised \subseteq Recs(log') /\ Recs(log') \subseteq Recs(log)
      BY <1>3, <2>1, <2>4, CrashSound
    <3>2. Store!Lose
      BY <1>3, <2>1, <2>2, <3>1 DEF Store!Lose, Sound
    <3> QED
      BY <3>2 DEF Store!StoreNext
  <2>5. CASE SyncEnd
    <3> DEFINE D == Records(Len(log))
    <3>1. log' = log /\ promised' = promised \cup D /\ D \subseteq Recs(log)
      BY <2>5 DEF SyncEnd, Records, Recs
    <3>2. Store!Harden
      BY <1>3, <2>1, <2>2, <3>1 DEF Store!Harden, Sound
    <3> QED
      BY <3>2 DEF Store!StoreNext
  <2>6. CASE \/ SyncBegin \/ SyncFails \/ SnapshotBytes \/ FinalSnapshot
             \/ WriteSnapshot \/ BootResumes \/ BootReplays \/ UNCHANGED vars
    <3>1. log' = log /\ promised' = promised
      BY <2>6 DEF SyncBegin, SyncFails, SnapshotBytes, FinalSnapshot, WriteSnapshot,
                  BootResumes, BootReplays, Restart, vars
    <3> QED
      BY <1>3, <2>1, <2>2, <3>1 DEF Store!storeVars, Sound
  <2> QED
    BY <2>3, <2>4, <2>5, <2>6 DEF Next
<1> QED
  BY <1>2, <1>3

(* On sound storage the log is the abstract store: what append or sync     *)
(* reported durable is read back after every crash, and a restart recovers *)
(* nothing that was not appended.                                          *)
THEOREM LogImplementsStore == Spec => ImplementsStore
<1>1. Init => Store!StoreInit
  <2>1. SUFFICES ASSUME Init
                 PROVE  Store!StoreInit
    OBVIOUS
  <2>2. SoundInv
    BY <2>1, InitInv DEF Inv
  <2>3. promised = {} /\ Len(log) = 0
    BY <2>1 DEF Init
  <2>4. Recs(log) = {}
    BY <2>3 DEF Recs
  <2>5. faults = {} => ReadRecords = {}
    BY <2>2, <2>4, ReadsAll
  <2> QED
    BY <2>3, <2>5 DEF Store!StoreInit, Sound
<1>2. Inv /\ Inv' /\ [Next]_vars => [Store!StoreNext]_(Store!storeVars)
  BY StepRefines
<1> QED
  BY <1>1, <1>2, Inductive, PTL DEF Spec, ImplementsStore, Store!StoreSpec

-----------------------------------------------------------------------------
(* Whatever storage does, what a restart would read of the synced part of  *)
(* the file is never taken back.                                           *)
LEMMA PrefixStep ==
    ASSUME TypeInv, TypeInv', [Next]_vars, NEW i \in 1..ReadableLen, i <= synced
    PROVE  i <= ReadableLen' /\ log'[i] = log[i]
<1>1. /\ log \in Seq(Hash \cup {Torn}) /\ log' \in Seq(Hash \cup {Torn})
      /\ Len(log) \in Nat /\ Len(log') \in Nat /\ synced \in 0..Len(log)
  BY LenProperties DEF TypeInv, TypeOK
<1>2. /\ i \in 1..ReadLen(log) /\ i \in 1..Len(log)
      /\ \A j \in 1..i : log[j] \in Hash
  <2>1. ReadLen(log) \in 0..Len(log) /\ i \in 1..ReadLen(log)
    BY <1>1, ReadLenFacts, SameOperators
  <2>2. \A j \in 1..i : j \in 1..ReadLen(log)
    BY <1>1, <2>1
  <2> QED
    BY <1>1, <2>1, <2>2, ReadLenFacts
<1>3. i <= Len(log') /\ \A j \in 1..i : log'[j] = log[j]
  <2>1. CASE Commit
    <3>1. PICK b \in Hash : log' \in {log, Append(log, b), Append(log, Torn)}
      BY <2>1 DEF Commit, MinerCommit, MinerHalts, RpcSubmit, RpcSubmitFails, PeerImport,
                  PeerImportFails, AppendSynced, AppendFailed, AppendUnsynced, WriteFailed
    <3>2. \A e \in Hash \cup {Torn} :
             /\ Len(Append(log, e)) = Len(log) + 1
             /\ \A j \in 1..Len(log) : Append(log, e)[j] = log[j]
      BY <1>1, Appended
    <3>3. i <= Len(log) /\ \A j \in 1..i : j \in 1..Len(log)
      BY <1>1, <1>2
    <3>4. CASE log' = log
      BY <3>3, <3>4
    <3>5. ASSUME NEW e \in Hash \cup {Torn}, log' = Append(log, e)
          PROVE  i <= Len(log') /\ \A j \in 1..i : log'[j] = log[j]
      <4>1. Len(log') = Len(log) + 1 /\ \A j \in 1..i : log'[j] = log[j]
        BY <3>2, <3>3, <3>5
      <4> QED
        BY <1>1, <3>3, <4>1
    <3> QED
      BY <3>1, <3>4, <3>5
  <2>2. CASE Kill
    <3>1. log' \in {log, Append(log, Torn)}
      BY <2>2 DEF Kill
    <3>2. /\ Len(Append(log, Torn)) = Len(log) + 1
          /\ \A j \in 1..Len(log) : Append(log, Torn)[j] = log[j]
      BY <1>1, Appended
    <3>3. \A j \in 1..i : j \in 1..Len(log)
      BY <1>1, <1>2
    <3> QED
      BY <1>1, <1>2, <3>1, <3>2, <3>3
  <2>3. CASE PowerLoss
    <3>1. PICK n \in synced..Len(log) : n <= Len(log') /\ \A j \in 1..n : log'[j] = log[j]
      BY <2>3, PowerLossFile
    <3>2. i <= n /\ \A j \in 1..i : j \in 1..n
      BY <1>1, <1>2, <3>1
    <3> QED
      BY <1>1, <1>2, <3>1, <3>2
  <2>4. CASE \/ SyncBegin \/ SyncEnd \/ SyncFails \/ SnapshotBytes \/ FinalSnapshot
             \/ WriteSnapshot \/ BootResumes \/ BootReplays \/ UNCHANGED vars
    <3>1. log' = log
      BY <2>4 DEF SyncBegin, SyncEnd, SyncFails, SnapshotBytes, FinalSnapshot, WriteSnapshot,
                  BootResumes, BootReplays, Restart, vars
    <3> QED
      BY <1>1, <1>2, <3>1
  <2> QED
    BY <2>1, <2>2, <2>3, <2>4 DEF Next
<1>4. i \in 1..Len(log') /\ \A j \in 1..i : log'[j] # Torn
  BY <1>1, <1>2, <1>3, TagAssumption
<1>5. i <= ReadLen(log')
  BY <1>1, <1>4, ReadLenFacts
<1>6. ReadableLen' = ReadLen(log')
  BY DEF ReadableLen, ReadLen, Damaged, DamagedIn
<1>7. i \in 1..i
  BY <1>2
<1> QED
  BY <1>3, <1>5, <1>6, <1>7

(* Damage reaches only what follows: read_records never returns less of    *)
(* the synced part of the file than it did before.                         *)
THEOREM PrefixIsKept == Spec => ReadablePrefixKept
<1>1. Inv /\ Inv' /\ [Next]_vars =>
          [\A i \in 1..ReadableLen :
              i <= synced => i <= ReadableLen' /\ log'[i] = log[i]]_vars
  BY PrefixStep DEF Inv
<1> QED
  BY <1>1, Inductive, PTL DEF Spec, ReadablePrefixKept
=============================================================================
