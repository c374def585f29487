-------------------------- MODULE GovernanceProofs --------------------------
(***************************************************************************)
(* The signal log along every branch, the rules it puts in force and the   *)
(* forecasts made of them, for every set of headers, every vote mask,      *)
(* every deployment, every undo window and trees of any size.              *)
(***************************************************************************)
EXTENDS Governance, SequenceTheorems, WellFoundedInduction, TLAPS

-----------------------------------------------------------------------------
(* Induction and recursion over the natural numbers, stated for sets and   *)
(* functions instead of operators.                                         *)

LEMMA LeastNat ==
    ASSUME NEW S \in SUBSET Nat, S # {}
    PROVE  Min(S) \in S /\ \A k \in S : Min(S) <= k
<1>1. IsWellFoundedOn(OpToRel(<, Nat), Nat)
  BY NatLessThanWellFounded
<1>2. PICK x \in S : \A k \in S : ~(<<k, x>> \in OpToRel(<, Nat))
  BY <1>1, WFMin
<1>3. \A k \in S : ~(k < x)
  BY <1>2 DEF OpToRel
<1>4. \E y \in S : \A k \in S : y <= k
  BY <1>3
<1> QED
  BY <1>4 DEF Min

LEMMA NatSetInduction ==
    ASSUME NEW T, 0 \in T, \A n \in Nat : n \in T => n + 1 \in T
    PROVE  \A n \in Nat : n \in T
<1> DEFINE B == Nat \ T
<1> SUFFICES ASSUME B # {} PROVE FALSE
  OBVIOUS
<1>1. Min(B) \in B /\ \A k \in B : Min(B) <= k
  <2>1. B \in SUBSET Nat
    OBVIOUS
  <2> HIDE DEF B
  <2> QED
    BY <2>1, LeastNat
<1>2. Min(B) - 1 \in Nat
  BY <1>1
<1>3. Min(B) - 1 \in T
  BY <1>1, <1>2
<1> QED
  BY <1>1, <1>2, <1>3

(* A function defined by recursion over the natural numbers exists.        *)
Runs(g, N, S, first, step) ==
  /\ g \in [0..N -> S] /\ g[0] = first
  /\ \A n \in 1..N : g[n] = step[<<n, g[n - 1]>>]

LEMMA RunsExist ==
    ASSUME NEW S, NEW first \in S, NEW step \in [Nat \X S -> S]
    PROVE  \A N \in Nat : \E g : Runs(g, N, S, first, step)
<1> DEFINE T == {N \in Nat : \E g : Runs(g, N, S, first, step)}
<1>1. 0 \in T
  <2>1. Runs([n \in 0..0 |-> first], 0, S, first, step)
    BY DEF Runs
  <2> QED
    BY <2>1
<1>2. ASSUME NEW k \in Nat, k \in T PROVE k + 1 \in T
  <2>1. PICK g : Runs(g, k, S, first, step)
    BY <1>2
  <2> DEFINE v == step[<<k + 1, g[k]>>]
             f == [n \in 0..k + 1 |-> IF n = k + 1 THEN v ELSE g[n]]
  <2>2. v \in S
    BY <2>1 DEF Runs
  <2>3. f \in [0..k + 1 -> S] /\ f[0] = first
    <3> HIDE DEF v
    <3> QED
      BY <2>1, <2>2 DEF Runs
  <2>4. \A n \in 1..k + 1 : f[n] = step[<<n, f[n - 1]>>]
    <3>1. ASSUME NEW n \in 1..k PROVE f[n] = step[<<n, f[n - 1]>>]
      BY <2>1, n # k + 1, n - 1 # k + 1, n \in 0..k + 1, n - 1 \in 0..k + 1 DEF f, Runs
    <3>2. f[k + 1] = v /\ f[(k + 1) - 1] = g[k]
      BY (k + 1) - 1 = k, k # k + 1, k \in 0..k + 1, k + 1 \in 0..k + 1 DEF f
    <3>3. \A n \in 1..k + 1 : n \in 1..k \/ n = k + 1
      OBVIOUS
    <3> QED
      BY Zenon, <3>1, <3>2, <3>3
  <2>5. Runs(f, k + 1, S, first, step)
    BY <2>3, <2>4 DEF Runs
  <2> QED
    BY <2>5
<1> HIDE DEF T
<1>3. \A N \in Nat : N \in T
  BY <1>1, <1>2, NatSetInduction
<1> QED
  BY <1>3 DEF T

LEMMA RunsAgree ==
    ASSUME NEW S, NEW first, NEW step, NEW M \in Nat, NEW N \in Nat,
           NEW f, NEW g, Runs(f, M, S, first, step), Runs(g, N, S, first, step)
    PROVE  \A n \in Nat : n <= M /\ n <= N => f[n] = g[n]
<1> DEFINE T == {n \in Nat : n <= M /\ n <= N => f[n] = g[n]}
<1>1. 0 \in T
  BY DEF Runs
<1>2. ASSUME NEW n \in Nat, n \in T PROVE n + 1 \in T
  <2> SUFFICES ASSUME n + 1 <= M, n + 1 <= N PROVE f[n + 1] = g[n + 1]
    OBVIOUS
  <2>1. f[n] = g[n]
    BY <1>2
  <2>2. n + 1 \in 1..M /\ n + 1 \in 1..N /\ (n + 1) - 1 = n
    OBVIOUS
  <2> QED
    BY <2>1, <2>2 DEF Runs
<1> HIDE DEF T
<1>3. \A n \in Nat : n \in T
  BY <1>1, <1>2, NatSetInduction
<1> QED
  BY <1>3 DEF T

Recursive(f, S, first, step) ==
  /\ f \in [Nat -> S] /\ f[0] = first
  /\ \A n \in Nat \ {0} : f[n] = step[<<n, f[n - 1]>>]

LEMMA RecursionExists ==
    ASSUME NEW S, NEW first \in S, NEW step \in [Nat \X S -> S]
    PROVE  \E f : Recursive(f, S, first, step)
<1> DEFINE run(n) == CHOOSE g : Runs(g, n, S, first, step)
           f == [n \in Nat |-> run(n)[n]]
<1>1. \A n \in Nat : Runs(run(n), n, S, first, step)
  BY RunsExist
<1> HIDE DEF run
<1>2. f \in [Nat -> S] /\ f[0] = first
  <2>1. \A n \in Nat : run(n)[n] \in S
    BY <1>1 DEF Runs
  <2>2. run(0)[0] = first
    BY <1>1 DEF Runs
  <2> QED
    BY <2>1, <2>2
<1>3. ASSUME NEW n \in Nat \ {0} PROVE f[n] = step[<<n, f[n - 1]>>]
  <2>1. n - 1 \in Nat /\ n - 1 <= n /\ n \in 1..n
    OBVIOUS
  <2>2. run(n)[n] = step[<<n, run(n)[n - 1]>>]
    BY <1>1, <2>1 DEF Runs
  <2>3. run(n)[n - 1] = run(n - 1)[n - 1]
    <3>1. Runs(run(n), n, S, first, step) /\ Runs(run(n - 1), n - 1, S, first, step)
      BY <1>1, <2>1
    <3> QED
      BY <2>1, <3>1, RunsAgree
  <2> QED
    BY <2>1, <2>2, <2>3
<1>4. Recursive(f, S, first, step)
  BY <1>2, <1>3 DEF Recursive
<1> QED
  BY <1>4

(* Windows: multiples of a period.                                         *)
LEMMA Times ==
    ASSUME NEW a \in Nat, NEW b \in Nat, NEW p \in Nat
    PROVE  a * p \in Nat /\ (a <= b => a * p <= b * p) /\ (a + 1) * p = a * p + p
<1>1. a * p \in Nat /\ (a + 1) * p = a * p + p
  OBVIOUS
<1>2. ASSUME a <= b PROVE a * p <= b * p
  <2>1. PICK c \in Nat : b = a + c
    BY <1>2
  <2>2. b * p = a * p + c * p /\ c * p >= 0
    BY <2>1
  <2> QED
    BY <1>1, <2>2
<1> QED
  BY <1>1, <1>2

LEMMA Divided ==
    ASSUME NEW h \in Nat, NEW p \in Nat \ {0}
    PROVE  h \div p \in Nat /\ (h \div p) * p <= h /\ h < (h \div p + 1) * p
OBVIOUS

LEMMA AtLeast ==
    ASSUME NEW h \in Nat, NEW p \in Nat \ {0}, NEW n \in Nat
    PROVE  h \div p >= n <=> h >= n * p
<1> DEFINE q == h \div p
<1>1. q \in Nat /\ q * p <= h /\ h < (q + 1) * p
  BY Divided
<1> HIDE DEF q
<1>2. ASSUME q >= n PROVE h >= n * p
  BY <1>1, <1>2, Times
<1>3. ASSUME h >= n * p, ~(q >= n) PROVE FALSE
  <2>1. q + 1 <= n /\ q + 1 \in Nat
    BY <1>1, <1>3
  <2>2. (q + 1) * p <= n * p /\ n * p \in Nat /\ (q + 1) * p \in Nat
    BY <2>1, Times
  <2> QED
    BY <1>1, <1>3, <2>2
<1> QED
  BY <1>2, <1>3 DEF q

LEMMA Boundary ==
    ASSUME NEW p \in Nat \ {0}, NEW n \in Nat
    PROVE  n * p \in Nat /\ (n * p) \div p = n
<1>1. n * p \in Nat /\ (n + 1) * p = n * p + p /\ n + 1 \in Nat
  BY Times
<1> DEFINE h == n * p
<1> HIDE DEF h
<1>2. h \in Nat /\ h < (n + 1) * p /\ h >= n * p
  BY <1>1 DEF h
<1>3. h \div p >= n /\ ~(h \div p >= n + 1) /\ h \div p \in Nat
  <2>1. h \div p >= n <=> h >= n * p
    BY <1>2, AtLeast
  <2>2. h \div p >= n + 1 <=> h >= (n + 1) * p
    BY <1>1, <1>2, AtLeast
  <2>3. h \div p \in Nat /\ (n + 1) * p \in Int
    BY <1>1, <1>2, Divided
  <2> QED
    BY <1>2, <2>1, <2>2, <2>3
<1>4. h \div p = n
  BY <1>3
<1> QED
  BY <1>1, <1>4 DEF h

-----------------------------------------------------------------------------
(* The signal log. *)

(* The votes of a chain, height by height.                                 *)
Votes(b) == [h \in 1..Len(b) |-> Mask[b[h]]]

LEMMA GreatestBelow ==
    ASSUME NEW m \in Nat, NEW S \in SUBSET (0..m), S # {}
    PROVE  Max(S) \in S /\ \A k \in S : k <= Max(S)
<1> DEFINE Gaps == {m - k : k \in S}
<1>7. \A k \in S : k \in Nat /\ k <= m
  OBVIOUS
<1>0. \A k \in S : m - k \in Nat
  BY <1>7
<1>1. Gaps \in SUBSET Nat /\ Gaps # {}
  BY <1>0
<1>2. IsWellFoundedOn(OpToRel(<, Nat), Nat)
  BY NatLessThanWellFounded
<1>3. PICK g \in Gaps : \A k \in Gaps : ~(<<k, g>> \in OpToRel(<, Nat))
  BY <1>1, <1>2, WFMin
<1>4. \A k \in Gaps : ~(k < g)
  BY <1>1, <1>3 DEF OpToRel
<1>5. PICK x \in S : g = m - x
  BY <1>3
<1>6. \A k \in S : ~(m - k < m - x)
  BY <1>4, <1>5
<1>8. x \in S /\ \A k \in S : x >= k
  BY <1>5, <1>6, <1>7
<1>9. \E y \in S : \A k \in S : y >= k
  BY <1>8
<1>10. Max(S) \in S /\ \A k \in S : Max(S) >= k
  BY <1>9 DEF Max
<1> QED
  BY <1>7, <1>10

LEMMA MinPair ==
    ASSUME NEW x \in Nat, NEW y \in Nat
    PROVE  Min({x, y}) \in Nat /\ Min({x, y}) <= x /\ Min({x, y}) <= y
<1>1. \E m \in {x, y} : \A k \in {x, y} : m <= k
  OBVIOUS
<1>2. Min({x, y}) \in {x, y} /\ \A k \in {x, y} : Min({x, y}) <= k
  BY <1>1 DEF Min
<1> QED
  BY <1>2

(* Below the fork two chains are the same.                                 *)
LEMMA ForkFacts ==
    ASSUME NEW b \in Seq(Vote), NEW c \in Seq(Vote)
    PROVE  /\ ForkHeight(b, c) \in Nat
           /\ ForkHeight(b, c) <= Len(b) /\ ForkHeight(b, c) <= Len(c)
           /\ \A h \in 1..ForkHeight(b, c) : b[h] = c[h]
<1> DEFINE m == Min({Len(b), Len(c)})
           S == {n \in 0..m : SubSeq(b, 1, n) = SubSeq(c, 1, n)}
<1>1. Len(b) \in Nat /\ Len(c) \in Nat
  BY LenProperties
<1>2. m \in Nat /\ m <= Len(b) /\ m <= Len(c)
  BY <1>1, MinPair
<1> HIDE DEF m
<1>3. SubSeq(b, 1, 0) = SubSeq(c, 1, 0)
  BY EmptySeq
<1>9. 0 \in 0..m
  BY <1>2
<1>10. 0 \in S
  BY <1>3, <1>9
<1>4. S # {} /\ S \in SUBSET (0..m)
  BY <1>10
<1>5. Max(S) \in S
  BY <1>2, <1>4, GreatestBelow
<1>6. ForkHeight(b, c) = Max(S)
  BY DEF ForkHeight, m
<1>7. PICK f \in 0..m : f = ForkHeight(b, c) /\ SubSeq(b, 1, f) = SubSeq(c, 1, f)
  BY <1>5, <1>6
<1>8. \A h \in 1..f : SubSeq(b, 1, f)[h] = b[h] /\ SubSeq(c, 1, f)[h] = c[h]
  BY <1>1, <1>2, <1>7
<1> QED
  BY <1>2, <1>7, <1>8

(* A replay from genesis records the votes of the chain.                   *)
LEMMA ReplayedVotes ==
    ASSUME NEW b \in Seq(Vote)
    PROVE  Replayed(b) = Votes(b)
<1>1. DOMAIN <<>> = {}
  OBVIOUS
<1>2. DOMAIN <<>> \cup (0 + 1 .. Len(b)) = 1..Len(b) /\ 0 + 1 .. Len(b) = 1..Len(b)
  BY <1>1
<1> QED
  BY <1>2 DEF Replayed, Record, Votes

(* Recording what a chain adds above another one's end.                    *)
LEMMA RecordVotes ==
    ASSUME NEW b \in Seq(Vote), NEW f \in Nat, f <= Len(b), NEW sig,
           sig = [h \in 1..f |-> Mask[b[h]]]
    PROVE  Record(sig, b, f) = Votes(b)
<1>1. Len(b) \in Nat
  BY LenProperties
<1>2. DOMAIN sig \cup (f + 1 .. Len(b)) = 1..Len(b)
  BY <1>1
<1>3. \A h \in 1..Len(b) : h \notin f + 1 .. Len(b) => h \in 1..f
  BY <1>1
<1> QED
  BY <1>2, <1>3 DEF Record, Votes

(* Disconnecting one chain to the fork and connecting another leaves the   *)
(* votes of the other, whatever the two chains are.                        *)
LEMMA SwitchVotes ==
    ASSUME NEW a \in Seq(Vote), NEW c \in Seq(Vote)
    PROVE  Switched(Votes(a), a, c) = Votes(c)
<1>1. PICK f \in Nat : /\ f = ForkHeight(a, c) /\ f <= Len(a) /\ f <= Len(c)
                       /\ \A h \in 1..f : a[h] = c[h]
  BY ForkFacts
<1>2. Len(a) \in Nat
  BY LenProperties
<1>3. (1..Len(a)) \ (f + 1 .. Len(a)) = 1..f
  BY <1>1, <1>2
<1>4. RemoveAbove(Votes(a), f, Len(a)) = [h \in 1..f |-> Votes(a)[h]]
  BY <1>3 DEF RemoveAbove, Restrict, Votes
<1>5. \A h \in 1..f : Votes(a)[h] = Mask[c[h]]
  BY <1>1, <1>2 DEF Votes
<1>6. RemoveAbove(Votes(a), f, Len(a)) = [h \in 1..f |-> Mask[c[h]]]
  BY <1>4, <1>5
<1>7. Record(RemoveAbove(Votes(a), f, Len(a)), c, f) = Votes(c)
  BY <1>1, <1>6, RecordVotes
<1> QED
  BY <1>1, <1>7 DEF Switched

-----------------------------------------------------------------------------
(* The log holds the votes of the active chain.  This is what makes        *)
(* BranchSignalsExact inductive: nothing in it alone says what the votes   *)
(* below a fork are that a switch keeps.                                   *)
Inv == TypeOK /\ signals = Votes(active)

LEMMA StoredChains ==
    ASSUME TypeOK
    PROVE  active \in Seq(Vote) /\ \A p \in index \cup {<<>>} : p \in Seq(Vote)
<1>1. <<>> \in Seq(Vote)
  BY EmptySeq
<1> QED
  BY <1>1 DEF TypeOK

(* Storing one more block on a stored block.                               *)
LEMMA Extended ==
    ASSUME TypeOK, NEW p \in index \cup {<<>>}, NEW v \in Vote, New(p, v)
    PROVE  /\ p \in Seq(Vote) /\ Append(p, v) \in Seq(Vote)
           /\ Len(Append(p, v)) = Len(p) + 1 /\ Len(p) \in Nat
           /\ Front(Append(p, v)) = p
           /\ \A h \in 1..Len(p) : Append(p, v)[h] = p[h]
<1>1. p \in Seq(Vote)
  BY StoredChains
<1>2. Append(p, v) \in Seq(Vote) /\ Len(Append(p, v)) = Len(p) + 1 /\ Len(p) \in Nat
  BY <1>1, AppendProperties, LenProperties
<1>3. \A h \in 1..Len(p) : Append(p, v)[h] = p[h]
  BY <1>1, AppendProperties
<1>4. Front(Append(p, v)) = p
  BY <1>1, <1>2, <1>3 DEF Front
<1> QED
  BY <1>1, <1>2, <1>3, <1>4

(* The votes of a chain are masks, one for each height.                    *)
LEMMA VotesTyped ==
    ASSUME NEW b \in Seq(Vote)
    PROVE  /\ DOMAIN Votes(b) = 1..Len(b)
           /\ \A h \in DOMAIN Votes(b) : Votes(b)[h] \subseteq UNION {Mask[v] : v \in Vote}
<1>1. DOMAIN Votes(b) = 1..Len(b)
  BY DEF Votes
<1>2. \A h \in 1..Len(b) : b[h] \in Vote
  BY ElementOfSeq
<1>3. \A h \in 1..Len(b) : Votes(b)[h] = Mask[b[h]]
  BY DEF Votes
<1> QED
  BY <1>1, <1>2, <1>3

(* The part of TypeOK that is about the store.                             *)
StoreOK ==
  /\ \A b \in index : b \in Seq(Vote) /\ Len(b) \in 1..MaxHeight
  /\ \A b \in index : Len(b) > 1 => Front(b) \in index

LEMMA StoreStep ==
    ASSUME TypeOK, NEW p \in index \cup {<<>>}, NEW v \in Vote, New(p, v), RoomFor(p),
           index' = index \cup {Append(p, v)}
    PROVE  StoreOK'
<1>1. /\ Append(p, v) \in Seq(Vote) /\ Len(Append(p, v)) = Len(p) + 1 /\ Len(p) \in Nat
      /\ Front(Append(p, v)) = p
  BY Extended
<1>2. Len(Append(p, v)) \in 1..MaxHeight
  BY <1>1, BoundAssumption DEF RoomFor
<1>3. ASSUME Len(Append(p, v)) > 1 PROVE p \in index
  <2>1. Len(p) # 0
    BY <1>1, <1>3
  <2>2. Len(<<>>) = 0
    OBVIOUS
  <2> QED
    BY <2>1, <2>2
<1> QED
  BY <1>1, <1>2, <1>3 DEF TypeOK, StoreOK

(* Disconnecting and reconnecting a branch gives the log back.             *)
LEMMA RestoredVotes ==
    ASSUME Inv, NEW b \in Seq(Vote), Restored(b)
    PROVE  signals' = signals
<1>1. active \in Seq(Vote) /\ signals = Votes(active)
  BY StoredChains DEF Inv
<1>2. Switched(Switched(signals, active, b), b, active) = Votes(active)
  BY <1>1, SwitchVotes
<1> QED
  BY <1>1, <1>2 DEF Restored

LEMMA InitInv == Init => Inv
<1> SUFFICES ASSUME Init PROVE Inv
  OBVIOUS
<1>1. Len(<<>>) = 0 /\ DOMAIN <<>> = {} /\ 1..0 = {}
  OBVIOUS
<1>2. Votes(<<>>) = <<>>
  BY <1>1 DEF Votes
<1> QED
  BY <1>1, <1>2 DEF Init, Inv, TypeOK

LEMMA StepInv == Inv /\ [Next]_vars => Inv'
<1> SUFFICES ASSUME Inv, [Next]_vars PROVE Inv'
  OBVIOUS
<1>1. active \in Seq(Vote) /\ signals = Votes(active) /\ active \in index \cup {<<>>}
  BY StoredChains DEF Inv, TypeOK
<1>2. ASSUME StoreOK', active' \in index' \cup {<<>>}, active' \in Seq(Vote),
             signals' = Votes(active')
      PROVE  Inv'
  <2>1. /\ DOMAIN Votes(active') = 1..Len(active')
        /\ \A h \in DOMAIN Votes(active') :
             Votes(active')[h] \subseteq UNION {Mask[v] : v \in Vote}
    BY <1>2, VotesTyped
  <2> QED
    BY <1>2, <2>1 DEF Inv, TypeOK, StoreOK, Votes
<1>3. ASSUME NEW v \in Vote, ConnectToActive(v) PROVE Inv'
  <2>1. New(active, v) /\ RoomFor(active) /\ active' = Append(active, v)
        /\ index' = index \cup {Append(active, v)}
        /\ signals' = Record(signals, active', Len(active))
    BY <1>3 DEF ConnectToActive
  <2>2. StoreOK'
    BY <1>1, <2>1, StoreStep DEF Inv
  <2>3. /\ active' \in Seq(Vote) /\ Len(active') = Len(active) + 1 /\ Len(active) \in Nat
        /\ \A h \in 1..Len(active) : active'[h] = active[h]
    BY <1>1, <2>1, Extended DEF Inv
  <2>4. signals = [h \in 1..Len(active) |-> Mask[active'[h]]]
    BY <1>1, <2>3 DEF Votes
  <2>5. Len(active) <= Len(active')
    BY <2>3
  <2>6. signals' = [h \in 1..Len(active') |-> Mask[active'[h]]]
    BY <2>1, <2>3, <2>4, <2>5, RecordVotes DEF Votes
  <2> QED
    BY <1>2, <2>1, <2>2, <2>3, <2>6 DEF Votes
<1>4. ASSUME NEW p \in index \cup {<<>>}, NEW v \in Vote, Reorg(p, v) PROVE Inv'
  <2> DEFINE b == Append(p, v)
  <2>1. New(p, v) /\ RoomFor(p) /\ active' = b /\ index' = index \cup {b}
        /\ (signals' = Switched(signals, active, b) \/ signals' = Replayed(b))
    BY <1>4 DEF Reorg
  <2>2. StoreOK'
    BY <2>1, StoreStep DEF Inv
  <2>3. b \in Seq(Vote)
    BY <2>1, Extended DEF Inv
  <2> HIDE DEF b
  <2>4. signals' = Votes(b)
    BY <1>1, <2>1, <2>3, SwitchVotes, ReplayedVotes
  <2>5. signals' = Votes(active')
    BY <2>1, <2>4 DEF Votes
  <2> QED
    BY <1>2, <2>1, <2>2, <2>3, <2>5
<1>5. ASSUME NEW p \in index \cup {<<>>}, NEW v \in Vote, StoreSideBlock(p, v) PROVE Inv'
  <2>1. New(p, v) /\ RoomFor(p) /\ active' = active /\ index' = index \cup {Append(p, v)}
        /\ Restored(Append(p, v))
    BY <1>5 DEF StoreSideBlock
  <2>2. StoreOK'
    BY <2>1, StoreStep DEF Inv
  <2>3. signals' = signals
    BY <2>1, Extended, RestoredVotes DEF Inv
  <2>4. signals' = Votes(active')
    BY <1>1, <2>1, <2>3 DEF Votes
  <2> QED
    BY <1>1, <1>2, <2>1, <2>2, <2>4
<1>6. ASSUME NEW p \in index \cup {<<>>}, NEW v \in Vote, RefuseBranch(p, v) PROVE Inv'
  <2>1. signals' = signals
    BY <1>6, Extended, RestoredVotes DEF Inv, RefuseBranch
  <2> QED
    BY <1>6, <2>1 DEF RefuseBranch, Inv, TypeOK, Votes
<1>7. CASE UNCHANGED vars
  BY <1>7 DEF vars, Inv, TypeOK, Votes
<1> QED
  BY <1>3, <1>4, <1>5, <1>6, <1>7 DEF Next

(* For every deployment, undo window and block tree, the log that          *)
(* branch_signals_from reconstructs for a stored block is the one a replay *)
(* of that block's chain records, whatever sequence of connects, reorgs    *)
(* over undo logs, replays and refused branches led to the active chain.   *)
THEOREM BranchSignalsAreExact == Spec => []BranchSignalsExact
<1>1. Inv => BranchSignalsExact
  <2> SUFFICES ASSUME Inv, NEW p \in index \cup {<<>>}
               PROVE  BranchSignalsFrom(p) = Replayed(p)
    BY DEF Inv, BranchSignalsExact
  <2>1. p \in Seq(Vote) /\ active \in Seq(Vote) /\ signals = Votes(active)
    BY StoredChains DEF Inv
  <2>2. BranchSignalsFrom(p) = Switched(Votes(active), active, p)
    BY <2>1 DEF BranchSignalsFrom, Switched
  <2> QED
    BY <2>1, <2>2, SwitchVotes, ReplayedVotes
<1> QED
  BY <1>1, InitInv, StepInv, PTL DEF Spec

-----------------------------------------------------------------------------
(* The walk of state_at over the windows. *)

States == {"Defined", "Started", "LockedIn", "Active", "Failed"}

Walk(d, sig) ==
  LET walk[n \in Nat] == IF n = 0 THEN "Defined" ELSE NextState(d, walk[n - 1], n, sig)
  IN walk

LEMMA NextStateType ==
    ASSUME NEW d, NEW prev \in States, NEW n, NEW sig
    PROVE  NextState(d, prev, n, sig) \in States
BY DEF NextState, States

LEMMA WalkIs ==
    ASSUME NEW d, NEW sig
    PROVE  /\ Walk(d, sig) \in [Nat -> States]
           /\ Walk(d, sig)[0] = "Defined"
           /\ \A n \in Nat \ {0} : Walk(d, sig)[n] = NextState(d, Walk(d, sig)[n - 1], n, sig)
           /\ \A h : StateAt(d, h, sig) = Walk(d, sig)[h \div d.period]
<1> DEFINE step == [r \in Nat \X States |-> NextState(d, r[2], r[1], sig)]
           Is(w) == w = [n \in Nat |-> IF n = 0 THEN "Defined" ELSE NextState(d, w[n - 1], n, sig)]
           W == Walk(d, sig)
<1>1. step \in [Nat \X States -> States]
  BY NextStateType
<1>2. "Defined" \in States
  BY DEF States
<1>3. PICK f : Recursive(f, States, "Defined", step)
  <2> HIDE DEF step
  <2> QED
    BY <1>1, <1>2, RecursionExists
<1>4. Is(f)
  <2>1. ASSUME NEW n \in Nat \ {0} PROVE f[n] = NextState(d, f[n - 1], n, sig)
    <3>1. n - 1 \in Nat
      OBVIOUS
    <3>2. <<n, f[n - 1]>> \in Nat \X States
      BY <1>3, <3>1 DEF Recursive
    <3> QED
      BY <1>3, <3>2 DEF Recursive
  <2>2. \A n \in Nat : f[n] = IF n = 0 THEN "Defined" ELSE NextState(d, f[n - 1], n, sig)
    BY <1>3, <2>1 DEF Recursive
  <2> HIDE DEF step
  <2> QED
    BY <1>3, <2>2 DEF Recursive
<1>5. W = CHOOSE w : Is(w)
  BY DEF Walk
<1>6. Is(W)
  <2> HIDE DEF Is, W
  <2> QED
    BY <1>4, <1>5
<1>7. W[0] = "Defined" /\ \A n \in Nat \ {0} : W[n] = NextState(d, W[n - 1], n, sig)
  <2> HIDE DEF W
  <2> QED
    BY <1>6
<1>8. \A n \in Nat : W[n] \in States
  <2> DEFINE T == {n \in Nat : W[n] \in States}
  <2> HIDE DEF W
  <2>1. 0 \in T
    BY <1>2, <1>7
  <2>2. ASSUME NEW n \in Nat, n \in T PROVE n + 1 \in T
    <3>1. (n + 1) - 1 = n /\ n + 1 \in Nat \ {0}
      OBVIOUS
    <3> QED
      BY <1>7, <2>2, <3>1, NextStateType
  <2> HIDE DEF T
  <2>3. \A n \in Nat : n \in T
    BY <2>1, <2>2, NatSetInduction
  <2> QED
    BY <2>3 DEF T
<1>9. W \in [Nat -> States]
  <2> HIDE DEF W
  <2> QED
    BY <1>6, <1>8
<1>10. \A h : StateAt(d, h, sig) = W[h \div d.period]
  BY DEF StateAt, Walk
<1> QED
  BY <1>7, <1>9, <1>10

\* Two logs tell the same votes for d below height k.
SameBelow(d, sig, log, k) == \A h \in Nat : h < k => (Signals(sig, h, d.bit) <=> Signals(log, h, d.bit))

LEMMA WalksAgree ==
    ASSUME NEW d \in Deployments, NEW sig, NEW log, NEW N \in Nat, SameBelow(d, sig, log, N * d.period)
    PROVE  \A n \in Nat : n <= N => Walk(d, sig)[n] = Walk(d, log)[n]
<1> DEFINE p == d.period
           V == Walk(d, sig)
           W == Walk(d, log)
           T == {n \in Nat : n <= N => V[n] = W[n]}
<1>0. p \in Nat
  BY DeploymentAssumption
<1>1. 0 \in T
  BY WalkIs
<1>2. ASSUME NEW n \in Nat, n \in T PROVE n + 1 \in T
  <2> SUFFICES ASSUME n + 1 <= N PROVE V[n + 1] = W[n + 1]
    OBVIOUS
  <2>1. V[n] = W[n] /\ (n + 1) - 1 = n /\ n + 1 \in Nat \ {0}
    BY <1>2
  <2>2. /\ V[n + 1] = NextState(d, V[n], n + 1, sig)
        /\ W[n + 1] = NextState(d, V[n], n + 1, log)
    <3> HIDE DEF T
    <3> QED
      BY <2>1, WalkIs
  <2>3. n * p \in Nat /\ (n + 1) * p \in Nat /\ (n + 1) * p <= N * p /\ N * p \in Nat
    <3> HIDE DEF p
    <3> QED
      BY <1>0, Times
  <2>4. SignalingCount(d, n, sig) = SignalingCount(d, n, log)
    <3>1. ASSUME NEW h \in n * p .. (n + 1) * p - 1
          PROVE  Signals(sig, h, d.bit) <=> Signals(log, h, d.bit)
      <4>1. h \in Nat /\ h < N * p
        <5> HIDE DEF p
        <5> QED
          BY <2>3
      <4> QED
        BY <4>1 DEF SameBelow
    <3>2. {h \in n * p .. (n + 1) * p - 1 : Signals(sig, h, d.bit)}
            = {h \in n * p .. (n + 1) * p - 1 : Signals(log, h, d.bit)}
      BY <3>1
    <3> QED
      BY <3>2 DEF SignalingCount
  <2>5. NextState(d, V[n], n + 1, sig) = NextState(d, V[n], n + 1, log)
    <3> HIDE DEF V, W
    <3> QED
      BY <2>1, <2>4 DEF NextState
  <2> QED
    BY <2>2, <2>5
<1> HIDE DEF T
<1>3. \A n \in Nat : n \in T
  BY <1>1, <1>2, NatSetInduction
<1> QED
  BY <1>3 DEF T

(* Active is terminal.                                                     *)
LEMMA ActiveStays ==
    ASSUME NEW d, NEW sig, NEW m \in Nat, Walk(d, sig)[m] = "Active"
    PROVE  \A n \in Nat : m <= n => Walk(d, sig)[n] = "Active"
<1> DEFINE W == Walk(d, sig)
           T == {n \in Nat : m <= n => W[n] = "Active"}
<1> HIDE DEF W
<1>1. 0 \in T
  BY DEF W
<1>2. ASSUME NEW n \in Nat, n \in T PROVE n + 1 \in T
  <2> SUFFICES ASSUME m <= n + 1 PROVE W[n + 1] = "Active"
    OBVIOUS
  <2>1. CASE m = n + 1
    BY <2>1 DEF W
  <2>2. CASE m <= n
    <3>1. W[n] = "Active" /\ (n + 1) - 1 = n /\ n + 1 \in Nat \ {0}
      BY <1>2, <2>2
    <3>2. W[n + 1] = NextState(d, W[n], n + 1, sig)
      BY <3>1, WalkIs DEF W
    <3> QED
      BY <3>1, <3>2 DEF NextState
  <2> QED
    BY <2>1, <2>2
<1> HIDE DEF T
<1>3. \A n \in Nat : n \in T
  BY <1>1, <1>2, NatSetInduction
<1> QED
  BY <1>3 DEF T, W

(* The boundaries at which a deployment is active, seen through the walk.  *)
LEMMA BoundariesAre ==
    ASSUME NEW d \in Deployments, NEW h \in Nat, NEW sig
    PROVE  /\ ActiveBoundaries(d, h, sig) = {n \in 1 .. h \div d.period : Walk(d, sig)[n] = "Active"}
           /\ ActiveBoundaries(d, h, sig) \in SUBSET Nat
           /\ DeploymentActiveAt(d, h, sig) <=> Walk(d, sig)[h \div d.period] = "Active"
<1> DEFINE p == d.period
           q == h \div p
           W == Walk(d, sig)
           A == {n \in 1..q : W[n] = "Active"}
<1>0. p \in Nat \ {0}
  BY DeploymentAssumption
<1>1. q \in Nat
  <2> HIDE DEF p
  <2> QED
    BY <1>0, Divided
<1>2. ASSUME NEW n \in Nat PROVE StateAt(d, n * p, sig) = W[n]
  <2>1. (n * p) \div p = n
    <3> HIDE DEF p
    <3> QED
      BY <1>0, Boundary
  <2> QED
    BY <2>1, WalkIs
<1>3. ActiveBoundaries(d, h, sig) = A
  <2>1. \A n \in 1..q : n \in Nat
    BY <1>1
  <2> QED
    BY <1>2, <2>1 DEF ActiveBoundaries
<1> HIDE DEF W, q
<1>4. A # {} <=> W[q] = "Active"
  <2>1. ASSUME W[q] = "Active" PROVE q \in A
    <3>1. q # 0
      BY <2>1, WalkIs DEF W
    <3> QED
      BY <1>1, <2>1, <3>1
  <2>2. ASSUME NEW n \in A PROVE W[q] = "Active"
    <3>1. n \in Nat /\ n <= q /\ W[n] = "Active"
      BY <1>1
    <3> QED
      BY <1>1, <3>1, ActiveStays DEF W
  <2> QED
    BY <2>1, <2>2
<1>5. A \in SUBSET Nat
  BY <1>1
<1> QED
  BY <1>3, <1>4, <1>5 DEF DeploymentActiveAt, W, q

(* The log seen by a block and the log of a longer chain tell the same     *)
(* votes up to the block.                                                  *)
LEMMA SeenVotes ==
    ASSUME NEW d, NEW c \in Seq(Vote), NEW k \in 0..Len(c)
    PROVE  SameBelow(d, Votes(c), Replayed(SubSeq(c, 1, k)), k + 1)
<1>1. Len(c) \in Nat /\ k \in Nat /\ k <= Len(c)
  BY LenProperties
<1> DEFINE b == SubSeq(c, 1, k)
<1>2. b \in Seq(Vote) /\ Len(b) = k /\ \A h \in 1..k : b[h] = c[h]
  BY <1>1
<1>3. Replayed(b) = Votes(b)
  BY <1>2, ReplayedVotes
<1> HIDE DEF b
<1>4. ASSUME NEW h \in Nat, h < k + 1
      PROVE  Signals(Votes(c), h, d.bit) <=> Signals(Votes(b), h, d.bit)
  <2>1. CASE h = 0
    BY <2>1 DEF Signals, Votes
  <2>2. CASE h # 0
    <3>1. h \in 1..k /\ h \in 1..Len(c) /\ h \in 1..Len(b)
      BY <1>1, <1>2, <1>4, <2>2
    <3>2. Votes(c)[h] = Votes(b)[h] /\ h \in DOMAIN Votes(c) /\ h \in DOMAIN Votes(b)
      BY <1>2, <3>1 DEF Votes
    <3> QED
      BY <3>2 DEF Signals
  <2> QED
    BY <2>1, <2>2
<1> QED
  BY <1>3, <1>4 DEF SameBelow, b

(* So both logs walk alike up to the window of the next block.             *)
LEMMA SeenWalk ==
    ASSUME NEW d \in Deployments, NEW c \in Seq(Vote), NEW k \in 0..Len(c)
    PROVE  \A n \in Nat : n <= (k + 1) \div d.period =>
             Walk(d, Replayed(SubSeq(c, 1, k)))[n] = Walk(d, Votes(c))[n]
<1> DEFINE p == d.period
           N == (k + 1) \div p
           seen == Replayed(SubSeq(c, 1, k))
<1>1. p \in Nat \ {0} /\ k + 1 \in Nat
  BY DeploymentAssumption, LenProperties
<1>2. N \in Nat /\ N * p <= k + 1 /\ N * p \in Nat
  <2> HIDE DEF p
  <2> QED
    BY <1>1, Divided, Times
<1>3. SameBelow(d, Votes(c), seen, k + 1)
  BY SeenVotes
<1> HIDE DEF N, seen
<1>4. SameBelow(d, Votes(c), seen, N * d.period)
  BY <1>1, <1>2, <1>3 DEF SameBelow
<1>5. \A n \in Nat : n <= N => Walk(d, Votes(c))[n] = Walk(d, seen)[n]
  BY <1>2, <1>4, WalksAgree
<1> QED
  BY <1>5 DEF N, seen

\* The stages of a signature fork.
rank(m) == CASE m = "legacy" -> 0 [] m = "grace" -> 1 [] m = "bound" -> 2

(* The first active boundary does not move once there is one, so that the  *)
(* stages come in their order.                                             *)
LEMMA StagesInOrder ==
    ASSUME NEW d \in Deployments, NEW h \in Nat, NEW seen, NEW sig,
           \A n \in Nat : n <= h \div d.period => Walk(d, seen)[n] = Walk(d, sig)[n]
    PROVE  rank(TxDomainMode(d, h, seen)) <= rank(TxDomainMode(d, h + 1, sig))
<1> DEFINE p == d.period
           A == ActiveBoundaries(d, h, seen)
           B == ActiveBoundaries(d, h + 1, sig)
           m == h \div p
           n == (h + 1) \div p
<1>1. p \in Nat \ {0} /\ h + 1 \in Nat
  BY DeploymentAssumption
<1>2. m \in Nat /\ n \in Nat /\ m <= n
  <2> HIDE DEF p
  <2>1. m \in Nat /\ m * p <= h /\ n \in Nat
    BY <1>1, Divided
  <2>2. h + 1 >= m * p
    BY <1>1, <2>1
  <2>3. n >= m
    BY <1>1, <2>1, <2>2, AtLeast
  <2> QED
    BY <2>1, <2>3
<1>3. /\ A = {i \in 1..m : Walk(d, seen)[i] = "Active"} /\ A \in SUBSET Nat
      /\ B = {i \in 1..n : Walk(d, sig)[i] = "Active"} /\ B \in SUBSET Nat
  BY <1>1, BoundariesAre
<1> HIDE DEF A, B, m, n
<1>4. A = {i \in B : i <= m}
  <2>1. \A i \in 1..m : i \in Nat /\ i <= m /\ i \in 1..n
    BY <1>2
  <2>2. \A i \in 1..m : Walk(d, seen)[i] = Walk(d, sig)[i]
    BY <2>1 DEF m
  <2>3. \A i \in 1..n : i <= m => i \in 1..m
    BY <1>2
  <2> QED
    BY <1>3, <2>1, <2>2, <2>3
<1>5. ASSUME A # {} PROVE B # {} /\ Min(A) = Min(B) /\ Min(B) \in Nat
  <2>1. B # {}
    BY <1>4, <1>5
  <2>2. Min(A) \in A /\ (\A i \in A : Min(A) <= i) /\ Min(B) \in B /\ (\A i \in B : Min(B) <= i)
    BY <1>3, <1>5, <2>1, LeastNat
  <2>3. Min(A) \in B /\ Min(B) <= m
    BY <1>2, <1>3, <1>4, <2>2
  <2>4. Min(B) \in A
    BY <1>4, <2>2, <2>3
  <2> QED
    BY <1>3, <2>1, <2>2, <2>3, <2>4
<1>6. \A i, s : TxDomainMode(d, i, s) \in {"legacy", "grace", "bound"}
  BY DEF TxDomainMode
<1>7. CASE A = {}
  <2>1. TxDomainMode(d, h, seen) = "legacy"
    BY <1>7 DEF TxDomainMode, DeploymentActiveAt, A
  <2> QED
    BY <1>6, <2>1 DEF rank
<1>8. CASE A # {}
  <2> DEFINE e == Min(B) * p + Grace
  <2>1. e \in Nat
    <3>1. Min(B) * p \in Nat
      <4> HIDE DEF p
      <4> QED
        BY <1>1, <1>5, <1>8, Times
    <3> QED
      BY <3>1, GraceAssumption
  <2>2. /\ TxDomainMode(d, h, seen) = IF h < e THEN "grace" ELSE "bound"
        /\ TxDomainMode(d, h + 1, sig) = IF h + 1 < e THEN "grace" ELSE "bound"
    BY <1>5, <1>8 DEF TxDomainMode, DeploymentActiveAt, A, B
  <2> HIDE DEF e
  <2>3. h + 1 < e => h < e
    BY <2>1
  <2> QED
    BY <2>2, <2>3 DEF rank
<1> QED
  BY <1>7, <1>8

(* For every deployment, vote mask, undo window and block tree: what is in *)
(* force for a block of the active chain is what state_at returns over the *)
(* votes of its ancestors alone; no later block changes it, an active rule *)
(* stays, and the stages of the signature fork never go back.              *)
THEOREM RulesAreSettled == Spec => []RulesSettled
<1>1. Inv => RulesSettled
  <2> SUFFICES ASSUME Inv, NEW d \in Deployments, NEW h \in 1..Len(active)
               PROVE  LET seen == Replayed(SubSeq(active, 1, h - 1))
                      IN /\ StateAt(d, h, signals) = StateAt(d, h, seen)
                         /\ DeploymentActiveAt(d, h, signals) = (StateAt(d, h, seen) = "Active")
                         /\ DeploymentActiveAt(d, h, seen) => DeploymentActiveAt(d, h + 1, signals)
                         /\ rank(TxDomainMode(d, h, seen)) <= rank(TxDomainMode(d, h + 1, signals))
    BY DEF RulesSettled, rank
  <2> DEFINE seen == Replayed(SubSeq(active, 1, h - 1))
             p == d.period
             m == h \div p
             n == (h + 1) \div p
  <2>1. active \in Seq(Vote) /\ signals = Votes(active)
    BY StoredChains DEF Inv
  <2>2. h - 1 \in 0..Len(active) /\ (h - 1) + 1 = h /\ h \in Nat /\ h + 1 \in Nat
    BY <2>1, LenProperties
  <2>3. p \in Nat \ {0}
    BY DeploymentAssumption
  <2>4. \A i \in Nat : i <= m => Walk(d, seen)[i] = Walk(d, signals)[i]
    BY <2>1, <2>2, SeenWalk
  <2>5. m \in Nat /\ n \in Nat /\ m <= n
    <3> HIDE DEF p
    <3>1. m \in Nat /\ m * p <= h /\ n \in Nat
      BY <2>2, <2>3, Divided
    <3>2. h + 1 >= m * p
      BY <2>2, <2>3, <3>1
    <3> QED
      BY <2>2, <2>3, <3>1, <3>2, AtLeast
  <2>6. Walk(d, seen)[m] = Walk(d, signals)[m]
    BY <2>4, <2>5
  <2>7. /\ StateAt(d, h, signals) = Walk(d, signals)[m]
        /\ StateAt(d, h, seen) = Walk(d, seen)[m]
        /\ DeploymentActiveAt(d, h, signals) <=> Walk(d, signals)[m] = "Active"
        /\ DeploymentActiveAt(d, h, seen) <=> Walk(d, seen)[m] = "Active"
        /\ DeploymentActiveAt(d, h + 1, signals) <=> Walk(d, signals)[n] = "Active"
    BY <2>2, WalkIs, BoundariesAre
  <2>8. DeploymentActiveAt(d, h, seen) => DeploymentActiveAt(d, h + 1, signals)
    BY <2>5, <2>6, <2>7, ActiveStays
  <2>9. rank(TxDomainMode(d, h, seen)) <= rank(TxDomainMode(d, h + 1, signals))
    BY <2>2, <2>4, StagesInOrder
  <2>10. DeploymentActiveAt(d, h, signals) \in BOOLEAN
    BY DEF DeploymentActiveAt
  <2> QED
    BY <2>6, <2>7, <2>8, <2>9, <2>10
<1> QED
  BY <1>1, InitInv, StepInv, PTL DEF Spec

-----------------------------------------------------------------------------
(* What deployment_states announces. *)

Larger(a, b) == IF a >= b THEN a ELSE b

LEMMA MaxPair ==
    ASSUME NEW a \in Nat, NEW b \in Nat
    PROVE  Max({a, b}) = Larger(a, b)
<1>1. Larger(a, b) \in {a, b} /\ \A k \in {a, b} : Larger(a, b) >= k
  BY DEF Larger
<1>2. Max({a, b}) \in {a, b} /\ \A k \in {a, b} : Max({a, b}) >= k
  BY <1>1 DEF Max
<1> QED
  BY <1>1, <1>2

LEMMA LargerTimes ==
    ASSUME NEW a \in Nat, NEW b \in Nat, NEW p \in Nat
    PROVE  Max({a * p, b * p}) = Larger(a, b) * p /\ Larger(a, b) \in Nat
<1>1. a * p \in Nat /\ b * p \in Nat /\ (a <= b => a * p <= b * p) /\ (b <= a => b * p <= a * p)
  BY Times
<1>2. Max({a * p, b * p}) = Larger(a * p, b * p)
  BY <1>1, MaxPair
<1> QED
  BY <1>1, <1>2 DEF Larger

(* The first boundary at or above a height.                                *)
LEMMA CeilIs ==
    ASSUME NEW d \in Deployments, NEW x \in Nat
    PROVE  \E q \in Nat : CeilWindow(d, x) = q * d.period /\ \A n \in Nat : n * d.period >= x <=> n >= q
<1> DEFINE p == d.period
           y == x + p - 1
           q == y \div p
<1>1. p \in Nat \ {0} /\ y \in Nat
  BY DeploymentAssumption
<1>2. CeilWindow(d, x) = q * p
  BY DEF CeilWindow
<1> HIDE DEF p
<1>3. q \in Nat
  BY <1>1, Divided
<1>4. ASSUME NEW n \in Nat PROVE n * p >= x <=> n >= q
  <2>1. q >= n + 1 <=> y >= (n + 1) * p
    BY <1>1, AtLeast, n + 1 \in Nat
  <2>2. (n + 1) * p = n * p + p /\ n * p \in Nat
    BY <1>1, Times
  <2>3. y >= (n + 1) * p <=> ~(n * p >= x)
    BY <1>1, <2>2
  <2> HIDE DEF q
  <2> QED
    BY <1>3, <2>1, <2>3
<1> QED
  BY <1>2, <1>3, <1>4 DEF p

\* The boundaries a deployment's parameters amount to.
Timing(d, qs, qt, qm) ==
  /\ \A n \in Nat : n * d.period >= d.start <=> n >= qs
  /\ \A n \in Nat : n * d.period < d.timeout <=> ~(n >= qt)
  /\ \A n \in Nat : n * d.period >= d.min <=> n >= qm
  /\ CeilWindow(d, d.min) = qm * d.period
  /\ EarliestActivation(d) = Larger(Larger(qs, 1) + 2, qm) * d.period
  /\ LatestActivation(d) = Larger(Larger(qt, Larger(qs, 1) + 1) + 1, qm) * d.period

LEMMA TimingExists ==
    ASSUME NEW d \in Deployments
    PROVE  \E qs, qt, qm \in Nat : Timing(d, qs, qt, qm)
<1> DEFINE p == d.period
<1>1. p \in Nat \ {0} /\ d.start \in Nat /\ d.timeout \in Nat /\ d.min \in Nat
  BY DeploymentAssumption
<1>2. PICK qs \in Nat : CeilWindow(d, d.start) = qs * p /\ \A n \in Nat : n * p >= d.start <=> n >= qs
  BY <1>1, CeilIs
<1>3. PICK qt \in Nat : CeilWindow(d, d.timeout) = qt * p /\ \A n \in Nat : n * p >= d.timeout <=> n >= qt
  BY <1>1, CeilIs
<1>4. PICK qm \in Nat : CeilWindow(d, d.min) = qm * p /\ \A n \in Nat : n * p >= d.min <=> n >= qm
  BY <1>1, CeilIs
<1> HIDE DEF p
<1> DEFINE e == Larger(qs, 1)
           l == Larger(qt, e + 1)
<1>5. e \in Nat /\ l \in Nat /\ 1 * p = p /\ Max({CeilWindow(d, d.start), p}) = e * p
  <2>1. Max({qs * p, 1 * p}) = e * p /\ e \in Nat
    BY <1>1, LargerTimes, 1 \in Nat
  <2>2. 1 * p = p
    BY <1>1
  <2>3. l \in Nat
    BY <2>1 DEF Larger
  <2> QED
    BY <1>2, <2>1, <2>2, <2>3
<1> HIDE DEF e
<1>6. (e + 2) * p = e * p + 2 * p /\ (e + 1) * p = e * p + p /\ (l + 1) * p = l * p + p
  <2> HIDE DEF l
  <2> QED
    BY <1>1, <1>5
<1>7. Max({qt * p, (e + 1) * p}) = l * p
  BY <1>1, <1>5, LargerTimes, e + 1 \in Nat
<1> HIDE DEF l
<1>8. Max({(e + 2) * p, qm * p}) = Larger(e + 2, qm) * p
  BY <1>1, <1>5, LargerTimes, e + 2 \in Nat
<1>9. Max({(l + 1) * p, qm * p}) = Larger(l + 1, qm) * p
  BY <1>1, <1>5, LargerTimes, l + 1 \in Nat
<1>10. EarliestActivation(d) = Larger(e + 2, qm) * p
  BY <1>4, <1>5, <1>6, <1>8 DEF EarliestActivation, p
<1>11. LatestActivation(d) = Larger(l + 1, qm) * p
  BY <1>3, <1>4, <1>5, <1>6, <1>7, <1>9 DEF LatestActivation, p
<1>12. \A n \in Nat : n * p < d.timeout <=> ~(n >= qt)
  <2>1. \A n \in Nat : n * p \in Nat
    BY <1>1, Times
  <2> QED
    BY <1>1, <1>3, <2>1
<1>13. Timing(d, qs, qt, qm)
  BY <1>2, <1>4, <1>10, <1>11, <1>12 DEF Timing, e, l, p
<1> QED
  BY <1>13

(* How early the walk may be where it is.                                  *)
LEMMA NotEarlier ==
    ASSUME NEW d \in Deployments, NEW sig, NEW qs \in Nat, NEW qt \in Nat, NEW qm \in Nat, Timing(d, qs, qt, qm)
    PROVE  \A n \in Nat : Walk(d, sig)[n] = "Active" => n >= Larger(Larger(qs, 1) + 2, qm)
<1> DEFINE W == Walk(d, sig)
           e == Larger(qs, 1)
           T == {n \in Nat : /\ W[n] # "Defined" => n >= e
                             /\ W[n] = "LockedIn" => n >= e + 1
                             /\ W[n] = "Active" => n >= e + 2 /\ n >= qm}
<1>0. e \in Nat /\ e >= qs /\ e >= 1
  BY DEF Larger
<1> HIDE DEF W, e
<1>1. 0 \in T
  BY WalkIs DEF W
<1>2. ASSUME NEW n \in Nat, n \in T PROVE n + 1 \in T
  <2>1. (n + 1) - 1 = n /\ n + 1 \in Nat \ {0} /\ n + 1 \in Nat
    OBVIOUS
  <2>2. W[n + 1] = NextState(d, W[n], n + 1, sig) /\ W[n] \in States
    BY <2>1, WalkIs DEF W
  <2>3. /\ (n + 1) * d.period >= d.start <=> n + 1 >= qs
        /\ (n + 1) * d.period >= d.min <=> n + 1 >= qm
    BY <2>1 DEF Timing
  <2>4. \/ W[n + 1] = W[n]
        \/ W[n] = "Defined" /\ W[n + 1] = "Started" /\ n + 1 >= qs
        \/ W[n] = "Started" /\ W[n + 1] \in {"LockedIn", "Failed"}
        \/ W[n] = "LockedIn" /\ W[n + 1] = "Active" /\ n + 1 >= qm
    BY <2>2, <2>3 DEF NextState, States
  <2> QED
    BY <1>0, <1>2, <2>4 DEF e, Larger
<1> HIDE DEF T
<1>3. \A n \in Nat : n \in T
  BY <1>1, <1>2, NatSetInduction
<1>4. \A n \in Nat : W[n] = "Active" => n >= e + 2 /\ n >= qm
  BY <1>3 DEF T
<1> QED
  BY <1>4 DEF W, e, Larger

(* How long it may be where it is, when a timeout locks the rule in.       *)
LEMMA NotLater ==
    ASSUME NEW d \in Deployments, d.lot, NEW sig, NEW qs \in Nat, NEW qt \in Nat, NEW qm \in Nat,
           Timing(d, qs, qt, qm)
    PROVE  \A n \in Nat : n >= Larger(Larger(qt, Larger(qs, 1) + 1) + 1, qm) => Walk(d, sig)[n] = "Active"
<1> DEFINE W == Walk(d, sig)
           e == Larger(qs, 1)
           l == Larger(qt, e + 1)
           T == {n \in Nat : /\ W[n] # "Failed"
                             /\ W[n] = "Defined" => n < e
                             /\ W[n] = "Started" => n < l
                             /\ W[n] = "LockedIn" => n < Larger(l + 1, qm)}
<1>0. e \in Nat /\ e >= qs /\ e >= 1 /\ l \in Nat /\ l >= qt /\ l >= e + 1
      /\ Larger(l + 1, qm) \in Nat /\ Larger(l + 1, qm) >= l + 1 /\ Larger(l + 1, qm) >= qm
  BY DEF Larger
<1> HIDE DEF W, e, l
<1>1. 0 \in T
  BY <1>0, WalkIs DEF W
<1>2. ASSUME NEW n \in Nat, n \in T PROVE n + 1 \in T
  <2>1. (n + 1) - 1 = n /\ n + 1 \in Nat \ {0} /\ n + 1 \in Nat
    OBVIOUS
  <2>2. W[n + 1] = NextState(d, W[n], n + 1, sig) /\ W[n] \in States
    BY <2>1, WalkIs DEF W
  <2>3. /\ (n + 1) * d.period >= d.start <=> n + 1 >= qs
        /\ (n + 1) * d.period < d.timeout <=> ~(n + 1 >= qt)
        /\ (n + 1) * d.period >= d.min <=> n + 1 >= qm
    BY <2>1 DEF Timing
  <2>4. \/ W[n] = "Defined" /\ W[n + 1] = "Started"
        \/ W[n] = "Defined" /\ W[n + 1] = "Defined" /\ ~(n + 1 >= qs)
        \/ W[n] = "Started" /\ W[n + 1] = "LockedIn"
        \/ W[n] = "Started" /\ W[n + 1] = "Started" /\ ~(n + 1 >= qt)
        \/ W[n] = "LockedIn" /\ W[n + 1] = "LockedIn" /\ ~(n + 1 >= qm)
        \/ W[n + 1] = "Active"
    <3>1. W[n] # "Failed"
      BY <1>2
    <3> HIDE DEF T
    <3> QED
      BY <2>2, <2>3, <3>1 DEF NextState, States
  <2> QED
    BY <1>0, <1>2, <2>4
<1> HIDE DEF T
<1>3. \A n \in Nat : n \in T
  BY <1>1, <1>2, NatSetInduction
<1>4. ASSUME NEW n \in Nat, n >= Larger(l + 1, qm) PROVE W[n] = "Active"
  <2>1. W[n] \in States
    BY WalkIs DEF W
  <2> QED
    BY <1>0, <1>3, <1>4, <2>1 DEF T, States
<1> QED
  BY <1>4 DEF W, e, l

(* A locked-in deployment waits for its minimum height, whatever the votes. *)
LEMMA LockedIs ==
    ASSUME NEW d \in Deployments, NEW sig, NEW qs \in Nat, NEW qt \in Nat, NEW qm \in Nat,
           Timing(d, qs, qt, qm), NEW H \in Nat, Walk(d, sig)[H] = "LockedIn"
    PROVE  \A n \in Nat : Walk(d, sig)[n] = "Active" <=> n >= Larger(H + 1, qm)
<1> DEFINE W == Walk(d, sig)
           T == {n \in Nat : /\ n = H => W[n] = "LockedIn"
                             /\ n > H => W[n] = IF n >= qm THEN "Active" ELSE "LockedIn"}
<1> HIDE DEF W
<1>1. 0 \in T
  BY DEF W
<1>2. ASSUME NEW n \in Nat, n \in T PROVE n + 1 \in T
  <2>1. (n + 1) - 1 = n /\ n + 1 \in Nat \ {0} /\ n + 1 \in Nat
    OBVIOUS
  <2>2. W[n + 1] = NextState(d, W[n], n + 1, sig)
    BY <2>1, WalkIs DEF W
  <2>3. (n + 1) * d.period >= d.min <=> n + 1 >= qm
    BY <2>1 DEF Timing
  <2>4. CASE n >= H
    <3>1. W[n] = "LockedIn" \/ (W[n] = "Active" /\ n >= qm)
      BY <1>2, <2>4
    <3>2. W[n + 1] = IF n + 1 >= qm THEN "Active" ELSE "LockedIn"
      BY <2>2, <2>3, <3>1 DEF NextState
    <3> QED
      BY <2>4, <3>2
  <2>5. CASE ~(n >= H)
    BY <2>5 DEF W
  <2> QED
    BY <2>4, <2>5
<1> HIDE DEF T
<1>3. \A n \in Nat : n \in T
  BY <1>1, <1>2, NatSetInduction
<1>4. ASSUME NEW n \in Nat, n <= H PROVE W[n] # "Active"
  BY <1>4, ActiveStays DEF W
<1>5. ASSUME NEW n \in Nat PROVE W[n] = "Active" <=> n > H /\ n >= qm
  BY <1>3, <1>4 DEF T
<1> QED
  BY <1>5 DEF W, Larger

(* What a bisection of lo..hi for the boundary n0 returns.                 *)
Found(lo, hi, n0) ==
  IF lo >= hi THEN lo ELSE IF n0 <= lo THEN lo ELSE IF n0 <= hi THEN n0 ELSE hi

LEMMA Halves ==
    ASSUME NEW lo \in Nat, NEW hi \in Nat, lo < hi, NEW n0 \in Nat
    PROVE  LET mid == lo + (hi - lo) \div 2
           IN /\ mid \in Nat /\ lo <= mid /\ mid < hi
              /\ n0 <= mid => Found(lo, hi, n0) = Found(lo, mid, n0)
              /\ ~(n0 <= mid) => Found(lo, hi, n0) = Found(mid + 1, hi, n0)
<1> DEFINE mid == lo + (hi - lo) \div 2
<1>1. mid \in Nat /\ lo <= mid /\ mid < hi
  OBVIOUS
<1> HIDE DEF mid
<1>2. n0 <= mid => Found(lo, hi, n0) = Found(lo, mid, n0)
  BY <1>1 DEF Found
<1>3. ~(n0 <= mid) => Found(lo, hi, n0) = Found(mid + 1, hi, n0)
  BY <1>1 DEF Found
<1> QED
  BY <1>1, <1>2, <1>3 DEF mid

(* The bisection of deployment_states finds the boundary from which the    *)
(* deployment is active.                                                   *)
LEMMA FirstActiveIs ==
    ASSUME NEW d \in Deployments, NEW sig, NEW hi \in Nat, Walk(d, sig)[hi] = "Active"
    PROVE  \E n0 \in Nat : /\ FirstActive(d, sig, hi) = n0 * d.period /\ n0 # 0
                           /\ \A n \in Nat : Walk(d, sig)[n] = "Active" <=> n >= n0
<1> DEFINE W == Walk(d, sig)
           A == {n \in Nat : W[n] = "Active"}
           n0 == Min(A)
           Mid(r) == r[1] + (r[2] - r[1]) \div 2
           Is(s) == s = [r \in Nat \X Nat |->
                           IF r[1] >= r[2] THEN r[1]
                           ELSE IF StateAt(d, Mid(r) * d.period, sig) = "Active" THEN s[<<r[1], Mid(r)>>]
                           ELSE s[<<Mid(r) + 1, r[2]>>]]
           f == [r \in Nat \X Nat |-> Found(r[1], r[2], n0)]
           s0 == CHOOSE s : Is(s)
<1>0. d.period \in Nat \ {0}
  BY DeploymentAssumption
<1>1. n0 \in Nat /\ W[n0] = "Active" /\ \A n \in Nat : W[n] = "Active" => n0 <= n
  <2>1. A \in SUBSET Nat /\ hi \in A
    OBVIOUS
  <2>2. n0 \in A /\ \A n \in A : n0 <= n
    <3> HIDE DEF A
    <3> QED
      BY <2>1, LeastNat
  <2> QED
    BY <2>2
<1> HIDE DEF n0
<1>2. \A n \in Nat : W[n] = "Active" <=> n >= n0
  BY <1>1, ActiveStays
<1>3. ASSUME NEW n \in Nat PROVE StateAt(d, n * d.period, sig) = "Active" <=> n0 <= n
  <2>1. (n * d.period) \div d.period = n
    BY <1>0, Boundary
  <2>2. StateAt(d, n * d.period, sig) = W[n]
    BY <2>1, WalkIs
  <2> QED
    BY <1>1, <1>2, <2>2
<1> HIDE DEF W
<1>4. ASSUME NEW lo \in Nat, NEW up \in Nat, lo < up
      PROVE  LET mid == Mid(<<lo, up>>)
             IN /\ mid \in Nat /\ lo <= mid /\ mid < up
                /\ StateAt(d, mid * d.period, sig) = "Active" => Found(lo, up, n0) = Found(lo, mid, n0)
                /\ StateAt(d, mid * d.period, sig) # "Active" => Found(lo, up, n0) = Found(mid + 1, up, n0)
  BY <1>1, <1>3, <1>4, Halves
<1> HIDE DEF Mid
<1>5. Is(f)
  <2>1. ASSUME NEW lo \in Nat, NEW up \in Nat
        PROVE  LET r == <<lo, up>>
               IN f[r] = IF r[1] >= r[2] THEN r[1]
                         ELSE IF StateAt(d, Mid(r) * d.period, sig) = "Active" THEN f[<<r[1], Mid(r)>>]
                         ELSE f[<<Mid(r) + 1, r[2]>>]
    <3> DEFINE m == Mid(<<lo, up>>)
    <3>1. CASE lo >= up
      BY <3>1 DEF Found
    <3>2. CASE lo < up
      <4>1. /\ m \in Nat /\ m + 1 \in Nat
            /\ StateAt(d, m * d.period, sig) = "Active" => Found(lo, up, n0) = Found(lo, m, n0)
            /\ StateAt(d, m * d.period, sig) # "Active" => Found(lo, up, n0) = Found(m + 1, up, n0)
        BY <1>4, <3>2
      <4> HIDE DEF m
      <4>2. f[<<lo, up>>] = Found(lo, up, n0) /\ f[<<lo, m>>] = Found(lo, m, n0)
            /\ f[<<m + 1, up>>] = Found(m + 1, up, n0)
        BY <4>1
      <4> HIDE DEF f
      <4> QED
        BY <3>2, <4>1, <4>2 DEF m
    <3> QED
      BY <3>1, <3>2
  <2>2. \A r \in Nat \X Nat :
          f[r] = IF r[1] >= r[2] THEN r[1]
                 ELSE IF StateAt(d, Mid(r) * d.period, sig) = "Active" THEN f[<<r[1], Mid(r)>>]
                 ELSE f[<<Mid(r) + 1, r[2]>>]
    <3> HIDE DEF f
    <3>1. \A r \in Nat \X Nat : r[1] \in Nat /\ r[2] \in Nat /\ r = <<r[1], r[2]>>
      OBVIOUS
    <3> QED
      BY <2>1, <3>1
  <2>3. f = [r \in Nat \X Nat |-> f[r]]
    OBVIOUS
  <2> HIDE DEF f
  <2> QED
    BY <2>2, <2>3
<1>6. Is(s0)
  <2> HIDE DEF Is, f
  <2> QED
    BY <1>5
<1>7. FirstActive(d, sig, hi) = s0[<<0, hi>>] * d.period
  BY DEF FirstActive, Mid
<1> HIDE DEF s0
<1>8. ASSUME NEW lo \in Nat, NEW up \in Nat
      PROVE  s0[<<lo, up>>] = IF lo >= up THEN lo
                              ELSE IF StateAt(d, Mid(<<lo, up>>) * d.period, sig) = "Active"
                              THEN s0[<<lo, Mid(<<lo, up>>)>>] ELSE s0[<<Mid(<<lo, up>>) + 1, up>>]
  BY <1>6
<1> HIDE DEF Is, f
<1> DEFINE T == {k \in Nat : \A lo, up \in Nat : up - lo <= k => s0[<<lo, up>>] = Found(lo, up, n0)}
<1>9. 0 \in T
  <2> SUFFICES ASSUME NEW lo \in Nat, NEW up \in Nat, up - lo <= 0 PROVE s0[<<lo, up>>] = Found(lo, up, n0)
    OBVIOUS
  <2>1. lo >= up
    OBVIOUS
  <2> QED
    BY <1>8, <2>1 DEF Found
<1>10. ASSUME NEW k \in Nat, k \in T PROVE k + 1 \in T
  <2> SUFFICES ASSUME NEW lo \in Nat, NEW up \in Nat, up - lo <= k + 1 PROVE s0[<<lo, up>>] = Found(lo, up, n0)
    OBVIOUS
  <2>1. CASE lo >= up
    BY <1>8, <2>1 DEF Found
  <2>2. CASE lo < up
    <3> DEFINE m == Mid(<<lo, up>>)
    <3>1. /\ m \in Nat /\ m + 1 \in Nat /\ lo <= m /\ m < up
          /\ StateAt(d, m * d.period, sig) = "Active" => Found(lo, up, n0) = Found(lo, m, n0)
          /\ StateAt(d, m * d.period, sig) # "Active" => Found(lo, up, n0) = Found(m + 1, up, n0)
      BY <1>4, <2>2
    <3>2. s0[<<lo, up>>] = IF StateAt(d, m * d.period, sig) = "Active" THEN s0[<<lo, m>>] ELSE s0[<<m + 1, up>>]
      BY <1>8, <2>2
    <3> HIDE DEF m
    <3>3. m - lo <= k /\ up - (m + 1) <= k
      BY <3>1
    <3>4. s0[<<lo, m>>] = Found(lo, m, n0) /\ s0[<<m + 1, up>>] = Found(m + 1, up, n0)
      BY <1>10, <3>1, <3>3
    <3> HIDE DEF T
    <3> QED
      BY <3>1, <3>2, <3>4
  <2> QED
    BY <2>1, <2>2
<1> HIDE DEF T
<1>11. hi \in T
  BY <1>9, <1>10, NatSetInduction
<1>12. s0[<<0, hi>>] = Found(0, hi, n0)
  BY <1>11 DEF T
<1>13. n0 # 0 /\ n0 <= hi
  BY <1>1, WalkIs DEF W
<1>14. Found(0, hi, n0) = n0
  BY <1>1, <1>13 DEF Found
<1> QED
  BY <1>1, <1>2, <1>7, <1>12, <1>13, <1>14 DEF W

\* The rule is in force from boundary n0 on, and not before.
From(d, sig, n0) == n0 \in Nat \ {0} /\ \A n \in Nat : Walk(d, sig)[n] = "Active" <=> n >= n0

(* What is announced at a height is the boundary at which the rule comes   *)
(* into force, on the chain seen so far and on every longer one.           *)
LEMMA AnnouncedIs ==
    ASSUME NEW d \in Deployments, NEW h \in Nat, NEW seen, NEW sig,
           \A n \in Nat : n <= (h + 1) \div d.period => Walk(d, seen)[n] = Walk(d, sig)[n]
    PROVE  \/ /\ ActivationHeight(d, h, seen) = 0
              /\ StateAt(d, h + 1, sig) # "Active"
           \/ \E n0 : ActivationHeight(d, h, seen) = n0 * d.period /\ From(d, sig, n0)
<1> DEFINE p == d.period
           H == (h + 1) \div p
           V == Walk(d, seen)
           W == Walk(d, sig)
           candidate == Max({(H + 1) * p, CeilWindow(d, d.min)})
<1>1. p \in Nat \ {0} /\ h + 1 \in Nat
  BY DeploymentAssumption
<1>2. H \in Nat /\ H + 1 \in Nat
  <2> HIDE DEF p
  <2> QED
    BY <1>1, Divided
<1>3. V[H] = W[H] /\ StateAt(d, h + 1, seen) = V[H] /\ StateAt(d, h + 1, sig) = W[H]
  BY <1>2, WalkIs
<1>4. ActivationHeight(d, h, seen) =
        IF V[H] = "Active" THEN FirstActive(d, seen, H)
        ELSE IF V[H] = "LockedIn" /\ StateAt(d, candidate, seen) = "Active" THEN candidate ELSE 0
  BY <1>3 DEF ActivationHeight
<1>5. CASE V[H] = "Active"
  <2>1. PICK n0 \in Nat : /\ FirstActive(d, seen, H) = n0 * d.period /\ n0 # 0
                          /\ \A n \in Nat : V[n] = "Active" <=> n >= n0
    <3> HIDE DEF H
    <3> QED
      BY <1>2, <1>5, FirstActiveIs
  <2>2. n0 <= H /\ W[n0] = "Active"
    <3>1. n0 <= H
      BY <1>2, <1>5, <2>1
    <3> QED
      BY <2>1, <3>1
  <2>3. ASSUME NEW n \in Nat PROVE W[n] = "Active" <=> n >= n0
    <3>1. CASE n <= H
      BY <2>1, <3>1
    <3>2. CASE n > H
      <4>1. n >= n0
        BY <1>2, <2>2, <3>2
      <4> HIDE DEF H
      <4> QED
        BY <2>1, <2>2, <4>1, ActiveStays
    <3> HIDE DEF H
    <3> QED
      BY <1>2, <3>1, <3>2
  <2>4. From(d, sig, n0)
    BY <2>1, <2>3 DEF From
  <2> QED
    BY <1>4, <1>5, <2>1, <2>4
<1>6. CASE V[H] = "LockedIn" /\ StateAt(d, candidate, seen) = "Active"
  <2>1. PICK qs \in Nat, qt \in Nat, qm \in Nat : Timing(d, qs, qt, qm)
    BY TimingExists
  <2> DEFINE n0 == Larger(H + 1, qm)
  <2>2. candidate = n0 * p /\ n0 \in Nat
    <3>1. CeilWindow(d, d.min) = qm * p
      BY <2>1 DEF Timing
    <3> HIDE DEF H, p
    <3> QED
      BY <1>1, <1>2, <2>1, <3>1, LargerTimes
  <2>3. \A n \in Nat : W[n] = "Active" <=> n >= n0
    <3>1. Walk(d, sig)[H] = "LockedIn"
      BY <1>3, <1>6
    <3> HIDE DEF H, candidate
    <3> QED
      BY <1>2, <2>1, <3>1, LockedIs
  <2>4. n0 # 0
    <3> HIDE DEF H
    <3> QED
      BY <1>2, <2>1 DEF Larger
  <2>5. From(d, sig, n0)
    BY <2>2, <2>3, <2>4 DEF From
  <2> HIDE DEF n0, candidate, H
  <2> QED
    BY <1>4, <1>6, <2>2, <2>5
<1>7. CASE V[H] # "Active" /\ ~(V[H] = "LockedIn" /\ StateAt(d, candidate, seen) = "Active")
  BY <1>3, <1>4, <1>7
<1> QED
  BY <1>5, <1>6, <1>7

(* For every deployment, vote mask and block tree: the height at which     *)
(* deployment_states says a rule activates, at whatever height it is       *)
(* asked, is the height from which the rule is in force and not one block  *)
(* earlier; it is never below the earliest height reported, nothing is in  *)
(* force unannounced, and a rule that locks in on its timeout is in force  *)
(* at the latest one window later.                                         *)
THEOREM ForecastsAreExact == Spec => []ForecastExact
<1>1. Inv => ForecastExact
  <2> SUFFICES ASSUME Inv, NEW d \in Deployments, NEW h \in 0..Len(active)
               PROVE  LET told == ActivationHeight(d, h, Replayed(SubSeq(active, 1, h)))
                          inForce(k) == StateAt(d, k, signals) = "Active"
                      IN /\ told # 0 => /\ told >= EarliestActivation(d)
                                        /\ \A k \in 1 .. Len(active) + 1 : inForce(k) <=> k >= told
                         /\ inForce(h + 1) => told # 0
                         /\ d.lot /\ h + 1 >= LatestActivation(d) => inForce(h + 1)
    BY DEF ForecastExact
  <2> DEFINE seen == Replayed(SubSeq(active, 1, h))
             told == ActivationHeight(d, h, seen)
             p == d.period
             W == Walk(d, signals)
  <2>1. active \in Seq(Vote) /\ signals = Votes(active) /\ Len(active) \in Nat /\ h \in Nat /\ h + 1 \in Nat
    BY StoredChains, LenProperties DEF Inv
  <2>2. p \in Nat \ {0}
    BY DeploymentAssumption
  <2>3. PICK qs \in Nat, qt \in Nat, qm \in Nat : Timing(d, qs, qt, qm)
    BY TimingExists
  <2>4. \/ told = 0 /\ StateAt(d, h + 1, signals) # "Active"
        \/ \E n0 : told = n0 * p /\ From(d, signals, n0)
    <3>1. \A n \in Nat : n <= (h + 1) \div d.period => Walk(d, seen)[n] = Walk(d, signals)[n]
      BY <2>1, SeenWalk
    <3> HIDE DEF seen
    <3> QED
      BY <2>1, <3>1, AnnouncedIs
  <2> HIDE DEF seen, told
  <2>5. ASSUME NEW n0, told = n0 * p, From(d, signals, n0)
        PROVE  /\ told # 0 /\ told >= EarliestActivation(d)
               /\ \A k \in 1 .. Len(active) + 1 : StateAt(d, k, signals) = "Active" <=> k >= told
    <3> DEFINE x == Larger(Larger(qs, 1) + 2, qm)
    <3>1. n0 \in Nat /\ n0 >= 1 /\ x \in Nat /\ 1 * p = p
      BY <2>2, <2>5 DEF From, Larger
    <3>2. n0 >= x
      <4>1. W[n0] = "Active"
        BY <2>5, <3>1 DEF From
      <4> QED
        BY <2>3, <3>1, <4>1, NotEarlier
    <3> HIDE DEF x
    <3>3. n0 * p >= x * p /\ n0 * p >= 1 * p
      <4> HIDE DEF p
      <4>1. n0 * p \in Nat /\ x * p \in Nat /\ x * p <= n0 * p /\ 1 * p <= n0 * p
        BY <2>2, <3>1, <3>2, Times
      <4> QED
        BY <2>2, <3>1, <4>1
    <3>4. EarliestActivation(d) = x * p
      BY <2>3 DEF Timing, x
    <3>5. told # 0 /\ told >= EarliestActivation(d)
      <4> HIDE DEF p
      <4> QED
        BY <2>2, <2>5, <3>1, <3>3, <3>4
    <3>6. ASSUME NEW k \in 1 .. Len(active) + 1
          PROVE  StateAt(d, k, signals) = "Active" <=> k >= told
      <4>1. k \in Nat
        BY <2>1
      <4>2. StateAt(d, k, signals) = W[k \div p]
        BY WalkIs
      <4>3. k \div p \in Nat /\ (k \div p >= n0 <=> k >= n0 * p)
        <5> HIDE DEF p
        <5> QED
          BY <2>2, <3>1, <4>1, Divided, AtLeast
      <4> QED
        BY <2>5, <4>2, <4>3 DEF From
    <3> QED
      BY <3>5, <3>6
  <2>6. ASSUME d.lot, h + 1 >= LatestActivation(d) PROVE StateAt(d, h + 1, signals) = "Active"
    <3> DEFINE x == Larger(Larger(qt, Larger(qs, 1) + 1) + 1, qm)
    <3>1. x \in Nat
      BY DEF Larger
    <3>2. LatestActivation(d) = x * p
      BY <2>3 DEF Timing
    <3>3. (h + 1) \div p \in Nat /\ (h + 1) \div p >= x
      <4> HIDE DEF p, x
      <4> QED
        BY <2>1, <2>2, <2>6, <3>1, <3>2, Divided, AtLeast
    <3>4. W[(h + 1) \div p] = "Active"
      BY <2>3, <2>6, <3>3, NotLater
    <3> QED
      BY <3>4, WalkIs
  <2> QED
    BY <2>4, <2>5, <2>6 DEF told, seen
<1> QED
  BY <1>1, InitInv, StepInv, PTL DEF Spec
=============================================================================
