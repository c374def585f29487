---------------------------- MODULE LedgerProofs ----------------------------
(***************************************************************************)
(* The ledger's maps: the entry a setter journals is the inverse of the    *)
(* setter, for every map, key and value, and what a write adds to a sum of *)
(* balances is the difference of the value written and the one replaced.   *)
(***************************************************************************)
EXTENDS Payments, FiniteSetTheorems, WellFoundedInduction, TLAPS

IsMap(m) == m = [x \in DOMAIN m |-> m[x]]

(* Writing back what was there, a missing key included, restores a map     *)
(* that holds no value the code would have removed.                        *)
LEMMA SetBack ==
    ASSUME NEW m, IsMap(m), \A x \in DOMAIN m : m[x] # Absent, NEW k, NEW v
    PROVE  Set(Set(m, k, v), k, Get(m, k)) = m
<1> DEFINE s == Set(m, k, v)
           t == Set(s, k, Get(m, k))
<1>1. /\ s = [x \in DOMAIN s |-> s[x]]
      /\ DOMAIN s \ {k} = DOMAIN m \ {k}
      /\ \A x \in DOMAIN m \ {k} : s[x] = m[x]
  <2>1. CASE v = Absent
    <3>1. s = [x \in DOMAIN m \ {k} |-> m[x]]
      BY Zenon, <2>1 DEF Set, Restrict
    <3> HIDE DEF s
    <3> QED
      BY Zenon, <3>1
  <2>2. CASE v # Absent
    <3>1. s = [x \in DOMAIN m \cup {k} |-> IF x = k THEN v ELSE m[x]]
      BY Zenon, <2>2 DEF Set
    <3> HIDE DEF s
    <3> QED
      BY Zenon, <3>1
  <2> QED
    BY Zenon, <2>1, <2>2
<1> HIDE DEF s
<1>2. CASE k \in DOMAIN m
  <2>1. Get(m, k) = m[k] /\ m[k] # Absent
    BY Zenon, <1>2 DEF Get
  <2>2. t = [x \in DOMAIN s \cup {k} |-> IF x = k THEN m[k] ELSE s[x]]
    BY Zenon, <2>1 DEF Set
  <2>3. DOMAIN s \cup {k} = DOMAIN m
    BY Zenon, <1>1, <1>2
  <2>4. \A x \in DOMAIN m : (IF x = k THEN m[k] ELSE s[x]) = m[x]
    BY Zenon, <1>1
  <2>5. t = [x \in DOMAIN m |-> m[x]]
    BY Zenon, <2>2, <2>3, <2>4
  <2> QED
    BY Zenon, <2>5 DEF IsMap, s
<1>3. CASE k \notin DOMAIN m
  <2>1. Get(m, k) = Absent
    BY Zenon, <1>3 DEF Get
  <2>2. t = [x \in DOMAIN s \ {k} |-> s[x]]
    BY Zenon, <2>1 DEF Set, Restrict
  <2>3. DOMAIN s \ {k} = DOMAIN m
    BY Zenon, <1>1, <1>3
  <2>4. \A x \in DOMAIN m : s[x] = m[x]
    BY Zenon, <1>1, <1>3
  <2>5. t = [x \in DOMAIN m |-> m[x]]
    BY Zenon, <2>2, <2>3, <2>4
  <2> QED
    BY Zenon, <2>5 DEF IsMap, s
<1> QED
  BY Zenon, <1>2, <1>3 DEF s

\* The entry of a setter, played on what the setter left, restores it.
LEMMA PutBack ==
    ASSUME NEW st, NEW f, NEW k, NEW v,
           IsMap(st.led), f \in DOMAIN st.led, f # "cells",
           IsMap(st.led[f]), \A x \in DOMAIN st.led[f] : st.led[f][x] # Absent
    PROVE  UndoOne(<<f, k, Get(st.led[f], k)>>, Put(st, f, k, v).led) = st.led
<1> DEFINE p == Put(st, f, k, v)
<1>1. p.led = [st.led EXCEPT ![f] = Set(st.led[f], k, v)]
  BY Zenon DEF Put
<1> HIDE DEF p
<1>2. UndoOne(<<f, k, Get(st.led[f], k)>>, p.led)
        = [p.led EXCEPT ![f] = Set(p.led[f], k, Get(st.led[f], k))]
  BY Zenon DEF UndoOne
<1>3. p.led[f] = Set(st.led[f], k, v)
  BY Zenon, <1>1
<1>4. Set(p.led[f], k, Get(st.led[f], k)) = st.led[f]
  BY Zenon, <1>3, SetBack
<1>5. [p.led EXCEPT ![f] = st.led[f]] = [x \in DOMAIN st.led |-> st.led[x]]
  BY Zenon, <1>1
<1> QED
  BY Zenon, <1>2, <1>4, <1>5 DEF IsMap, p

LEMMA CellBack ==
    ASSUME NEW st, NEW c, NEW v,
           IsMap(st.led), "cells" \in DOMAIN st.led,
           IsMap(st.led["cells"]), c \in DOMAIN st.led["cells"]
    PROVE  UndoOne(<<"cells", c, st.led.cells[c]>>, PutCell(st, c, v).led) = st.led
<1> DEFINE p == PutCell(st, c, v)
           old == st.led["cells"]
<1>1. p.led = [st.led EXCEPT !["cells"] = [old EXCEPT ![c] = v]]
  BY Zenon DEF PutCell
<1>2. UndoOne(<<"cells", c, old[c]>>, p.led)
        = [p.led EXCEPT !["cells"] = [p.led["cells"] EXCEPT ![c] = old[c]]]
  BY Zenon DEF UndoOne
<1>3. p.led["cells"] = [old EXCEPT ![c] = v]
  BY Zenon, <1>1
<1>4. [p.led["cells"] EXCEPT ![c] = old[c]] = old
  <2> HIDE DEF old, p
  <2>1. [[old EXCEPT ![c] = v] EXCEPT ![c] = old[c]] = [x \in DOMAIN old |-> old[x]]
    BY Zenon
  <2> QED
    BY Zenon, <1>3, <2>1 DEF IsMap, old
<1>5. [p.led EXCEPT !["cells"] = old] = [x \in DOMAIN st.led |-> st.led[x]]
  <2> HIDE DEF p
  <2> QED
    BY Zenon, <1>1
<1> QED
  BY Zenon, <1>2, <1>4, <1>5 DEF IsMap

(* record_undo of a map entry: undoing the newest journal entry of a       *)
(* setter gives back the ledger the setter was called on, and the rest of  *)
(* the journal is what it was.  A reorganisation that plays the journal    *)
(* back therefore undoes one write per entry.                              *)
THEOREM WriteIsUndone ==
    ASSUME NEW st, NEW f, NEW k, NEW v, NEW S,
           IsMap(st.led), f \in DOMAIN st.led, f # "cells",
           IsMap(st.led[f]), \A x \in DOMAIN st.led[f] : st.led[f][x] # Absent,
           st.undo \in Seq(S)
    PROVE  LET p == Put(st, f, k, v)
           IN /\ UndoOne(p.undo[Len(p.undo)], p.led) = st.led
              /\ SubSeq(p.undo, 1, Len(p.undo) - 1) = st.undo
<1> DEFINE p == Put(st, f, k, v)
           op == <<f, k, Get(st.led[f], k)>>
           T == S \cup {op}
<1>1. p.led = [st.led EXCEPT ![f] = Set(st.led[f], k, v)] /\ p.undo = Append(st.undo, op)
  BY Zenon DEF Put
<1>2. st.undo \in Seq(T) /\ op \in T
  OBVIOUS
<1> HIDE DEF op, T
<1>3. /\ Len(st.undo) \in Nat /\ Len(p.undo) = Len(st.undo) + 1 /\ p.undo \in Seq(T)
      /\ \A i \in 1..Len(st.undo) : p.undo[i] = st.undo[i]
      /\ p.undo[Len(st.undo) + 1] = op
  BY <1>1, <1>2
<1>4. p.undo[Len(p.undo)] = op
  BY Zenon, <1>3
<1>5. SubSeq(p.undo, 1, Len(p.undo) - 1) = st.undo
  <2>1. SubSeq(p.undo, 1, Len(p.undo) - 1) = SubSeq(p.undo, 1, Len(st.undo))
    BY <1>3
  <2>2. \A i \in 1..Len(st.undo) : p.undo[i] \in T
    BY <1>2, <1>3
  <2>3. /\ SubSeq(p.undo, 1, Len(st.undo)) \in Seq(T)
        /\ Len(SubSeq(p.undo, 1, Len(st.undo))) = Len(st.undo)
        /\ \A i \in 1..Len(st.undo) : SubSeq(p.undo, 1, Len(st.undo))[i] = p.undo[i]
    BY <1>3, <2>2
  <2> QED
    BY <1>2, <1>3, <2>1, <2>3
<1>6. UndoOne(op, p.led) = st.led
  BY Zenon, PutBack DEF op
<1> QED
  BY Zenon, <1>4, <1>5, <1>6

(* The same for the scalar fields and counters.                            *)
THEOREM CellWriteIsUndone ==
    ASSUME NEW st, NEW c, NEW v, NEW S,
           IsMap(st.led), "cells" \in DOMAIN st.led,
           IsMap(st.led["cells"]), c \in DOMAIN st.led["cells"],
           st.undo \in Seq(S)
    PROVE  LET p == PutCell(st, c, v) IN UndoOne(p.undo[Len(p.undo)], p.led) = st.led
<1> DEFINE p == PutCell(st, c, v)
           old == st.led["cells"]
           op == <<"cells", c, old[c]>>
           T == S \cup {op}
<1>1. p.led = [st.led EXCEPT !["cells"] = [old EXCEPT ![c] = v]] /\ p.undo = Append(st.undo, op)
  BY Zenon DEF PutCell
<1>2. st.undo \in Seq(T) /\ op \in T
  OBVIOUS
<1>3. p.undo[Len(p.undo)] = op
  <2> HIDE DEF op, T
  <2> QED
    BY <1>1, <1>2
<1>4. UndoOne(op, p.led) = st.led
  BY Zenon, CellBack
<1> QED
  BY Zenon, <1>3, <1>4

-----------------------------------------------------------------------------
(* Induction, stated for a set instead of an operator. *)

LEMMA SmallestSet ==
    ASSUME NEW S, NEW F, F \subseteq FiniteSubsetsOf(S), F # {}
    PROVE  \E X \in F : \A Y \in F : ~(Y \subseteq X /\ Y # X)
<1> DEFINE R == StrictSubsetOrdering(S)
<1>1. IsWellFoundedOn(R, FiniteSubsetsOf(S))
  BY Zenon, FS_StrictSubsetOrderingWellFounded
<1>2. PICK X \in F : \A Y \in F : ~(<<Y, X>> \in R)
  <2> HIDE DEF R
  <2> QED
    BY Zenon, <1>1, WFMin
<1>3. F \subseteq SUBSET S
  BY Zenon DEF FiniteSubsetsOf
<1> QED
  BY Zenon, <1>2, <1>3 DEF StrictSubsetOrdering

LEMMA NatSetInduction ==
    ASSUME NEW T, 0 \in T, \A n \in Nat : n \in T => n + 1 \in T
    PROVE  \A n \in Nat : n \in T
<1> DEFINE B == Nat \ T
           F == {1..n : n \in B}
<1> SUFFICES ASSUME B # {} PROVE FALSE
  BY Zenon
<1>1. F # {} /\ F \subseteq FiniteSubsetsOf(Nat)
  <2>1. ASSUME NEW n \in Nat PROVE 1..n \in FiniteSubsetsOf(Nat)
    <3>1. IsFiniteSet(1..n)
      BY FS_Interval
    <3> QED
      BY <3>1 DEF FiniteSubsetsOf
  <2> QED
    BY Zenon, <2>1
<1>2. PICK X \in F : \A Y \in F : ~(Y \subseteq X /\ Y # X)
  <2> HIDE DEF F
  <2> QED
    BY <1>1, SmallestSet
<1>3. PICK n \in B : X = 1..n
  BY Zenon, <1>2
<1>4. n # 0 /\ n - 1 \in Nat
  OBVIOUS
<1>5. n - 1 \in B
  BY <1>4
<1>6. n \in 1..n /\ n \notin 1..(n - 1) /\ 1..(n - 1) \subseteq 1..n
  BY <1>4
<1>7. 1..(n - 1) \in F
  BY Zenon, <1>5
<1> QED
  BY Zenon, <1>2, <1>3, <1>6, <1>7

\* A function defined by recursion on the numbers up to N exists.
Iterated(g, N, S, first, step) ==
  g \in [0..N -> S] /\ g[0] = first /\ \A n \in 1..N : g[n] = step[<<n, g[n - 1]>>]

LEMMA Iterates ==
    ASSUME NEW N \in Nat, NEW S, NEW first \in S, NEW step \in [(1..N) \X S -> S]
    PROVE  \E g : Iterated(g, N, S, first, step)
<1> DEFINE Runs(g, k) == g \in [0..k -> S] /\ g[0] = first /\ \A n \in 1..k : g[n] = step[<<n, g[n - 1]>>]
           T == {k \in Nat : k <= N => \E g : Runs(g, k)}
<1>1. 0 \in T
  <2>1. Runs([n \in 0..0 |-> first], 0)
    OBVIOUS
  <2> QED
    BY Zenon, <2>1
<1>2. ASSUME NEW k \in Nat, k \in T PROVE k + 1 \in T
  <2> SUFFICES ASSUME k + 1 <= N PROVE \E g : Runs(g, k + 1)
    OBVIOUS
  <2>1. PICK g : Runs(g, k)
    BY <1>2
  <2> DEFINE v == step[<<k + 1, g[k]>>]
             f == [n \in 0..k + 1 |-> IF n = k + 1 THEN v ELSE g[n]]
  <2>2. v \in S
    BY <2>1
  <2>3. f \in [0..k + 1 -> S] /\ f[0] = first
    <3> HIDE DEF v
    <3> QED
      BY <2>1, <2>2
  <2>4. \A n \in 1..k + 1 : f[n] = step[<<n, f[n - 1]>>]
    <3>1. ASSUME NEW n \in 1..k PROVE f[n] = step[<<n, f[n - 1]>>]
      BY <2>1, n # k + 1, n - 1 # k + 1, n \in 0..k + 1, n - 1 \in 0..k + 1 DEF f
    <3>2. f[k + 1] = v /\ f[(k + 1) - 1] = g[k]
      BY (k + 1) - 1 = k, k # k + 1, k \in 0..k + 1, k + 1 \in 0..k + 1 DEF f
    <3>3. \A n \in 1..k + 1 : n \in 1..k \/ n = k + 1
      OBVIOUS
    <3> QED
      BY Zenon, <3>1, <3>2, <3>3
  <2> QED
    BY Zenon, <2>3, <2>4
<1>3. N \in T
  <2> HIDE DEF T
  <2> QED
    BY Zenon, <1>1, <1>2, NatSetInduction
<1> QED
  BY <1>3 DEF Iterated

-----------------------------------------------------------------------------
(* The journal as a whole. *)

Journal(log) == \E S : log \in Seq(S)

\* h retraces the ledgers between base and l: each entry of the log undoes
\* the step that led to the ledger it is played on.
Undoes(l, log, base) ==
  /\ Journal(log)
  /\ \E h : /\ h[0] = base /\ h[Len(log)] = l
            /\ \A i \in 1..Len(log) : UndoOne(log[i], h[i]) = h[i - 1]

LEMMA UndoesNothing ==
    ASSUME NEW l PROVE Undoes(l, <<>>, l)
<1> DEFINE h == [i \in {0} |-> l]
<1>1. h[0] = l /\ h[Len(<<>>)] = l /\ \A i \in 1..Len(<<>>) : UndoOne(<<>>[i], h[i]) = h[i - 1]
  OBVIOUS
<1>2. <<>> \in Seq({})
  OBVIOUS
<1> QED
  BY Zenon, <1>1, <1>2 DEF Undoes, Journal

\* One more entry, that undoes the step from l to m.
LEMMA UndoesAppend ==
    ASSUME NEW l, NEW log, NEW base, Undoes(l, log, base),
           NEW op, NEW m, UndoOne(op, m) = l
    PROVE  Undoes(m, Append(log, op), base)
<1>1. PICK S : log \in Seq(S)
  BY Zenon DEF Undoes, Journal
<1> DEFINE T == S \cup {op}
           n == Len(log)
           new == Append(log, op)
<1>2. log \in Seq(T) /\ op \in T
  BY <1>1
<1> HIDE DEF T
<1>3. /\ n \in Nat /\ Len(new) = n + 1 /\ new \in Seq(T)
      /\ \A i \in 1..n : new[i] = log[i]
      /\ new[n + 1] = op
  BY <1>2
<1>4. PICK h : /\ h[0] = base /\ h[n] = l
               /\ \A i \in 1..n : UndoOne(log[i], h[i]) = h[i - 1]
  BY Zenon DEF Undoes
<1> HIDE DEF n, new
<1> DEFINE g == [i \in 0..(n + 1) |-> IF i = n + 1 THEN m ELSE h[i]]
<1>5. g[0] = base /\ g[n + 1] = m /\ \A i \in 0..n : g[i] = h[i]
  BY <1>3, <1>4
<1> HIDE DEF g
<1>6. ASSUME NEW i \in 1..(n + 1) PROVE UndoOne(new[i], g[i]) = g[i - 1]
  <2>1. CASE i = n + 1
    BY <1>3, <1>4, <1>5, <2>1
  <2>2. CASE i # n + 1
    <3>1. i \in 1..n /\ i \in 0..n /\ i - 1 \in 0..n
      BY <1>3, <2>2
    <3> QED
      BY Zenon, <1>3, <1>4, <1>5, <3>1
  <2> QED
    BY Zenon, <2>1, <2>2
<1> QED
  BY Zenon, <1>3, <1>5, <1>6 DEF Undoes, Journal, new, n

\* Playing the journal back, last entry first, arrives at base.
LEMMA UndoesApplies ==
    ASSUME NEW l, NEW log, NEW base, Undoes(l, log, base)
    PROVE  ApplyUndo(l, log) = base
<1> DEFINE n == Len(log)
           Plays(g) == g = [k \in 0..n |-> IF k = 0 THEN l ELSE UndoOne(log[n - k + 1], g[k - 1])]
<1>1. n \in Nat
  BY DEF Undoes, Journal
<1>2. PICK h : /\ h[0] = base /\ h[n] = l
               /\ \A i \in 1..n : UndoOne(log[i], h[i]) = h[i - 1]
  BY Zenon DEF Undoes
<1>3. ApplyUndo(l, log) = (CHOOSE g : Plays(g))[n]
  BY Zenon DEF ApplyUndo
<1> HIDE DEF n
<1>4. Plays([k \in 0..n |-> h[n - k]])
  <2> DEFINE g == [k \in 0..n |-> h[n - k]]
  <2>1. ASSUME NEW k \in 0..n
        PROVE  g[k] = IF k = 0 THEN l ELSE UndoOne(log[n - k + 1], g[k - 1])
    <3>1. CASE k = 0
      BY <1>1, <1>2, <3>1
    <3>2. CASE k # 0
      <4>1. k - 1 \in 0..n /\ n - k + 1 \in 1..n /\ n - (k - 1) = n - k + 1 /\ (n - k + 1) - 1 = n - k
        BY <1>1, <3>2
      <4>2. g[k - 1] = h[n - k + 1] /\ g[k] = h[n - k]
        BY Zenon, <4>1
      <4> QED
        BY Zenon, <1>2, <3>2, <4>1, <4>2
    <3> QED
      BY Zenon, <3>1, <3>2
  <2>2. g = [k \in 0..n |-> g[k]]
    BY Zenon
  <2> HIDE DEF g
  <2>3. Plays(g)
    BY Zenon, <2>1, <2>2
  <2> QED
    BY Zenon, <2>3 DEF g
<1>5. ASSUME NEW g, Plays(g) PROVE g[n] = base
  <2> DEFINE T == {k \in Nat : k <= n => g[k] = h[n - k]}
  <2>1. 0 \in T
    BY <1>1, <1>2, <1>5
  <2>2. ASSUME NEW k \in Nat, k \in T PROVE k + 1 \in T
    <3> SUFFICES ASSUME k + 1 <= n PROVE g[k + 1] = h[n - (k + 1)]
      OBVIOUS
    <3>1. k + 1 \in 0..n /\ k + 1 # 0 /\ (k + 1) - 1 = k /\ n - (k + 1) + 1 = n - k
            /\ n - k \in 1..n /\ (n - k) - 1 = n - (k + 1)
      BY <1>1
    <3>2. g[k] = h[n - k]
      BY <2>2, <1>1, <3>1
    <3>3. g[k + 1] = UndoOne(log[n - k], g[k])
      BY Zenon, <1>5, <3>1
    <3> QED
      BY Zenon, <1>2, <3>1, <3>2, <3>3
  <2>3. n \in T
    <3> HIDE DEF T
    <3> QED
      BY Zenon, <1>1, <2>1, <2>2, NatSetInduction
  <2> QED
    BY <1>1, <1>2, <2>3
<1> HIDE DEF Plays
<1>6. \E g : Plays(g)
  BY Zenon, <1>4
<1>7. Plays(CHOOSE g : Plays(g))
  BY Zenon, <1>6
<1> QED
  BY Zenon, <1>3, <1>5, <1>7

-----------------------------------------------------------------------------
(* The shape the ledger keeps, and what the writes preserve. *)

MapNames == {"accounts", "storage", "tokens", "balances", "policies", "windows", "htlcs",
             "classes", "nfts", "multisig", "proposals", "intents", "vaults"}

CellNames == {"mined", "escrow", "collateral", "oracle", "pool1", "value1", "drain1",
              "pool2", "value2", "drain2"}

\* A map of the ledger: finite, and without a value the code would remove.
Tidy(m) == IsMap(m) /\ IsFiniteSet(DOMAIN m) /\ \A x \in DOMAIN m : m[x] # Absent

Shape(l) ==
  /\ IsMap(l) /\ DOMAIN l = MapNames \cup {"cells"}
  /\ \A f \in MapNames : Tidy(l[f])
  /\ IsMap(l["cells"]) /\ DOMAIN l["cells"] = CellNames

\* A ledger under execution whose journal leads back to base.
Good(st, base) == Shape(st.led) /\ Shape(base) /\ Undoes(st.led, st.undo, base)

\* n is m with v at k, or without k when there is nothing to write.
Written(m, k, v, n) ==
  /\ v = Absent => DOMAIN n = DOMAIN m \ {k}
  /\ v # Absent => DOMAIN n = DOMAIN m \cup {k} /\ n[k] = v
  /\ \A x \in DOMAIN m \ {k} : n[x] = m[x]

LEMMA SetTidy ==
    ASSUME NEW m, Tidy(m), NEW k, NEW v
    PROVE  Tidy(Set(m, k, v)) /\ Written(m, k, v, Set(m, k, v))
<1>1. CASE v = Absent
  <2>1. Set(m, k, v) = [x \in DOMAIN m \ {k} |-> m[x]]
    BY Zenon, <1>1 DEF Set, Restrict
  <2>2. IsFiniteSet(DOMAIN m \ {k})
    BY Zenon, FS_RemoveElement DEF Tidy
  <2> QED
    BY Zenon, <1>1, <2>1, <2>2 DEF Tidy, IsMap, Written
<1>2. CASE v # Absent
  <2>1. Set(m, k, v) = [x \in DOMAIN m \cup {k} |-> IF x = k THEN v ELSE m[x]]
    BY Zenon, <1>2 DEF Set
  <2>2. IsFiniteSet(DOMAIN m \cup {k})
    BY Zenon, FS_AddElement DEF Tidy
  <2> QED
    BY Zenon, <1>2, <2>1, <2>2 DEF Tidy, IsMap, Written
<1> QED
  BY Zenon, <1>1, <1>2

LEMMA PutGood ==
    ASSUME NEW st, NEW base, Good(st, base), NEW f \in MapNames, NEW k, NEW v
    PROVE  Good(Put(st, f, k, v), base)
<1> DEFINE p == Put(st, f, k, v)
           op == <<f, k, Get(st.led[f], k)>>
<1>1. p.led = [st.led EXCEPT ![f] = Set(st.led[f], k, v)] /\ p.undo = Append(st.undo, op)
  BY Zenon DEF Put
<1>2. f # "cells" /\ f \in DOMAIN st.led /\ IsMap(st.led) /\ Tidy(st.led[f])
  BY Zenon DEF Good, Shape, MapNames
<1>3. UndoOne(op, p.led) = st.led
  BY Zenon, <1>2, PutBack DEF Tidy
<1> HIDE DEF op, p
<1>4. Undoes(p.led, p.undo, base)
  BY <1>1, <1>3, UndoesAppend DEF Good
<1>5. Tidy(Set(st.led[f], k, v))
  BY Zenon, <1>2, SetTidy
<1>6. Shape(p.led)
  <2>1. /\ DOMAIN p.led = DOMAIN st.led /\ IsMap(p.led) /\ p.led[f] = Set(st.led[f], k, v)
        /\ \A g \in DOMAIN st.led : g # f => p.led[g] = st.led[g]
    BY Zenon, <1>1, <1>2 DEF IsMap
  <2> QED
    BY Zenon, <1>2, <1>5, <2>1 DEF Good, Shape, MapNames
<1> QED
  BY Zenon, <1>4, <1>6 DEF Good, p

LEMMA PutCellGood ==
    ASSUME NEW st, NEW base, Good(st, base), NEW c \in CellNames, NEW v
    PROVE  Good(PutCell(st, c, v), base)
<1> DEFINE p == PutCell(st, c, v)
           old == st.led["cells"]
           op == <<"cells", c, st.led.cells[c]>>
<1>1. p.led = [st.led EXCEPT !["cells"] = [old EXCEPT ![c] = v]] /\ p.undo = Append(st.undo, op)
  BY Zenon DEF PutCell
<1>2. "cells" \in DOMAIN st.led /\ IsMap(st.led) /\ IsMap(old) /\ c \in DOMAIN old
  BY Zenon DEF Good, Shape
<1>3. UndoOne(op, p.led) = st.led
  BY Zenon, <1>2, CellBack
<1> HIDE DEF op, p
<1>4. Undoes(p.led, p.undo, base)
  BY <1>1, <1>3, UndoesAppend DEF Good
<1>5. Shape(p.led)
  <2>1. /\ DOMAIN p.led = DOMAIN st.led /\ IsMap(p.led) /\ p.led["cells"] = [old EXCEPT ![c] = v]
        /\ \A g \in DOMAIN st.led : g # "cells" => p.led[g] = st.led[g]
    <3> HIDE DEF old
    <3> QED
      BY Zenon, <1>1, <1>2 DEF IsMap
  <2>2. DOMAIN p.led["cells"] = DOMAIN old /\ IsMap(p.led["cells"])
    <3> HIDE DEF old
    <3> QED
      BY <2>1, <1>2 DEF IsMap
  <2> QED
    BY <2>1, <2>2 DEF Good, Shape, MapNames
<1> QED
  BY Zenon, <1>4, <1>5 DEF Good, p

LEMMA ListingProperties ==
    ASSUME NEW S, IsFiniteSet(S)
    PROVE  /\ Listing(S) \in [1..Cardinality(S) -> S]
           /\ Listing(S) \in Seq(S) /\ Len(Listing(S)) = Cardinality(S) /\ Cardinality(S) \in Nat
           /\ \A i, j \in 1..Cardinality(S) : Listing(S)[i] = Listing(S)[j] => i = j
           /\ \A x \in S : \E i \in 1..Cardinality(S) : Listing(S)[i] = x
<1> DEFINE n == Cardinality(S)
           s == Listing(S)
<1>1. n \in Nat /\ ExistsBijection(1..n, S)
  BY Zenon, FS_CardinalityType
<1>2. PICK b : b \in Bijection(1..n, S)
  BY Zenon, <1>1 DEF ExistsBijection
<1>3. b \in [1..n -> S] /\ IsInjective(b)
  BY Zenon, <1>2 DEF Bijection, Injection
<1>4. s \in [1..n -> S] /\ IsInjective(s)
  BY Zenon, <1>3 DEF Listing
<1> HIDE DEF s
<1>5. s \in Injection(1..n, S) /\ IsFiniteSet(1..n) /\ Cardinality(1..n) = n
  BY <1>1, <1>4, FS_Interval DEF Injection
<1>6. s \in Surjection(1..n, S)
  BY Zenon, <1>5, FS_Injection
<1>7. \A x \in S : \E i \in 1..n : s[i] = x
  BY Zenon, <1>6 DEF Surjection
<1>8. s \in Seq(S) /\ Len(s) = n
  BY <1>1, <1>4
<1> QED
  BY Zenon, <1>1, <1>4, <1>7, <1>8 DEF IsInjective, s

\* What SetAll leaves, key by key.
LEMMA SetAllProperties ==
    ASSUME NEW m, Tidy(m), NEW w, IsFiniteSet(DOMAIN w)
    PROVE  /\ Tidy(SetAll(m, w))
           /\ \A x : x \in DOMAIN SetAll(m, w) <=>
                       \/ x \in DOMAIN w /\ w[x] # Absent
                       \/ x \notin DOMAIN w /\ x \in DOMAIN m
           /\ \A x \in DOMAIN SetAll(m, w) :
                SetAll(m, w)[x] = IF x \in DOMAIN w THEN w[x] ELSE m[x]
<1> DEFINE live == {k \in DOMAIN w : w[k] # Absent}
           D == (DOMAIN m \ DOMAIN w) \cup live
<1>1. SetAll(m, w) = [x \in D |-> IF x \in live THEN w[x] ELSE m[x]]
  BY Zenon DEF SetAll
<1>2. IsFiniteSet(D)
  <2>1. IsFiniteSet(live) /\ IsFiniteSet(DOMAIN m \ DOMAIN w)
    BY Zenon, FS_Subset DEF Tidy
  <2> QED
    BY Zenon, <2>1, FS_Union
<1>3. \A x \in D : SetAll(m, w)[x] = (IF x \in DOMAIN w THEN w[x] ELSE m[x]) /\ SetAll(m, w)[x] # Absent
  BY Zenon, <1>1 DEF Tidy
<1>4. DOMAIN SetAll(m, w) = D /\ IsMap(SetAll(m, w))
  BY Zenon, <1>1 DEF IsMap
<1> HIDE DEF D
<1>5. Tidy(SetAll(m, w))
  BY Zenon, <1>2, <1>3, <1>4 DEF Tidy
<1> QED
  BY Zenon, <1>3, <1>4, <1>5 DEF D

\* Undoing the last of several writes is leaving it out.
LEMMA SetAllBack ==
    ASSUME NEW m, Tidy(m), NEW w, IsFiniteSet(DOMAIN w), NEW K, NEW k,
           K \subseteq DOMAIN w, k \in DOMAIN w, k \notin K
    PROVE  Set(SetAll(m, [x \in K \cup {k} |-> w[x]]), k, Get(m, k)) = SetAll(m, [x \in K |-> w[x]])
<1> DEFINE u == [x \in K |-> w[x]]
           v == [x \in K \cup {k} |-> w[x]]
           a == SetAll(m, u)
           b == SetAll(m, v)
           c == Set(b, k, Get(m, k))
<1>1. IsFiniteSet(DOMAIN u) /\ IsFiniteSet(DOMAIN v)
  BY FS_Subset
<1>2. /\ Tidy(a)
      /\ \A x : x \in DOMAIN a <=> (x \in K /\ w[x] # Absent) \/ (x \notin K /\ x \in DOMAIN m)
      /\ \A x \in DOMAIN a : a[x] = IF x \in K THEN w[x] ELSE m[x]
  <2>1. /\ Tidy(a)
        /\ \A x : x \in DOMAIN a <=> (x \in DOMAIN u /\ u[x] # Absent) \/ (x \notin DOMAIN u /\ x \in DOMAIN m)
        /\ \A x \in DOMAIN a : a[x] = IF x \in DOMAIN u THEN u[x] ELSE m[x]
    <3> HIDE DEF u
    <3> QED
      BY Zenon, <1>1, SetAllProperties
  <2> HIDE DEF a
  <2> QED
    BY Zenon, <2>1
<1>3. /\ Tidy(b)
      /\ \A x : x \in DOMAIN b <=> (x \in K \cup {k} /\ w[x] # Absent) \/ (x \notin K \cup {k} /\ x \in DOMAIN m)
      /\ \A x \in DOMAIN b : b[x] = IF x \in K \cup {k} THEN w[x] ELSE m[x]
  <2>1. /\ Tidy(b)
        /\ \A x : x \in DOMAIN b <=> (x \in DOMAIN v /\ v[x] # Absent) \/ (x \notin DOMAIN v /\ x \in DOMAIN m)
        /\ \A x \in DOMAIN b : b[x] = IF x \in DOMAIN v THEN v[x] ELSE m[x]
    <3> HIDE DEF v
    <3> QED
      BY Zenon, <1>1, SetAllProperties
  <2> HIDE DEF b
  <2> QED
    BY Zenon, <2>1
<1> HIDE DEF a, b
<1>4. /\ Tidy(c)
      /\ Get(m, k) = Absent => DOMAIN c = DOMAIN b \ {k}
      /\ Get(m, k) # Absent => DOMAIN c = DOMAIN b \cup {k} /\ c[k] = Get(m, k)
      /\ \A x \in DOMAIN b \ {k} : c[x] = b[x]
  <2> DEFINE old == Get(m, k)
  <2>1. Tidy(b)
    BY Zenon, <1>3
  <2> HIDE DEF old
  <2>2. Tidy(Set(b, k, old)) /\ Written(b, k, old, Set(b, k, old))
    BY Zenon, <2>1, SetTidy
  <2> QED
    BY Zenon, <2>2 DEF old, Written
<1>5. /\ k \in DOMAIN m => Get(m, k) = m[k] /\ m[k] # Absent
      /\ k \notin DOMAIN m => Get(m, k) = Absent
  BY Zenon DEF Get, Tidy
<1> HIDE DEF c
<1>6. DOMAIN c = DOMAIN a
  BY Zenon, <1>2, <1>3, <1>4, <1>5
<1>7. \A x \in DOMAIN a : c[x] = a[x]
  BY Zenon, <1>2, <1>3, <1>4, <1>5, <1>6
<1>8. c = a
  BY Zenon, <1>2, <1>4, <1>6, <1>7 DEF Tidy, IsMap
<1> QED
  BY Zenon, <1>8 DEF a, b, c

LEMMA SetAllNothing ==
    ASSUME NEW m, Tidy(m), NEW w
    PROVE  SetAll(m, [x \in {} |-> w[x]]) = m
<1>1. SetAll(m, [x \in {} |-> w[x]]) = [x \in DOMAIN m |-> m[x]]
  BY Zenon DEF SetAll
<1> QED
  BY Zenon, <1>1 DEF Tidy, IsMap

\* Several writes are undone like one after the other.
LEMMA PutAllGood ==
    ASSUME NEW st, NEW base, Good(st, base), NEW f \in MapNames, NEW w, IsMap(w), IsFiniteSet(DOMAIN w)
    PROVE  Good(PutAll(st, f, w), base)
<1> DEFINE p == PutAll(st, f, w)
           m == st.led[f]
           keys == Listing(DOMAIN w)
           n == Len(keys)
           ops == [i \in 1..n |-> <<f, keys[i], Get(m, keys[i])>>]
           K(i) == {keys[j] : j \in 1..i}
           L(i) == [st.led EXCEPT ![f] = SetAll(m, [x \in K(i) |-> w[x]])]
<1>1. p.led = [st.led EXCEPT ![f] = SetAll(m, w)] /\ p.undo = st.undo \o ops
  BY Zenon DEF PutAll
<1>2. /\ n \in Nat
      /\ \A i \in 1..n : keys[i] \in DOMAIN w
      /\ \A i, j \in 1..n : keys[i] = keys[j] => i = j
      /\ \A x \in DOMAIN w : \E i \in 1..n : keys[i] = x
  BY ListingProperties
<1>3. f # "cells" /\ f \in DOMAIN st.led /\ IsMap(st.led) /\ Tidy(m)
  BY Zenon DEF Good, Shape, MapNames
<1> HIDE DEF m, keys, n
<1>4. L(0) = st.led
  <2>1. K(0) = {}
    OBVIOUS
  <2>2. SetAll(m, [x \in K(0) |-> w[x]]) = m
    BY Zenon, <1>3, <2>1, SetAllNothing
  <2>3. [st.led EXCEPT ![f] = m] = [g \in DOMAIN st.led |-> st.led[g]]
    BY Zenon, <1>3 DEF m
  <2> QED
    BY Zenon, <1>3, <2>2, <2>3 DEF IsMap
<1>5. L(n) = p.led
  <2>1. K(n) = DOMAIN w
    BY <1>2
  <2>2. [x \in K(n) |-> w[x]] = w
    BY Zenon, <2>1 DEF IsMap
  <2> HIDE DEF p
  <2> QED
    BY Zenon, <1>1, <2>2
<1>6. ASSUME NEW i \in 1..n PROVE UndoOne(ops[i], L(i)) = L(i - 1)
  <2> DEFINE k == keys[i]
  <2>1. K(i) = K(i - 1) \cup {k}
    BY <1>2
  <2>2. K(i - 1) \subseteq DOMAIN w /\ k \in DOMAIN w /\ k \notin K(i - 1)
    BY <1>2
  <2>3. Set(SetAll(m, [x \in K(i) |-> w[x]]), k, Get(m, k)) = SetAll(m, [x \in K(i - 1) |-> w[x]])
    <3> DEFINE J == K(i - 1)
    <3> HIDE DEF K, k, J
    <3>1. Set(SetAll(m, [x \in J \cup {k} |-> w[x]]), k, Get(m, k)) = SetAll(m, [x \in J |-> w[x]])
      BY <1>3, <2>2, SetAllBack DEF J
    <3>2. K(i) = J \cup {k}
      BY Zenon, <2>1 DEF J
    <3> QED
      BY Zenon, <3>1, <3>2 DEF J
  <2>4. ops[i] = <<f, k, Get(m, k)>>
    BY Zenon
  <2> DEFINE a == SetAll(m, [x \in K(i) |-> w[x]])
             b == SetAll(m, [x \in K(i - 1) |-> w[x]])
  <2>5. Set(a, k, Get(m, k)) = b
    BY Zenon, <2>3
  <2> HIDE DEF K, k, a, b, ops
  <2>6. UndoOne(<<f, k, Get(m, k)>>, [st.led EXCEPT ![f] = a]) = [st.led EXCEPT ![f] = Set(a, k, Get(m, k))]
    BY Zenon, <1>3 DEF UndoOne
  <2>7. L(i) = [st.led EXCEPT ![f] = a] /\ L(i - 1) = [st.led EXCEPT ![f] = b]
    BY Zenon DEF a, b
  <2> QED
    BY Zenon, <2>4, <2>5, <2>6, <2>7
<1> HIDE DEF L, K, p
<1>7. PICK S : st.undo \in Seq(S)
  BY Zenon DEF Good, Undoes, Journal
<1> DEFINE N == Len(st.undo)
           T == S \cup {ops[i] : i \in 1..n}
<1>8. st.undo \in Seq(T) /\ ops \in Seq(T) /\ Len(ops) = n /\ N \in Nat
  <2>1. st.undo \in Seq(T)
    BY <1>7
  <2>2. ops \in [1..n -> T]
    BY Zenon
  <2> HIDE DEF T, ops
  <2> QED
    BY <1>2, <2>1, <2>2
<1> HIDE DEF T, ops
<1>9. /\ p.undo \in Seq(T) /\ Len(p.undo) = N + n
      /\ \A i \in 1..(N + n) : p.undo[i] = IF i <= N THEN st.undo[i] ELSE ops[i - N]
  <2>1. /\ st.undo \o ops \in Seq(T) /\ Len(st.undo \o ops) = Len(st.undo) + Len(ops)
        /\ \A i \in 1..(Len(st.undo) + Len(ops)) :
             (st.undo \o ops)[i] = IF i <= Len(st.undo) THEN st.undo[i] ELSE ops[i - Len(st.undo)]
    BY <1>8
  <2> QED
    BY Zenon, <1>1, <1>8, <2>1
<1>10. PICK h : /\ h[0] = base /\ h[N] = st.led
                /\ \A i \in 1..N : UndoOne(st.undo[i], h[i]) = h[i - 1]
  BY Zenon DEF Good, Undoes
<1> HIDE DEF N
<1> DEFINE g == [i \in 0..(N + n) |-> IF i <= N THEN h[i] ELSE L(i - N)]
<1>11. /\ \A i \in 0..N : g[i] = h[i]
       /\ \A i \in 0..n : g[N + i] = L(i)
  <2>1. ASSUME NEW i \in 0..N PROVE g[i] = h[i]
    BY <1>2, <1>8
  <2>2. ASSUME NEW i \in 0..n PROVE g[N + i] = L(i)
    <3>1. CASE i = 0
      BY <1>2, <1>4, <1>8, <1>10, <3>1
    <3>2. CASE i # 0
      <4>1. N + i \in 0..(N + n) /\ ~(N + i <= N) /\ (N + i) - N = i
        BY <1>2, <1>8, <3>2
      <4>2. g[N + i] = L((N + i) - N)
        BY Zenon, <4>1
      <4> QED
        BY Zenon, <4>1, <4>2
    <3> QED
      BY Zenon, <3>1, <3>2
  <2> QED
    BY Zenon, <2>1, <2>2
<1> HIDE DEF g
<1>12. ASSUME NEW i \in 1..(N + n) PROVE UndoOne(p.undo[i], g[i]) = g[i - 1]
  <2>1. CASE i <= N
    <3>1. i \in 0..N /\ i - 1 \in 0..N /\ i \in 1..N
      BY <1>8, <2>1
    <3> QED
      BY Zenon, <1>9, <1>10, <1>11, <2>1, <3>1
  <2>2. CASE ~(i <= N)
    <3> DEFINE j == i - N
    <3>1. j \in 1..n /\ j \in 0..n /\ j - 1 \in 0..n /\ N + j = i /\ N + (j - 1) = i - 1
      BY <1>2, <1>8, <2>2
    <3>2. p.undo[i] = ops[j]
      BY Zenon, <1>9, <2>2
    <3> HIDE DEF j
    <3>3. g[i] = L(j) /\ g[i - 1] = L(j - 1)
      BY Zenon, <1>11, <3>1
    <3> QED
      BY Zenon, <1>6, <3>1, <3>2, <3>3
  <2> QED
    BY Zenon, <2>1, <2>2
<1>13. g[0] = base /\ g[N + n] = p.led
  BY <1>2, <1>5, <1>8, <1>10, <1>11
<1>14. Undoes(p.led, p.undo, base)
  BY Zenon, <1>9, <1>12, <1>13 DEF Undoes, Journal
<1>15. Shape(p.led)
  <2>1. Tidy(SetAll(m, w))
    BY Zenon, <1>3, SetAllProperties
  <2>2. /\ DOMAIN p.led = DOMAIN st.led /\ IsMap(p.led) /\ p.led[f] = SetAll(m, w)
        /\ \A x \in DOMAIN st.led : x # f => p.led[x] = st.led[x]
    BY Zenon, <1>1, <1>3 DEF IsMap
  <2> QED
    BY Zenon, <1>3, <2>1, <2>2 DEF Good, Shape, MapNames
<1> QED
  BY Zenon, <1>14, <1>15 DEF Good, p

\* st2 goes on from st: what was written since is in its journal.
Journals(st, st2) == \A base : Good(st, base) => Good(st2, base)

LEMMA JournalsPut ==
    ASSUME NEW st, NEW f \in MapNames, NEW k, NEW v
    PROVE  Journals(st, Put(st, f, k, v))
BY Zenon, PutGood DEF Journals

LEMMA JournalsPutCell ==
    ASSUME NEW st, NEW c \in CellNames, NEW v
    PROVE  Journals(st, PutCell(st, c, v))
BY Zenon, PutCellGood DEF Journals

LEMMA JournalsPutAll ==
    ASSUME NEW st, NEW f \in MapNames, NEW w, IsMap(w), IsFiniteSet(DOMAIN w)
    PROVE  Journals(st, PutAll(st, f, w))
BY Zenon, PutAllGood DEF Journals

-----------------------------------------------------------------------------
(* Sums over finite sets. *)

\* What a sum over the subsets of a set satisfies at S.
Def(f, g, S) == IF S = {} THEN 0 
                ELSE f[CHOOSE x \in S : TRUE] + g[S \ {CHOOSE x \in S : TRUE}]

\* f has integers on the finite set D, and its value at k, 0 outside D.
Ints(f, D) == IsFiniteSet(D) /\ \A x \in D : f[x] \in Int

At(f, D, k) == IF k \in D THEN f[k] ELSE 0

\* g sums f over every subset of D; and whichever element is taken out first.
Additive(f, D, g) == \A S \in SUBSET D : g[S] \in Int /\ \A x \in S : g[S] = f[x] + g[S \ {x}]

Sums(f, D, g) == g = [S \in SUBSET D |-> Def(f, g, S)]

LEMMA SumExists ==
  ASSUME NEW f, NEW D, IsFiniteSet(D)
  PROVE  \E g : Sums(f, D, g)
<1> DEFINE L(n) == {S \in SUBSET D : Cardinality(S) <= n}
           T == {n \in Nat : \E g : g = [S \in L(n) |-> Def(f, g, S)]}
<1>0. \A S \in SUBSET D : IsFiniteSet(S) /\ Cardinality(S) \in Nat
  BY Zenon, FS_Subset, FS_CardinalityType
<1>1. 0 \in T
  <2>1. L(0) = {{}}
    BY <1>0, FS_EmptySet
  <2> DEFINE g == [S \in {{}} |-> 0]
  <2>2. g = [S \in L(0) |-> Def(f, g, S)]
    BY Zenon, <2>1 DEF Def
  <2> QED
    BY Zenon, <2>2
<1>2. ASSUME NEW n \in Nat, n \in T PROVE n+1 \in T
  <2>1. PICK g : g = [S \in L(n) |-> Def(f, g, S)]
    BY Zenon, <1>2
  <2> DEFINE h == [S \in L(n+1) |-> IF S \in L(n) THEN g[S] ELSE Def(f, g, S)]
  <2>2. ASSUME NEW S \in L(n+1) PROVE h[S] = Def(f, h, S)
    <3>1. h[S] = Def(f, g, S)
      BY Zenon, <2>1
    <3>2. CASE S = {}
      BY Zenon, <3>1, <3>2 DEF Def
    <3>3. CASE S # {}
      <4> DEFINE x == CHOOSE x \in S : TRUE
      <4>1. x \in S
        BY Zenon, <3>3
      <4> HIDE DEF x
      <4>2. Cardinality(S \ {x}) = Cardinality(S) - 1 /\ S \ {x} \in SUBSET D
        BY Zenon, <4>1, <1>0, FS_RemoveElement
      <4>3. S \ {x} \in L(n) /\ S \ {x} \in L(n+1)
        BY <4>2, <1>0
      <4>4. h[S \ {x}] = g[S \ {x}]
        BY Zenon, <4>3
      <4> HIDE DEF h
      <4> QED
        BY Zenon, <3>1, <4>4, <3>3 DEF Def, x
    <3> QED
      BY Zenon, <3>2, <3>3
  <2>3. h = [S \in L(n+1) |-> Def(f, h, S)]
    <3>1. h = [S \in L(n+1) |-> h[S]]
      BY Zenon
    <3> HIDE DEF h
    <3> QED
      BY Zenon, <2>2, <3>1
  <2> HIDE DEF h
  <2>4. n + 1 \in Nat
    OBVIOUS
  <2> QED
    BY Zenon, <2>3, <2>4
<1>3. Cardinality(D) \in T
  <2> HIDE DEF T
  <2> QED
    BY Zenon, <1>1, <1>2, NatSetInduction, <1>0
<1>4. L(Cardinality(D)) = SUBSET D
  BY Zenon, FS_Subset, <1>0
<1> QED
  BY Zenon, <1>3, <1>4 DEF Sums

LEMMA SumDef ==
  ASSUME NEW f, IsFiniteSet(DOMAIN f)
  PROVE  \E g : Sums(f, DOMAIN f, g) /\ SumOf(f) = g[DOMAIN f]
<1>1. PICK g : Sums(f, DOMAIN f, g)
  BY Zenon, SumExists
<1> DEFINE c == CHOOSE sum : sum = [S \in SUBSET DOMAIN f |-> 
        IF S = {} THEN 0
        ELSE f[CHOOSE x \in S : TRUE] + sum[S \ {CHOOSE x \in S : TRUE}]]
<1>2. Sums(f, DOMAIN f, c)
  BY Zenon, <1>1 DEF Sums, Def
<1>3. SumOf(f) = c[DOMAIN f]
  BY Zenon DEF SumOf
<1> QED
  BY Zenon, <1>2, <1>3

\* One element can be taken out first, whichever it is.
LEMMA SumRemove ==
    ASSUME NEW f, NEW D, Ints(f, D), NEW g, Sums(f, D, g)
    PROVE  Additive(f, D, g)
<1> DEFINE Ok(S) == g[S] \in Int /\ \A x \in S : g[S] = f[x] + g[S \ {x}]
           F == {S \in SUBSET D : ~Ok(S)}
<1> SUFFICES ASSUME F # {} PROVE FALSE
  BY Zenon DEF Additive
<1>0. IsFiniteSet(D) /\ \A x \in D : f[x] \in Int
  BY Zenon DEF Ints
<1>1. F \subseteq FiniteSubsetsOf(D)
  BY Zenon, <1>0, FS_FiniteSubsetsOfFinite
<1>2. PICK X \in F : \A Y \in F : ~(Y \subseteq X /\ Y # X)
  <2> HIDE DEF F
  <2> QED
    BY <1>1, SmallestSet
<1> DEFINE y == CHOOSE y \in X : TRUE
<1>3. g[X] = Def(f, g, X)
  BY Zenon DEF Sums
<1>4. X # {}
  BY <1>3 DEF Def
<1>5. y \in X
  BY Zenon, <1>4
<1>6. g[X] = f[y] + g[X \ {y}]
  BY Zenon, <1>3, <1>4 DEF Def
<1> HIDE DEF y
<1>7. \A Y \in SUBSET X : Y # X => Ok(Y)
  BY Zenon, <1>2
<1>8. g[X \ {y}] \in Int /\ f[y] \in Int /\ g[X] \in Int
  BY <1>0, <1>5, <1>6, <1>7
<1>9. ASSUME NEW x \in X PROVE g[X] = f[x] + g[X \ {x}]
  <2>1. CASE x = y
    BY Zenon, <1>6, <2>1
  <2>2. CASE x # y
    <3>1. Ok(X \ {x}) /\ Ok(X \ {y}) /\ Ok((X \ {x}) \ {y})
      BY Zenon, <1>5, <1>7
    <3>2. g[X \ {x}] = f[y] + g[(X \ {x}) \ {y}]
      BY Zenon, <3>1, <2>2, <1>5
    <3>3. g[X \ {y}] = f[x] + g[(X \ {y}) \ {x}]
      BY Zenon, <3>1, <2>2, <1>5
    <3>4. (X \ {x}) \ {y} = (X \ {y}) \ {x}
      BY Zenon
    <3>5. f[x] \in Int
      BY Zenon, <1>0
    <3>6. g[(X \ {x}) \ {y}] \in Int
      BY Zenon, <3>1
    <3>7. g[X \ {y}] = f[x] + g[(X \ {x}) \ {y}]
      BY Zenon, <3>3, <3>4
    <3> DEFINE rest == g[(X \ {x}) \ {y}]
    <3> HIDE DEF F, Ok, rest
    <3> QED
      BY <3>2, <3>5, <3>6, <3>7, <1>6, <1>8 DEF rest
  <2> QED
    BY Zenon, <2>1, <2>2
<1> QED
  BY Zenon, <1>8, <1>9

\* Two sums agree on a set where the summands do.
LEMMA SumSame ==
    ASSUME NEW f, NEW D, IsFiniteSet(D), NEW g, Sums(f, D, g),
           NEW h, NEW E, IsFiniteSet(E), NEW k, Sums(h, E, k),
           NEW R, R \subseteq D, R \subseteq E, \A x \in R : f[x] = h[x]
    PROVE  g[R] = k[R]
<1> DEFINE F == {S \in SUBSET R : g[S] # k[S]}
<1> SUFFICES ASSUME F # {} PROVE FALSE
  BY Zenon
<1>1. F \subseteq FiniteSubsetsOf(R)
  BY Zenon, FS_FiniteSubsetsOfFinite, FS_Subset
<1>2. PICK X \in F : \A Y \in F : ~(Y \subseteq X /\ Y # X)
  <2> HIDE DEF F
  <2> QED
    BY <1>1, SmallestSet
<1>3. g[X] = Def(f, g, X) /\ k[X] = Def(h, k, X)
  BY Zenon DEF Sums
<1>4. X # {}
  BY Zenon, <1>3 DEF Def
<1> DEFINE y == CHOOSE y \in X : TRUE
<1>5. y \in X
  BY Zenon, <1>4
<1>6. g[X] = f[y] + g[X \ {y}] /\ k[X] = h[y] + k[X \ {y}]
  BY Zenon, <1>3, <1>4 DEF Def
<1> HIDE DEF y
<1>7. g[X \ {y}] = k[X \ {y}]
  BY Zenon, <1>2, <1>5
<1> QED
  BY Zenon, <1>5, <1>6, <1>7

\* What f has at k and what g makes of the rest add up.
Splits(v, all, rest) == v \in Int /\ all \in Int /\ rest \in Int /\ all = rest + v

LEMMA SumWithout ==
    ASSUME NEW f, NEW D, Ints(f, D), NEW g, Sums(f, D, g), NEW k
    PROVE  Splits(At(f, D, k), g[D], g[D \ {k}])
<1>1. Additive(f, D, g)
  BY Zenon, SumRemove
<1>2. g[D] \in Int /\ g[D \ {k}] \in Int /\ (k \in D => g[D] = f[k] + g[D \ {k}])
  BY Zenon, <1>1 DEF Additive
<1>3. At(f, D, k) \in Int
  BY DEF At, Ints
<1>4. CASE k \in D
  BY <1>2, <1>3, <1>4 DEF At, Splits
<1>5. CASE k \notin D
  <2>1. D \ {k} = D
    BY Zenon, <1>5
  <2> QED
    BY <1>2, <1>3, <1>5, <2>1 DEF At, Splits
<1> QED
  BY Zenon, <1>4, <1>5

\* Changing one summand changes the sum by as much.
LEMMA SumChange ==
    ASSUME NEW f, Ints(f, DOMAIN f), NEW h, Ints(h, DOMAIN h),
           NEW k, DOMAIN h \ {k} = DOMAIN f \ {k}, \A x \in DOMAIN f \ {k} : h[x] = f[x]
    PROVE  /\ SumOf(f) \in Int /\ SumOf(h) \in Int /\ At(f, DOMAIN f, k) \in Int /\ At(h, DOMAIN h, k) \in Int
           /\ SumOf(h) = SumOf(f) - At(f, DOMAIN f, k) + At(h, DOMAIN h, k)
<1> DEFINE D == DOMAIN f
           E == DOMAIN h
           R == D \ {k}
<1>1. PICK g : Sums(f, D, g) /\ SumOf(f) = g[D]
  BY Zenon, SumDef DEF Ints
<1>2. PICK j : Sums(h, E, j) /\ SumOf(h) = j[E]
  BY Zenon, SumDef DEF Ints
<1>3. g[R] = j[R]
  BY <1>1, <1>2, SumSame DEF Ints
<1>4. Splits(At(f, D, k), g[D], g[R])
  BY Zenon, <1>1, SumWithout
<1>5. Splits(At(h, E, k), j[E], j[E \ {k}])
  BY Zenon, <1>2, SumWithout
<1>6. E \ {k} = R
  BY Zenon
<1>7. Splits(At(f, D, k), SumOf(f), g[R]) /\ Splits(At(h, E, k), SumOf(h), g[R])
  BY Zenon, <1>1, <1>2, <1>3, <1>4, <1>5, <1>6
<1> DEFINE v == At(f, D, k)
           w == At(h, E, k)
           rest == g[R]
           old == SumOf(f)
           new == SumOf(h)
<1> HIDE DEF v, w, rest, old, new
<1>8. old \in Int /\ new \in Int /\ v \in Int /\ w \in Int /\ new = old - v + w
  BY <1>7 DEF Splits, v, w, rest, old, new
<1> QED
  BY Zenon, <1>8 DEF v, w, old, new

LEMMA SumNat ==
    ASSUME NEW f, IsFiniteSet(DOMAIN f), \A x \in DOMAIN f : f[x] \in Nat
    PROVE  SumOf(f) \in Nat /\ \A x \in DOMAIN f : f[x] <= SumOf(f)
<1> DEFINE D == DOMAIN f
<1>1. PICK g : Sums(f, D, g) /\ SumOf(f) = g[D]
  BY Zenon, SumDef
<1>2. Additive(f, D, g)
  BY <1>1, SumRemove DEF Ints
<1>3. ASSUME NEW S \in SUBSET D, g[S] \notin Nat PROVE FALSE
  <2> DEFINE F == {X \in SUBSET D : g[X] \notin Nat}
  <2>1. F \subseteq FiniteSubsetsOf(D) /\ F # {}
    BY Zenon, <1>3, FS_FiniteSubsetsOfFinite
  <2>2. PICK X \in F : \A Y \in F : ~(Y \subseteq X /\ Y # X)
    <3> HIDE DEF F
    <3> QED
      BY <2>1, SmallestSet
  <2>3. g[X] = Def(f, g, X)
    BY Zenon, <1>1 DEF Sums
  <2>4. PICK x \in X : TRUE
    BY <2>3 DEF Def
  <2>5. g[X \ {x}] \in Nat
    BY Zenon, <2>2
  <2>6. g[X] = f[x] + g[X \ {x}] /\ f[x] \in Nat /\ g[X] \notin Nat
    BY Zenon, <1>2 DEF Additive
  <2> HIDE DEF F
  <2> QED
    BY <2>5, <2>6
<1>4. ASSUME NEW x \in D PROVE f[x] <= SumOf(f)
  <2>1. g[D] = f[x] + g[D \ {x}] /\ f[x] \in Nat
    BY Zenon, <1>2 DEF Additive
  <2>2. g[D \ {x}] \in Nat /\ g[D] \in Nat
    BY Zenon, <1>3
  <2> QED
    BY <1>1, <2>1, <2>2
<1> QED
  BY Zenon, <1>1, <1>3, <1>4

LEMMA SumEmpty ==
    ASSUME NEW f, DOMAIN f = {} PROVE SumOf(f) = 0
<1>1. PICK g : Sums(f, DOMAIN f, g) /\ SumOf(f) = g[DOMAIN f]
  BY Zenon, SumDef, FS_EmptySet
<1> QED
  BY Zenon, <1>1 DEF Sums, Def

-----------------------------------------------------------------------------
(* The ledger's native coin. *)

\* The types of the maps that hold, move or name an owner of native coin.
Typed(l) ==
  /\ Shape(l)
  /\ \A a \in DOMAIN l.accounts : a \in Account /\ l.accounts[a] \in AccountRecord /\ l.accounts[a] # NoAccount
  /\ \A id \in DOMAIN l.htlcs : l.htlcs[id].amount \in Nat
  /\ \A a \in DOMAIN l.vaults : l.vaults[a] \in VaultRecord
  /\ \A k \in DOMAIN l.nfts : l.nfts[k] \in NftRecord
  /\ \A id \in DOMAIN l.proposals :
       /\ DOMAIN l.proposals[id] = {"account", "act", "approvers"}
       /\ l.proposals[id].act \in Action /\ l.proposals[id].act.kind = "transfer"
  /\ l.cells.mined \in Nat /\ l.cells.value1 \in Nat /\ l.cells.value2 \in Nat

AccountSum(l) == SumOf([a \in DOMAIN l.accounts |-> Total(l.accounts[a])])

HtlcSum(l) == SumOf([id \in DOMAIN l.htlcs |-> l.htlcs[id].amount])

CollateralSum(l) == SumOf([a \in DOMAIN l.vaults |-> l.vaults[a].collateral])

\* The counters of coin in escrow and in vaults are the sums they cache.
Backed(l) == l.cells.escrow = HtlcSum(l) /\ l.cells.collateral = CollateralSum(l)

Native(l) == Typed(l) /\ Backed(l)

\* What Native is about, and what it leaves alone.
Frame(l, m) ==
  /\ m.accounts = l.accounts /\ m.htlcs = l.htlcs /\ m.vaults = l.vaults
  /\ m.nfts = l.nfts /\ m.proposals = l.proposals
  /\ m.cells.mined = l.cells.mined /\ m.cells.escrow = l.cells.escrow /\ m.cells.collateral = l.cells.collateral
  /\ m.cells.value1 = l.cells.value1 /\ m.cells.value2 = l.cells.value2

OtherMaps == MapNames \ {"accounts", "htlcs", "vaults", "nfts", "proposals"}

OtherCells == CellNames \ {"mined", "escrow", "collateral", "value1", "value2"}

\* st2 goes on from st and holds d more coin, and account s is the same in
\* both.
Moves(st, st2, s, d) ==
  /\ Native(st2.led) /\ Journals(st, st2)
  /\ TotalSupply(st2.led) = TotalSupply(st.led) + d /\ AccountOf(st2, s) = AccountOf(st, s)

LEMMA ShapePut ==
    ASSUME NEW st, Shape(st.led), NEW f \in MapNames, NEW k, NEW v
    PROVE  Shape(Put(st, f, k, v).led)
<1> DEFINE b == [led |-> st.led, undo |-> <<>>]
<1>1. Good(b, st.led)
  BY Zenon, UndoesNothing DEF Good
<1>2. Put(b, f, k, v).led = Put(st, f, k, v).led
  BY Zenon DEF Put
<1> HIDE DEF b
<1>3. Good(Put(b, f, k, v), st.led)
  BY Zenon, <1>1, PutGood
<1> QED
  BY Zenon, <1>2, <1>3 DEF Good

LEMMA ShapePutCell ==
    ASSUME NEW st, Shape(st.led), NEW c \in CellNames, NEW v
    PROVE  Shape(PutCell(st, c, v).led)
<1> DEFINE b == [led |-> st.led, undo |-> <<>>]
<1>1. Good(b, st.led)
  BY Zenon, UndoesNothing DEF Good
<1>2. PutCell(b, c, v).led = PutCell(st, c, v).led
  BY Zenon DEF PutCell
<1> HIDE DEF b
<1>3. Good(PutCell(b, c, v), st.led)
  BY Zenon, <1>1, PutCellGood
<1> QED
  BY Zenon, <1>2, <1>3 DEF Good

\* The supply and the parts it is made of.
Parts(l) ==
  /\ TotalSupply(l) \in Nat /\ AccountSum(l) \in Nat
  /\ l.cells.value1 \in Nat /\ l.cells.value2 \in Nat /\ l.cells.escrow \in Nat /\ l.cells.collateral \in Nat
  /\ TotalSupply(l) = AccountSum(l) + l.cells.value1 + l.cells.value2 + l.cells.escrow + l.cells.collateral

LEMMA SupplyType ==
    ASSUME NEW l, Native(l)
    PROVE  /\ Parts(l)
           /\ \A id \in DOMAIN l.htlcs : l.htlcs[id].amount <= l.cells.escrow
           /\ \A a \in DOMAIN l.vaults : l.vaults[a].collateral <= l.cells.collateral
<1> DEFINE f == [a \in DOMAIN l.accounts |-> Total(l.accounts[a])]
           g == [id \in DOMAIN l.htlcs |-> l.htlcs[id].amount]
           h == [a \in DOMAIN l.vaults |-> l.vaults[a].collateral]
<1>1. IsFiniteSet(DOMAIN l.accounts) /\ IsFiniteSet(DOMAIN l.htlcs) /\ IsFiniteSet(DOMAIN l.vaults)
  BY Zenon DEF Native, Typed, Shape, Tidy, MapNames
<1>2. SumOf(f) \in Nat
  BY <1>1, SumNat DEF Native, Typed, AccountRecord, Total
<1>3. SumOf(g) \in Nat /\ \A id \in DOMAIN g : g[id] <= SumOf(g)
  BY Zenon, <1>1, SumNat DEF Native, Typed
<1>4. SumOf(h) \in Nat /\ \A a \in DOMAIN h : h[a] <= SumOf(h)
  BY Zenon, <1>1, SumNat DEF Native, Typed, VaultRecord
<1> QED
  BY <1>2, <1>3, <1>4 DEF Native, Typed, Backed, TotalSupply, Parts, AccountSum, HtlcSum, CollateralSum

LEMMA Framed ==
    ASSUME NEW st, NEW st2, NEW s, Native(st.led), Journals(st, st2), Shape(st2.led), Frame(st.led, st2.led)
    PROVE  Moves(st, st2, s, 0)
<1>1. Native(st2.led)
  BY Zenon DEF Native, Typed, Backed, Frame, HtlcSum, CollateralSum
<1>2. TotalSupply(st2.led) = TotalSupply(st.led)
  BY Zenon DEF TotalSupply, Frame
<1>3. AccountOf(st2, s) = AccountOf(st, s)
  BY Zenon DEF Frame, AccountOf
<1>4. TotalSupply(st.led) \in Nat
  BY Zenon, SupplyType DEF Parts
<1> QED
  BY <1>1, <1>2, <1>3, <1>4 DEF Moves

LEMMA PutOther ==
    ASSUME NEW st, NEW s, Native(st.led), NEW f \in OtherMaps, NEW k, NEW v
    PROVE  Moves(st, Put(st, f, k, v), s, 0)
<1>1. Shape(Put(st, f, k, v).led)
  BY Zenon, ShapePut DEF Native, Typed, OtherMaps
<1>2. Frame(st.led, Put(st, f, k, v).led)
  BY Zenon DEF Native, Typed, Shape, OtherMaps, MapNames, Frame, Put
<1>3. Journals(st, Put(st, f, k, v))
  BY Zenon, JournalsPut DEF OtherMaps
<1> QED
  BY Zenon, <1>1, <1>2, <1>3, Framed

LEMMA PutCellOther ==
    ASSUME NEW st, NEW s, Native(st.led), NEW c \in OtherCells, NEW v
    PROVE  Moves(st, PutCell(st, c, v), s, 0)
<1>1. Shape(PutCell(st, c, v).led)
  BY Zenon, ShapePutCell DEF Native, Typed, OtherCells
<1>2. Frame(st.led, PutCell(st, c, v).led)
  BY Zenon DEF Native, Typed, Shape, OtherCells, MapNames, CellNames, Frame, PutCell
<1>3. Journals(st, PutCell(st, c, v))
  BY Zenon, JournalsPutCell DEF OtherCells
<1> QED
  BY Zenon, <1>1, <1>2, <1>3, Framed

LEMMA MovesTwice ==
    ASSUME NEW st, NEW st1, NEW st2, NEW s, NEW d \in Int, NEW e \in Int, Native(st.led),
           Moves(st, st1, s, d), Moves(st1, st2, s, e)
    PROVE  Moves(st, st2, s, d + e)
<1>1. TotalSupply(st.led) \in Int
  BY SupplyType DEF Parts
<1> QED
  BY <1>1 DEF Moves, Journals

LEMMA AccountWritten ==
    ASSUME NEW st, Native(st.led), NEW a \in Account, NEW acct \in AccountRecord
    PROVE  LET p == SetAccount(st, a, acct)
           IN /\ Native(p.led) /\ Journals(st, p) /\ AccountOf(p, a) = acct
              /\ Total(acct) \in Nat /\ Total(AccountOf(st, a)) \in Nat
              /\ TotalSupply(p.led) = TotalSupply(st.led) - Total(AccountOf(st, a)) + Total(acct)
              /\ \A b : b # a => AccountOf(p, b) = AccountOf(st, b)
<1> DEFINE m == st.led.accounts
           v == IF acct = NoAccount THEN Absent ELSE acct
           n == Set(m, a, v)
           p == SetAccount(st, a, acct)
           f == [x \in DOMAIN m |-> Total(m[x])]
           h == [x \in DOMAIN n |-> Total(n[x])]
<1>1. /\ Shape(p.led) /\ p.led.accounts = n
      /\ p.led.htlcs = st.led.htlcs /\ p.led.vaults = st.led.vaults /\ p.led.nfts = st.led.nfts
      /\ p.led.proposals = st.led.proposals /\ p.led.cells = st.led.cells
  <2>1. Shape(p.led)
    BY Zenon, ShapePut DEF Native, Typed, SetAccount, MapNames
  <2> QED
    BY Zenon, <2>1 DEF Native, Typed, Shape, MapNames, SetAccount, Put
<1>2. Tidy(m) /\ Tidy(n)
  BY Zenon, <1>1 DEF Native, Typed, Shape, MapNames
<1>3. acct # Absent /\ NoAccount \in AccountRecord /\ Total(NoAccount) = 0
  BY LedgerAssumption DEF NoAccount, AccountRecord, Total
<1>4. /\ acct = NoAccount => DOMAIN n = DOMAIN m \ {a}
      /\ acct # NoAccount => DOMAIN n = DOMAIN m \cup {a} /\ n[a] = acct
      /\ \A x \in DOMAIN m \ {a} : n[x] = m[x]
  <2>1. (acct = NoAccount => v = Absent) /\ (acct # NoAccount => v = acct /\ v # Absent)
    BY Zenon, <1>3
  <2> HIDE DEF v, m
  <2>2. Written(m, a, v, n)
    BY Zenon, <1>2, SetTidy
  <2> HIDE DEF n
  <2> QED
    BY Zenon, <2>1, <2>2 DEF Written
<1> HIDE DEF n
<1>5. /\ \A x \in DOMAIN m : x \in Account /\ m[x] \in AccountRecord /\ m[x] # NoAccount
      /\ \A x \in DOMAIN n : x \in Account /\ n[x] \in AccountRecord /\ n[x] # NoAccount
  BY Zenon, <1>4 DEF Native, Typed
<1>6. Native(p.led)
  BY Zenon, <1>1, <1>5 DEF Native, Typed, Backed, HtlcSum, CollateralSum
<1>7. AccountOf(p, a) = acct /\ \A b : b # a => AccountOf(p, b) = AccountOf(st, b)
  BY Zenon, <1>1, <1>4 DEF AccountOf, GetOr
<1>8. \A r \in AccountRecord : Total(r) \in Nat
  BY DEF Total, AccountRecord
<1>9. /\ Ints(f, DOMAIN f) /\ Ints(h, DOMAIN h) /\ DOMAIN h \ {a} = DOMAIN f \ {a}
      /\ \A x \in DOMAIN f \ {a} : h[x] = f[x]
  BY <1>2, <1>4, <1>5, <1>8 DEF Ints, Tidy
<1>10. AccountOf(st, a) \in AccountRecord
  BY Zenon, <1>3, <1>5 DEF AccountOf, GetOr
<1>11. At(f, DOMAIN f, a) = Total(AccountOf(st, a)) /\ At(h, DOMAIN h, a) = Total(acct)
  BY Zenon, <1>3, <1>4 DEF At, AccountOf, GetOr
<1> HIDE DEF f, h
<1>12. SumOf(f) \in Int /\ SumOf(h) \in Int /\ SumOf(h) = SumOf(f) - At(f, DOMAIN f, a) + At(h, DOMAIN h, a)
  BY Zenon, <1>9, SumChange
<1>13. AccountSum(st.led) = SumOf(f) /\ AccountSum(p.led) = SumOf(h)
  BY Zenon, <1>1 DEF AccountSum, f, h
<1>14. Parts(st.led) /\ Parts(p.led) /\ Total(acct) \in Nat /\ Total(AccountOf(st, a)) \in Nat
  BY Zenon, <1>6, <1>8, <1>10, SupplyType
<1>15. TotalSupply(p.led) = TotalSupply(st.led) - Total(AccountOf(st, a)) + Total(acct)
  <2> HIDE DEF p
  <2> QED
    BY SMTT(30), <1>1, <1>11, <1>12, <1>13, <1>14 DEF Parts
<1>16. Journals(st, p)
  BY Zenon, JournalsPut DEF SetAccount, MapNames
<1> QED
  BY Zenon, <1>6, <1>7, <1>14, <1>15, <1>16

\* Writing another account than s.
LEMMA SetAccountMoves ==
    ASSUME NEW st, Native(st.led), NEW a \in Account, NEW acct \in AccountRecord, NEW s, s # a
    PROVE  Moves(st, SetAccount(st, a, acct), s, Total(acct) - Total(AccountOf(st, a)))
<1> DEFINE p == SetAccount(st, a, acct)
<1>1. /\ Native(p.led) /\ Journals(st, p) /\ AccountOf(p, s) = AccountOf(st, s)
      /\ Total(acct) \in Nat /\ Total(AccountOf(st, a)) \in Nat
      /\ TotalSupply(p.led) = TotalSupply(st.led) - Total(AccountOf(st, a)) + Total(acct)
  BY AccountWritten
<1>2. TotalSupply(st.led) \in Nat
  BY Zenon, SupplyType DEF Parts
<1> HIDE DEF p
<1>3. TotalSupply(p.led) = TotalSupply(st.led) + (Total(acct) - Total(AccountOf(st, a)))
  BY <1>1, <1>2
<1> QED
  BY Zenon, <1>1, <1>3 DEF Moves, p

\* The two pool values and the emission counter.
LEMMA ValueMoves ==
    ASSUME NEW st, Native(st.led), NEW s, NEW c \in {"value1", "value2"}, NEW v \in Nat,
           NEW d \in Int, v = Cell(st, c) + d
    PROVE  Moves(st, PutCell(st, c, v), s, d)
<1> DEFINE p == PutCell(st, c, v)
           l == st.led
<1>1. Shape(p.led) /\ Journals(st, p)
  BY Zenon, ShapePutCell, JournalsPutCell DEF Native, Typed, CellNames
<1>2. /\ p.led.cells = [l.cells EXCEPT ![c] = v] /\ c \in DOMAIN l.cells /\ "cells" \in DOMAIN l
      /\ p.led.accounts = l.accounts /\ p.led.htlcs = l.htlcs /\ p.led.vaults = l.vaults
      /\ p.led.nfts = l.nfts /\ p.led.proposals = l.proposals
  BY Zenon DEF Native, Typed, Shape, CellNames, MapNames, PutCell
<1>3. /\ p.led.cells[c] = v /\ \A e \in DOMAIN l.cells \ {c} : p.led.cells[e] = l.cells[e]
      /\ {"mined", "escrow", "collateral", "value1", "value2"} \subseteq DOMAIN l.cells
  BY Zenon, <1>2 DEF Native, Typed, Shape, CellNames
<1> HIDE DEF p
<1>4. Native(p.led)
  BY Zenon, <1>1, <1>2, <1>3 DEF Native, Typed, Backed, HtlcSum, CollateralSum
<1>5. AccountSum(p.led) = AccountSum(l) /\ AccountOf(p, s) = AccountOf(st, s)
  BY Zenon, <1>2 DEF AccountSum, AccountOf
<1>6. TotalSupply(p.led) = TotalSupply(l) + d
  <2>1. Parts(l) /\ Parts(p.led)
    BY Zenon, <1>4, SupplyType
  <2>2. /\ v = l.cells[c] + d /\ p.led.cells[c] = v
        /\ p.led.cells["escrow"] = l.cells["escrow"] /\ p.led.cells["collateral"] = l.cells["collateral"]
        /\ c = "value1" => p.led.cells["value2"] = l.cells["value2"]
        /\ c = "value2" => p.led.cells["value1"] = l.cells["value1"]
    BY Zenon, <1>3 DEF Cell
  <2> HIDE DEF l
  <2>3. CASE c = "value1"
    BY SMTT(30), <1>5, <2>1, <2>2, <2>3 DEF Parts
  <2>4. CASE c = "value2"
    BY <1>5, <2>1, <2>2, <2>4 DEF Parts
  <2> QED
    BY Zenon, <2>3, <2>4
<1> QED
  BY Zenon, <1>1, <1>4, <1>5, <1>6 DEF Moves, p

LEMMA MinedMoves ==
    ASSUME NEW st, Native(st.led), NEW s, NEW v \in Nat
    PROVE  Moves(st, PutCell(st, "mined", v), s, 0) /\ PutCell(st, "mined", v).led.cells.mined = v
<1> DEFINE p == PutCell(st, "mined", v)
           l == st.led
<1>1. Shape(p.led) /\ Journals(st, p)
  BY Zenon, ShapePutCell, JournalsPutCell DEF Native, Typed, CellNames
<1>2. /\ p.led.accounts = l.accounts /\ p.led.htlcs = l.htlcs /\ p.led.vaults = l.vaults
      /\ p.led.nfts = l.nfts /\ p.led.proposals = l.proposals
      /\ p.led.cells.mined = v /\ p.led.cells.value1 = l.cells.value1 /\ p.led.cells.value2 = l.cells.value2
      /\ p.led.cells.escrow = l.cells.escrow /\ p.led.cells.collateral = l.cells.collateral
  BY Zenon DEF Native, Typed, Shape, CellNames, MapNames, PutCell
<1> HIDE DEF p
<1>3. Native(p.led) /\ TotalSupply(p.led) = TotalSupply(l) /\ AccountOf(p, s) = AccountOf(st, s)
  BY Zenon, <1>1, <1>2 DEF Native, Typed, Backed, HtlcSum, CollateralSum, TotalSupply, AccountOf
<1>4. TotalSupply(l) \in Nat
  BY Zenon, SupplyType DEF Parts
<1> QED
  BY <1>1, <1>2, <1>3, <1>4 DEF Moves, p

\* m is well shaped and differs from l in map f and counter c only.
Apart(l, m, f, c) ==
  /\ Shape(m)
  /\ \A g \in MapNames \ {f} : m[g] = l[g]
  /\ \A d \in CellNames \ {c} : m.cells[d] = l.cells[d]

\* m is l after a write of v to counter c and of w to entry k of map f.
Counted(l, m, f, c, v, k, w) == Apart(l, m, f, c) /\ m.cells[c] = v /\ Written(l[f], k, w, m[f])

LEMMA CountedWrite ==
    ASSUME NEW st, Native(st.led), NEW c \in CellNames, NEW v, NEW f \in MapNames, NEW k, NEW w
    PROVE  /\ Counted(st.led, Put(PutCell(st, c, v), f, k, w).led, f, c, v, k, w)
           /\ Journals(st, Put(PutCell(st, c, v), f, k, w))
<1> DEFINE q == PutCell(st, c, v)
<1>1. Shape(q.led) /\ Shape(st.led)
  BY Zenon, ShapePutCell DEF Native, Typed
<1>2. /\ q.led.cells[c] = v /\ \A d \in CellNames \ {c} : q.led.cells[d] = st.led.cells[d]
      /\ \A g \in MapNames : q.led[g] = st.led[g]
  BY Zenon, <1>1 DEF Shape, CellNames, MapNames, PutCell
<1> HIDE DEF q
<1>3. Shape(Put(q, f, k, w).led)
  BY Zenon, <1>1, ShapePut
<1>4. /\ Put(q, f, k, w).led[f] = Set(q.led[f], k, w) /\ Put(q, f, k, w).led.cells = q.led.cells
      /\ \A g \in MapNames \ {f} : Put(q, f, k, w).led[g] = q.led[g]
  BY Zenon, <1>1 DEF Shape, MapNames, Put
<1>5. Written(st.led[f], k, w, Set(st.led[f], k, w))
  BY Zenon, <1>1, SetTidy DEF Shape
<1>6. Counted(st.led, Put(q, f, k, w).led, f, c, v, k, w)
  BY Zenon, <1>2, <1>3, <1>4, <1>5 DEF Apart, Counted
<1>7. Journals(st, q) /\ Journals(q, Put(q, f, k, w))
  BY Zenon, JournalsPut, JournalsPutCell DEF q
<1> QED
  BY Zenon, <1>6, <1>7 DEF q, Journals

\* A ledger that differs in its escrows only, or in its vaults only.
LEMMA EscrowMoves ==
    ASSUME NEW st, Native(st.led), NEW st2, NEW s, NEW d \in Int, Journals(st, st2), Apart(st.led, st2.led, "htlcs", "escrow"),
           \A id \in DOMAIN st2.led.htlcs : st2.led.htlcs[id].amount \in Nat,
           st2.led.cells.escrow = st.led.cells.escrow + d,
           st2.led.cells.escrow = HtlcSum(st2.led)
    PROVE  Moves(st, st2, s, d)
<1> DEFINE l == st.led
           m == st2.led
<1>1. /\ m.accounts = l.accounts /\ m.vaults = l.vaults /\ m.nfts = l.nfts /\ m.proposals = l.proposals
      /\ m.cells.mined = l.cells.mined /\ m.cells.value1 = l.cells.value1 /\ m.cells.value2 = l.cells.value2
      /\ m.cells.collateral = l.cells.collateral
  BY Zenon DEF Apart, MapNames, CellNames
<1>2. Native(m) /\ AccountSum(m) = AccountSum(l) /\ AccountOf(st2, s) = AccountOf(st, s)
  BY Zenon, <1>1 DEF Native, Typed, Backed, Apart, CollateralSum, AccountSum, AccountOf
<1>3. Parts(l) /\ Parts(m)
  BY Zenon, <1>2, SupplyType
<1>4. TotalSupply(m) = TotalSupply(l) + d
  BY SMTT(30), <1>1, <1>2, <1>3 DEF Parts
<1> QED
  BY Zenon, <1>2, <1>4 DEF Moves

LEMMA VaultMoves ==
    ASSUME NEW st, Native(st.led), NEW st2, NEW s, NEW d \in Int, Journals(st, st2), Apart(st.led, st2.led, "vaults", "collateral"),
           \A a \in DOMAIN st2.led.vaults : st2.led.vaults[a] \in VaultRecord,
           st2.led.cells.collateral = st.led.cells.collateral + d,
           st2.led.cells.collateral = CollateralSum(st2.led)
    PROVE  Moves(st, st2, s, d)
<1> DEFINE l == st.led
           m == st2.led
<1>1. /\ m.accounts = l.accounts /\ m.htlcs = l.htlcs /\ m.nfts = l.nfts /\ m.proposals = l.proposals
      /\ m.cells.mined = l.cells.mined /\ m.cells.value1 = l.cells.value1 /\ m.cells.value2 = l.cells.value2
      /\ m.cells.escrow = l.cells.escrow
  BY Zenon DEF Apart, MapNames, CellNames
<1>2. Native(m) /\ AccountSum(m) = AccountSum(l) /\ AccountOf(st2, s) = AccountOf(st, s)
  BY Zenon, <1>1 DEF Native, Typed, Backed, Apart, HtlcSum, AccountSum, AccountOf
<1>3. Parts(l) /\ Parts(m)
  BY Zenon, <1>2, SupplyType
<1>4. TotalSupply(m) = TotalSupply(l) + d
  BY <1>1, <1>2, <1>3 DEF Parts
<1> QED
  BY Zenon, <1>2, <1>4 DEF Moves

LEMMA LockMoves ==
    ASSUME NEW st, Native(st.led), NEW s, NEW id, id \notin DOMAIN st.led.htlcs,
           NEW t, t # Absent, t.amount \in Nat
    PROVE  Moves(st, LockHtlc(st, id, t), s, t.amount)
<1> DEFINE n == Cell(st, "escrow") + t.amount
           p == Put(PutCell(st, "escrow", n), "htlcs", id, t)
           m == st.led.htlcs
           f == [x \in DOMAIN m |-> m[x].amount]
           h == [x \in DOMAIN p.led.htlcs |-> p.led.htlcs[x].amount]
<1>1. Journals(st, p) /\ Apart(st.led, p.led, "htlcs", "escrow") /\ p.led.cells.escrow = n /\ Written(m, id, t, p.led.htlcs)
  <2>1. "escrow" \in CellNames /\ "htlcs" \in MapNames
    BY Zenon DEF CellNames, MapNames
  <2> HIDE DEF n
  <2>2. Journals(st, p) /\ Counted(st.led, p.led, "htlcs", "escrow", n, id, t)
    BY Zenon, <2>1, CountedWrite
  <2> QED
    BY Zenon, <2>2 DEF Counted
<1> HIDE DEF p
<1>2. /\ DOMAIN p.led.htlcs = DOMAIN m \cup {id} /\ p.led.htlcs[id] = t
      /\ \A x \in DOMAIN m : p.led.htlcs[x] = m[x] /\ x # id
  BY Zenon, <1>1 DEF Written
<1>3. \A x \in DOMAIN p.led.htlcs : p.led.htlcs[x].amount \in Nat
  BY Zenon, <1>2 DEF Native, Typed
<1>4. /\ Ints(f, DOMAIN f) /\ Ints(h, DOMAIN h) /\ DOMAIN h \ {id} = DOMAIN f \ {id}
      /\ \A x \in DOMAIN f \ {id} : h[x] = f[x]
  <2>1. IsFiniteSet(DOMAIN m) /\ IsFiniteSet(DOMAIN p.led.htlcs)
    BY Zenon, <1>1 DEF Apart, Native, Typed, Shape, MapNames, Tidy
  <2> QED
    BY SMTT(30), <1>2, <1>3, <2>1 DEF Ints
<1>5. At(f, DOMAIN f, id) = 0 /\ At(h, DOMAIN h, id) = t.amount
  BY Zenon, <1>2 DEF At
<1>6. SumOf(f) = st.led.cells.escrow /\ st.led.cells.escrow \in Nat
  BY Zenon, SupplyType DEF Native, Backed, HtlcSum, Parts
<1> HIDE DEF f, h
<1>7. SumOf(h) = SumOf(f) - At(f, DOMAIN f, id) + At(h, DOMAIN h, id)
  BY Zenon, <1>4, SumChange
<1>8. HtlcSum(p.led) = n
  BY <1>5, <1>6, <1>7 DEF Cell, HtlcSum, h
<1>9. Moves(st, p, s, t.amount)
  BY SMTT(30), <1>1, <1>3, <1>8, EscrowMoves DEF Cell
<1> QED
  BY Zenon, <1>9 DEF LockHtlc, p

LEMMA SettleMoves ==
    ASSUME NEW st, Native(st.led), NEW s, NEW id \in DOMAIN st.led.htlcs
    PROVE  Moves(st, SettleHtlc(st, id), s, -st.led.htlcs[id].amount) /\ st.led.htlcs[id].amount \in Nat
<1> DEFINE m == st.led.htlcs
           left == Cell(st, "escrow") - m[id].amount
           p == Put(PutCell(st, "escrow", left), "htlcs", id, Absent)
           f == [x \in DOMAIN m |-> m[x].amount]
           h == [x \in DOMAIN p.led.htlcs |-> p.led.htlcs[x].amount]
<1>0. m[id].amount \in Nat /\ st.led.cells.escrow \in Nat /\ m[id].amount <= st.led.cells.escrow
  BY Zenon, SupplyType DEF Native, Typed, Parts
<1>1. Journals(st, p) /\ Apart(st.led, p.led, "htlcs", "escrow") /\ p.led.cells.escrow = left /\ Written(m, id, Absent, p.led.htlcs)
  <2>1. "escrow" \in CellNames /\ "htlcs" \in MapNames
    BY Zenon DEF CellNames, MapNames
  <2> HIDE DEF left
  <2>2. Journals(st, p) /\ Counted(st.led, p.led, "htlcs", "escrow", left, id, Absent)
    BY Zenon, <2>1, CountedWrite
  <2> QED
    BY Zenon, <2>2 DEF Counted
<1>2. SettleHtlc(st, id) = p
  BY <1>0 DEF SettleHtlc, Cell
<1> HIDE DEF p
<1>3. DOMAIN p.led.htlcs = DOMAIN m \ {id} /\ \A x \in DOMAIN m \ {id} : p.led.htlcs[x] = m[x]
  BY Zenon, <1>1 DEF Written
<1>4. \A x \in DOMAIN p.led.htlcs : p.led.htlcs[x].amount \in Nat
  BY Zenon, <1>3 DEF Native, Typed
<1>5. /\ Ints(f, DOMAIN f) /\ Ints(h, DOMAIN h) /\ DOMAIN h \ {id} = DOMAIN f \ {id}
      /\ \A x \in DOMAIN f \ {id} : h[x] = f[x]
  <2>1. IsFiniteSet(DOMAIN m) /\ IsFiniteSet(DOMAIN p.led.htlcs)
    BY Zenon, <1>1 DEF Apart, Native, Typed, Shape, MapNames, Tidy
  <2> QED
    BY <1>0, <1>3, <1>4, <2>1 DEF Ints
<1>6. At(f, DOMAIN f, id) = m[id].amount /\ At(h, DOMAIN h, id) = 0 /\ SumOf(f) = st.led.cells.escrow
  BY Zenon, <1>3 DEF At, Native, Backed, HtlcSum
<1> HIDE DEF f, h
<1>7. SumOf(h) = SumOf(f) - At(f, DOMAIN f, id) + At(h, DOMAIN h, id)
  BY Zenon, <1>5, SumChange
<1>8. HtlcSum(p.led) = left /\ left = st.led.cells.escrow + (-m[id].amount) /\ -m[id].amount \in Int
  BY <1>0, <1>6, <1>7 DEF Cell, HtlcSum, h
<1> HIDE DEF left
<1>9. Moves(st, p, s, -m[id].amount)
  BY Zenon, <1>1, <1>4, <1>8, EscrowMoves
<1> QED
  BY Zenon, <1>0, <1>2, <1>9

LEMMA SetVaultMoves ==
    ASSUME NEW st, Native(st.led), NEW s, NEW a, NEW v \in VaultRecord
    PROVE  /\ Moves(st, SetVault(st, a, v), s, v.collateral - VaultOf(st, a).collateral)
           /\ VaultOf(st, a) \in VaultRecord
<1> DEFINE m == st.led.vaults
           old == VaultOf(st, a)
           n == Cell(st, "collateral") - old.collateral + v.collateral
           w == IF v = NoVault THEN Absent ELSE v
           p == Put(PutCell(st, "collateral", n), "vaults", a, w)
           f == [x \in DOMAIN m |-> m[x].collateral]
           h == [x \in DOMAIN p.led.vaults |-> p.led.vaults[x].collateral]
<1>0. old \in VaultRecord /\ old.collateral \in Nat /\ v.collateral \in Nat /\ v # Absent
  BY Zenon, LedgerAssumption DEF Native, Typed, VaultOf, GetOr, NoVault, VaultRecord
<1>1. Journals(st, p) /\ Apart(st.led, p.led, "vaults", "collateral") /\ p.led.cells.collateral = n /\ Written(m, a, w, p.led.vaults)
  <2>1. "collateral" \in CellNames /\ "vaults" \in MapNames
    BY Zenon DEF CellNames, MapNames
  <2> HIDE DEF n, w
  <2>2. Journals(st, p) /\ Counted(st.led, p.led, "vaults", "collateral", n, a, w)
    BY Zenon, <2>1, CountedWrite
  <2> QED
    BY Zenon, <2>2 DEF Counted
<1>2. SetVault(st, a, v) = p
  BY Zenon DEF SetVault
<1> HIDE DEF p
<1>3. /\ v = NoVault => DOMAIN p.led.vaults = DOMAIN m \ {a}
      /\ v # NoVault => DOMAIN p.led.vaults = DOMAIN m \cup {a} /\ p.led.vaults[a] = v
      /\ \A x \in DOMAIN m \ {a} : p.led.vaults[x] = m[x]
  BY Zenon, <1>0, <1>1 DEF Written
<1>4. \A x \in DOMAIN p.led.vaults : p.led.vaults[x] \in VaultRecord
  BY Zenon, <1>3 DEF Native, Typed
<1>5. /\ Ints(f, DOMAIN f) /\ Ints(h, DOMAIN h) /\ DOMAIN h \ {a} = DOMAIN f \ {a}
      /\ \A x \in DOMAIN f \ {a} : h[x] = f[x]
  <2>1. IsFiniteSet(DOMAIN m) /\ IsFiniteSet(DOMAIN p.led.vaults)
    BY Zenon, <1>1 DEF Apart, Native, Typed, Shape, MapNames, Tidy
  <2>2. /\ \A x \in DOMAIN m : m[x].collateral \in Nat
        /\ \A x \in DOMAIN p.led.vaults : p.led.vaults[x].collateral \in Nat
    BY Zenon, <1>4 DEF Native, Typed, VaultRecord
  <2> QED
    BY SMTT(30), <1>3, <2>1, <2>2 DEF Ints
<1>6. At(f, DOMAIN f, a) = old.collateral /\ At(h, DOMAIN h, a) = v.collateral /\ SumOf(f) = st.led.cells.collateral
  BY SMTT(30), <1>3 DEF At, Native, Backed, CollateralSum, VaultOf, GetOr, NoVault
<1> HIDE DEF f, h
<1>7. SumOf(h) = SumOf(f) - At(f, DOMAIN f, a) + At(h, DOMAIN h, a) /\ st.led.cells.collateral \in Nat
  BY Zenon, <1>5, SumChange, SupplyType DEF Parts
<1> DEFINE d == v.collateral - old.collateral
<1>8. CollateralSum(p.led) = n /\ n = st.led.cells.collateral + d /\ d \in Int
  BY SMTT(30), <1>0, <1>6, <1>7 DEF Cell, CollateralSum, h
<1> HIDE DEF n, d
<1>9. Moves(st, p, s, d)
  BY Zenon, <1>1, <1>4, <1>8, VaultMoves
<1> QED
  BY Zenon, <1>0, <1>2, <1>9 DEF d

LEMMA NftMoves ==
    ASSUME NEW st, Native(st.led), NEW s, NEW k, NEW v \in NftRecord
    PROVE  Moves(st, Put(st, "nfts", k, v), s, 0)
<1> DEFINE l == st.led
           p == Put(st, "nfts", k, v)
<1>0. Journals(st, p)
  BY Zenon, JournalsPut DEF MapNames
<1>1. Shape(l) /\ Shape(p.led) /\ Tidy(l.nfts) /\ v # Absent
  <2>1. Shape(l) /\ "nfts" \in MapNames /\ v # Absent
    BY Zenon, LedgerAssumption DEF Native, Typed, MapNames
  <2>2. Shape(p.led)
    BY Zenon, <2>1, ShapePut
  <2> QED
    BY Zenon, <2>1, <2>2 DEF Shape
<1>2. /\ p.led.nfts = Set(l.nfts, k, v)
      /\ p.led.accounts = l.accounts /\ p.led.htlcs = l.htlcs /\ p.led.vaults = l.vaults
      /\ p.led.proposals = l.proposals /\ p.led.cells = l.cells
  BY Zenon, <1>1 DEF Shape, MapNames, Put
<1> HIDE DEF p
<1>3. Written(l.nfts, k, v, p.led.nfts)
  BY Zenon, <1>1, <1>2, SetTidy
<1>4. \A x \in DOMAIN p.led.nfts : p.led.nfts[x] \in NftRecord
  BY Zenon, <1>1, <1>3 DEF Written, Native, Typed
<1>5. Native(p.led) /\ TotalSupply(p.led) = TotalSupply(l) /\ AccountOf(p, s) = AccountOf(st, s)
  BY Zenon, <1>1, <1>2, <1>4 DEF Native, Typed, Backed, HtlcSum, CollateralSum, TotalSupply, AccountOf
<1>6. TotalSupply(l) \in Nat
  BY Zenon, SupplyType DEF Parts
<1> QED
  BY <1>0, <1>5, <1>6 DEF Moves, p

\* A stored proposal carries a transfer.
StoredProposal(v) ==
  DOMAIN v = {"account", "act", "approvers"} /\ v.act \in Action /\ v.act.kind = "transfer"

\* A ledger that differs in its proposals only.
LEMMA ProposalsDiffer ==
    ASSUME NEW st, Native(st.led), NEW s, NEW st2, Journals(st, st2), Shape(st2.led),
           \A g \in MapNames \ {"proposals"} : st2.led[g] = st.led[g],
           st2.led.cells = st.led.cells,
           \A x \in DOMAIN st2.led.proposals : StoredProposal(st2.led.proposals[x])
    PROVE  Moves(st, st2, s, 0)
<1>1. /\ st2.led.accounts = st.led.accounts /\ st2.led.htlcs = st.led.htlcs
      /\ st2.led.vaults = st.led.vaults /\ st2.led.nfts = st.led.nfts
  BY Zenon DEF MapNames
<1>2. Native(st2.led) /\ TotalSupply(st2.led) = TotalSupply(st.led) /\ AccountOf(st2, s) = AccountOf(st, s)
  BY Zenon, <1>1 DEF Native, Typed, Backed, HtlcSum, CollateralSum, TotalSupply, AccountOf, StoredProposal
<1>3. TotalSupply(st.led) \in Nat
  BY Zenon, SupplyType DEF Parts
<1> QED
  BY <1>2, <1>3 DEF Moves

LEMMA ProposalMoves ==
    ASSUME NEW st, Native(st.led), NEW s, NEW k, NEW v, v = Absent \/ StoredProposal(v)
    PROVE  Moves(st, Put(st, "proposals", k, v), s, 0)
<1> DEFINE l == st.led
           p == Put(st, "proposals", k, v)
<1>0. Journals(st, p)
  BY Zenon, JournalsPut DEF MapNames
<1>1. Shape(l) /\ Shape(p.led) /\ Tidy(l.proposals)
  <2>1. Shape(l) /\ "proposals" \in MapNames
    BY Zenon DEF Native, Typed, MapNames
  <2>2. Shape(p.led)
    BY Zenon, <2>1, ShapePut
  <2> QED
    BY Zenon, <2>1, <2>2 DEF Shape
<1>2. /\ p.led.proposals = Set(l.proposals, k, v) /\ p.led.cells = l.cells
      /\ \A g \in MapNames \ {"proposals"} : p.led[g] = l[g]
  BY Zenon, <1>1 DEF Shape, MapNames, Put
<1> HIDE DEF p
<1>3. Written(l.proposals, k, v, p.led.proposals)
  BY Zenon, <1>1, <1>2, SetTidy
<1>4. \A x \in DOMAIN l.proposals : StoredProposal(l.proposals[x])
  BY Zenon DEF Native, Typed, StoredProposal
<1>5. \A x \in DOMAIN p.led.proposals : StoredProposal(p.led.proposals[x])
  BY Zenon, <1>3, <1>4 DEF Written
<1> QED
  BY Zenon, <1>0, <1>1, <1>2, <1>5, ProposalsDiffer DEF p

\* A batch of writes to one map.
Batch(l, m, f, w) ==
  /\ Shape(m) /\ m[f] = SetAll(l[f], w) /\ m.cells = l.cells
  /\ \A g \in MapNames \ {f} : m[g] = l[g]

LEMMA BatchShape ==
    ASSUME NEW st, Shape(st.led), NEW f \in MapNames, NEW w, IsMap(w), IsFiniteSet(DOMAIN w)
    PROVE  Batch(st.led, PutAll(st, f, w).led, f, w)
<1> DEFINE b == [led |-> st.led, undo |-> <<>>]
<1>1. Good(b, st.led)
  BY Zenon, UndoesNothing DEF Good
<1>2. PutAll(b, f, w).led = PutAll(st, f, w).led
  BY Zenon DEF PutAll
<1> HIDE DEF b
<1>3. Good(PutAll(b, f, w), st.led)
  BY Zenon, <1>1, PutAllGood
<1> QED
  BY Zenon, <1>2, <1>3 DEF Good, PutAll, Shape, MapNames, Batch

LEMMA BatchMoves ==
    ASSUME NEW st, Native(st.led), NEW s, NEW f \in {"windows", "storage"}, NEW w, IsMap(w), IsFiniteSet(DOMAIN w)
    PROVE  Moves(st, PutAll(st, f, w), s, 0)
<1> DEFINE p == PutAll(st, f, w)
<1>1. Batch(st.led, p.led, f, w) /\ Journals(st, p)
  BY Zenon, BatchShape, JournalsPutAll DEF Native, Typed, MapNames
<1> HIDE DEF p
<1>2. Frame(st.led, p.led) /\ Shape(p.led)
  BY Zenon, <1>1 DEF Frame, MapNames, Batch
<1> QED
  BY Zenon, <1>1, <1>2, Framed DEF p

LEMMA RemoveMoves ==
    ASSUME NEW st, Native(st.led), NEW s, NEW a
    PROVE  Moves(st, RemoveProposalsFor(st, a), s, 0)
<1> DEFINE l == st.led
           stale == {id \in DOMAIN l.proposals : l.proposals[id].account = a}
           w == [id \in stale |-> Absent]
           p == PutAll(st, "proposals", w)
<1>1. IsMap(w) /\ IsFiniteSet(DOMAIN w) /\ \A x \in DOMAIN w : w[x] = Absent
  <2>1. IsFiniteSet(DOMAIN l.proposals)
    BY Zenon DEF Native, Typed, Shape, Tidy, MapNames
  <2>2. IsFiniteSet(stale)
    BY Zenon, <2>1, FS_Subset
  <2> QED
    BY Zenon, <2>2 DEF IsMap
<1>2. RemoveProposalsFor(st, a) = p
  BY Zenon DEF RemoveProposalsFor
<1> HIDE DEF w
<1>3. Batch(l, p.led, "proposals", w) /\ Journals(st, p)
  BY Zenon, <1>1, BatchShape, JournalsPutAll DEF Native, Typed, MapNames
<1> HIDE DEF p
<1>4. \A x \in DOMAIN p.led.proposals : x \in DOMAIN l.proposals /\ p.led.proposals[x] = l.proposals[x]
  BY Zenon, <1>1, <1>3 DEF SetAll, Batch
<1>5. \A x \in DOMAIN p.led.proposals : StoredProposal(p.led.proposals[x])
  BY Zenon, <1>4 DEF Native, Typed, StoredProposal
<1> QED
  BY Zenon, <1>2, <1>3, <1>5, ProposalsDiffer DEF Batch

LEMMA Unmoved ==
    ASSUME NEW st, Native(st.led), NEW s
    PROVE  Moves(st, st, s, 0)
BY SupplyType DEF Moves, Parts, Journals

LEMMA AccountType ==
    ASSUME NEW st, Native(st.led), NEW a
    PROVE  AccountOf(st, a) \in AccountRecord
BY Zenon DEF Native, Typed, AccountOf, GetOr, NoAccount, AccountRecord

\* What a credit of n to account a leaves.
Credited(st, p, a, n) ==
  /\ Native(p.led) /\ Journals(st, p) /\ TotalSupply(p.led) = TotalSupply(st.led) + n
  /\ \A b : b # a => AccountOf(p, b) = AccountOf(st, b)
  /\ AccountOf(p, a) = [AccountOf(st, a) EXCEPT !.bal = @ + n]

LEMMA CreditAdds ==
    ASSUME NEW st, Native(st.led), NEW a \in Account, NEW n \in Int, AccountOf(st, a).bal + n >= 0
    PROVE  Credited(st, SetAccount(st, a, [AccountOf(st, a) EXCEPT !.bal = @ + n]), a, n)
<1> DEFINE old == AccountOf(st, a)
           new == [old EXCEPT !.bal = @ + n]
           p == SetAccount(st, a, new)
<1>1. old \in AccountRecord
  BY Zenon, AccountType
<1>2. new \in AccountRecord /\ Total(new) = Total(old) + n
  BY <1>1 DEF AccountRecord, Total
<1> HIDE DEF new
<1>3. /\ Native(p.led) /\ Journals(st, p) /\ AccountOf(p, a) = new
      /\ Total(new) \in Nat /\ Total(old) \in Nat
      /\ TotalSupply(p.led) = TotalSupply(st.led) - Total(old) + Total(new)
      /\ \A b : b # a => AccountOf(p, b) = AccountOf(st, b)
  BY Zenon, <1>2, AccountWritten
<1>4. TotalSupply(st.led) \in Nat
  BY Zenon, SupplyType DEF Parts
<1> HIDE DEF p
<1>5. TotalSupply(p.led) = TotalSupply(st.led) + n
  BY <1>2, <1>3, <1>4
<1> QED
  BY Zenon, <1>3, <1>5 DEF Credited, p, new

\* Writes that move no native coin, one after the other.
LEMMA StillTwice ==
    ASSUME NEW st, NEW st1, NEW st2, NEW s, Moves(st, st1, s, 0), Moves(st1, st2, s, 0)
    PROVE  Moves(st, st2, s, 0)
<1>1. TotalSupply(st1.led) \in Nat
  BY Zenon, SupplyType DEF Moves, Parts
<1> QED
  BY <1>1 DEF Moves, Journals

LEMMA MovesOn ==
    ASSUME NEW st, NEW st1, NEW st2, NEW s, NEW d, Moves(st, st1, s, d), Moves(st1, st2, s, 0)
    PROVE  Moves(st, st2, s, d)
<1>1. TotalSupply(st1.led) \in Nat
  BY Zenon, SupplyType DEF Moves, Parts
<1> QED
  BY <1>1 DEF Moves, Journals

LEMMA NotesStill ==
    ASSUME NEW st, Native(st.led), NEW s, NEW spent, NEW outs, NEW pool \in {"pool1", "pool2"}
    PROVE  LET p == ApplyNotes(st, pool, spent, outs)
           IN Moves(st, p, s, 0) /\ Cell(p, "value1") = Cell(st, "value1") /\ Cell(p, "value2") = Cell(st, "value2")
<1>1. \A v : Moves(st, PutCell(st, pool, v), s, 0)
  BY Zenon, PutCellOther DEF OtherCells, CellNames
<1>2. \A v : /\ Cell(PutCell(st, pool, v), "value1") = Cell(st, "value1")
             /\ Cell(PutCell(st, pool, v), "value2") = Cell(st, "value2")
  BY Zenon DEF Cell, PutCell, Native, Typed, Shape, CellNames
<1> QED
  BY Zenon, <1>1, <1>2 DEF ApplyNotes

LEMMA OwnedNft ==
    ASSUME NEW st, Native(st.led), NEW class, NEW id, NftOwner(st, class, id) \in Account
    PROVE  st.led.nfts[<<class, id>>] \in NftRecord
BY Zenon, LedgerAssumption DEF Native, Typed, NftOwner

LEMMA VaultType ==
    ASSUME NEW st, Native(st.led), NEW a
    PROVE  /\ VaultOf(st, a) \in VaultRecord /\ VaultOf(st, a).collateral \in Nat /\ VaultOf(st, a).debt \in Nat
           /\ \A n \in Nat : /\ [VaultOf(st, a) EXCEPT !.collateral = n] \in VaultRecord
                             /\ [VaultOf(st, a) EXCEPT !.debt = n] \in VaultRecord
<1>1. [collateral |-> 0, debt |-> 0] \in VaultRecord
  BY Zenon DEF VaultRecord
<1>2. VaultOf(st, a) \in VaultRecord
  BY Zenon, <1>1, SetVaultMoves
<1> HIDE DEF VaultOf
<1> QED
  BY Zenon, <1>2 DEF VaultRecord

-----------------------------------------------------------------------------
(* An execution in progress moves coin, and creates or destroys none. *)

\* An execution in progress.
Running(x) ==
  /\ DOMAIN x = {"st", "s", "fee", "tip", "res"}
  /\ Native(x.st.led) /\ x.s \in AccountRecord /\ x.fee \in Nat /\ x.tip \in Nat

\* The coin in the ledger, on the copy and owed to the miner.
Wealth(x) == TotalSupply(x.st.led) + Total(x.s) + x.fee + x.tip

\* y goes on from x with its writes journaled, has spent e, and the ledger's
\* entry of s is as it was.
Keeps(x, y, s, e) ==
  /\ Running(y) /\ Journals(x.st, y.st)
  /\ AccountOf(y.st, s) = AccountOf(x.st, s) /\ Wealth(y) + e = Wealth(x)

LEMMA WealthType ==
    ASSUME NEW x, Running(x)
    PROVE  TotalSupply(x.st.led) \in Nat /\ Total(x.s) \in Nat /\ Wealth(x) \in Nat
<1>1. TotalSupply(x.st.led) \in Nat
  BY Zenon, SupplyType DEF Running, Parts
<1> QED
  BY <1>1 DEF Running, Wealth, Total, AccountRecord

\* What the ledger gained, the copy and the miner lost, but for e.
Even(x, y, d, e) == d + Total(y.s) + y.fee + y.tip + e = Total(x.s) + x.fee + x.tip

LEMMA Balanced ==
    ASSUME NEW x, Running(x), NEW y, NEW s, NEW d \in Int, NEW e \in Int,
           DOMAIN y = {"st", "s", "fee", "tip", "res"}, y.s \in AccountRecord, y.fee \in Nat, y.tip \in Nat,
           Moves(x.st, y.st, s, d), Even(x, y, d, e)
    PROVE  Keeps(x, y, s, e)
<1>1. Running(y)
  BY Zenon DEF Running, Moves
<1>2. /\ TotalSupply(x.st.led) \in Nat /\ Total(x.s) \in Nat
      /\ TotalSupply(y.st.led) \in Nat /\ Total(y.s) \in Nat
  BY Zenon, <1>1, WealthType
<1>3. Wealth(y) + e = Wealth(x)
  BY SMTT(30), <1>2 DEF Wealth, Moves, Running, Even
<1> QED
  BY Zenon, <1>1, <1>3 DEF Keeps, Moves

\* A handler that takes n from the copy, or gives n to it, and moves as much
\* into or out of the rest of the ledger.
LEMMA Paid ==
    ASSUME NEW x, Running(x), NEW s, NEW n \in Nat, x.s.bal >= n, NEW st, Moves(x.st, st, s, n)
    PROVE  Keeps(x, [Pay(x, n) EXCEPT !.st = st], s, 0)
<1> DEFINE y == [Pay(x, n) EXCEPT !.st = st]
<1>1. /\ DOMAIN y = {"st", "s", "fee", "tip", "res"} /\ y.st = st /\ y.fee = x.fee /\ y.tip = x.tip
      /\ y.s = [x.s EXCEPT !.bal = @ - n]
  BY Zenon DEF Running, Pay
<1> HIDE DEF y
<1>2. y.s \in AccountRecord /\ Total(y.s) = Total(x.s) - n /\ Total(x.s) \in Nat
  BY <1>1 DEF Running, AccountRecord, Total
<1>3. Even(x, y, n, 0)
  BY <1>1, <1>2 DEF Running, Even
<1>4. Keeps(x, y, s, 0)
  BY <1>1, <1>2, <1>3, Balanced DEF Running
<1> QED
  BY Zenon, <1>4 DEF y

Affords(x, n) == x.s.bal + n \in Nat

Offsets(d, n, e) == d + n + e = 0

LEMMA Earned ==
    ASSUME NEW x, Running(x), NEW s, NEW n \in Int, Affords(x, n), NEW e \in Int, NEW d \in Int, Offsets(d, n, e),
           NEW st, Moves(x.st, st, s, d)
    PROVE  Keeps(x, [Earn(x, n) EXCEPT !.st = st], s, e)
<1> DEFINE y == [Earn(x, n) EXCEPT !.st = st]
<1>1. /\ DOMAIN y = {"st", "s", "fee", "tip", "res"} /\ y.st = st /\ y.fee = x.fee /\ y.tip = x.tip
      /\ y.s = [x.s EXCEPT !.bal = @ + n]
  BY Zenon DEF Running, Earn
<1> HIDE DEF y
<1>2. y.s \in AccountRecord /\ Total(y.s) = Total(x.s) + n /\ Total(x.s) \in Nat
  BY <1>1 DEF Running, AccountRecord, Total, Affords
<1>3. Even(x, y, d, e)
  BY <1>1, <1>2 DEF Running, Even, Offsets
<1>4. Keeps(x, y, s, e)
  BY Zenon, <1>1, <1>2, <1>3, Balanced DEF Running
<1> QED
  BY Zenon, <1>4 DEF y

LEMMA Same ==
    ASSUME NEW x, Running(x), NEW s, NEW st, Moves(x.st, st, s, 0)
    PROVE  Keeps(x, [x EXCEPT !.st = st], s, 0)
<1> DEFINE y == [x EXCEPT !.st = st]
<1>1. DOMAIN y = {"st", "s", "fee", "tip", "res"} /\ y.st = st /\ y.fee = x.fee /\ y.tip = x.tip /\ y.s = x.s
  BY Zenon DEF Running
<1> HIDE DEF y
<1>2. Even(x, y, 0, 0)
  BY <1>1, WealthType DEF Running, Even
<1>3. Keeps(x, y, s, 0)
  BY SMTT(30), <1>1, <1>2, Balanced DEF Running
<1> QED
  BY Zenon, <1>3 DEF y

\* A receipt is failed, or the transaction refused, without moving anything.
LEMMA FailedKeeps ==
    ASSUME NEW x, Running(x), NEW s
    PROVE  Keeps(x, x, s, 0) /\ Keeps(x, Failed(x), s, 0) /\ Running(Reject(x)) /\ Reject(x).res = "reject"
<1>1. \A y : DOMAIN y = DOMAIN x /\ y.st = x.st /\ y.s = x.s /\ y.fee = x.fee /\ y.tip = x.tip
               => Running(y) /\ Keeps(x, y, s, 0)
  BY WealthType DEF Running, Keeps, Wealth, Journals
<1> QED
  BY Zenon, <1>1 DEF Failed, Reject, Running

LEMMA RecipientType ==
    ASSUME NEW st, Native(st.led), NEW to \in Account
    PROVE  ResolveRecipient(st, to) \in Account
BY Zenon, LedgerAssumption DEF Native, Typed, ResolveRecipient, ResolveName, Get, NftRecord

LEMMA CopyKeeps ==
    ASSUME NEW x, Running(x), NEW s, NEW y, DOMAIN y = DOMAIN x, y.st = x.st, y.fee = x.fee, y.tip = x.tip,
           y.s \in AccountRecord, Total(y.s) = Total(x.s)
    PROVE  Keeps(x, y, s, 0)
BY SMTT(30), WealthType DEF Running, Keeps, Wealth, Journals

\* The outcome alone makes no difference.
LEMMA TwinKeeps ==
    ASSUME NEW x, NEW s, NEW e, NEW z, Keeps(x, z, s, e), NEW y, DOMAIN y = DOMAIN z,
           y.st = z.st, y.s = z.s, y.fee = z.fee, y.tip = z.tip
    PROVE  Keeps(x, y, s, e)
BY Zenon DEF Keeps, Running, Wealth

LEMMA PlainTransferKeeps ==
    ASSUME NEW x, Running(x), NEW tx, NEW a, a.to \in Account, a.amount \in Nat
    PROVE  Keeps(x, DoPlainTransfer(x, tx, a), tx.signer, 0)
<1> DEFINE s == tx.signer
           dest == ResolveRecipient(x.st, a.to)
           st == SetAccount(x.st, dest, [AccountOf(x.st, dest) EXCEPT !.bal = @ + a.amount])
           r == DoTransfer(x.st, s, x.s, a.to, a.amount)
           y == DoPlainTransfer(x, tx, a)
<1>1. DOMAIN y = DOMAIN x /\ y.st = r.st /\ y.s = r.acct /\ y.fee = x.fee /\ y.tip = x.tip
  BY Zenon DEF DoPlainTransfer, Running
<1>2. \/ r.st = x.st /\ r.acct = x.s
      \/ ~(x.s.bal < a.amount) /\ dest # s /\ r.st = st /\ r.acct = [x.s EXCEPT !.bal = @ - a.amount]
  BY Zenon DEF DoTransfer
<1>3. x.s.bal \in Nat /\ dest \in Account
  BY Zenon, RecipientType DEF Running, AccountRecord
<1> HIDE DEF r, y, dest
<1>4. CASE r.st = x.st /\ r.acct = x.s
  BY Zenon, <1>1, <1>4, CopyKeeps DEF Running, y
<1>5. CASE ~(x.s.bal < a.amount) /\ dest # s /\ r.st = st /\ r.acct = [x.s EXCEPT !.bal = @ - a.amount]
  <2>1. AccountOf(x.st, dest).bal + a.amount \in Nat
    BY AccountType DEF AccountRecord, Running
  <2>2. Credited(x.st, st, dest, a.amount)
    BY <1>3, <2>1, CreditAdds DEF Running
  <2> HIDE DEF st
  <2>3. Moves(x.st, st, s, a.amount) /\ x.s.bal >= a.amount
    BY <1>3, <1>5, <2>2 DEF Credited, Moves
  <2> DEFINE z == [Pay(x, a.amount) EXCEPT !.st = st]
  <2>4. Keeps(x, z, s, 0)
    BY Zenon, <2>3, Paid
  <2>5. DOMAIN y = DOMAIN z /\ y.st = z.st /\ y.s = z.s /\ y.fee = z.fee /\ y.tip = z.tip
    BY Zenon, <1>1, <1>5 DEF Pay, Running
  <2> HIDE DEF z
  <2> QED
    BY Zenon, <2>4, <2>5, TwinKeeps DEF y
<1> QED
  BY Zenon, <1>2, <1>4, <1>5

LEMMA TokensStill ==
    ASSUME NEW st, Native(st.led), NEW s
    PROVE  /\ \A asset, a, n : Moves(st, SetTokenBalance(st, asset, a, n), s, 0)
           /\ \A asset, info : Moves(st, SetToken(st, asset, info), s, 0)
           /\ \A asset, from, amount, h : Moves(st, Meter(st, asset, from, amount, h), s, 0)
<1>1. \A f \in OtherMaps : \A k, v : Moves(st, Put(st, f, k, v), s, 0)
  BY Zenon, PutOther
<1>2. Moves(st, st, s, 0)
  BY Zenon, Unmoved
<1> QED
  BY Zenon, <1>1, <1>2 DEF OtherMaps, MapNames, SetTokenBalance, SetToken, Meter, SetTokenWindow

LEMMA MovedStill ==
    ASSUME NEW st, Native(st.led), NEW s, NEW asset, NEW from, NEW to, NEW amount, NEW h
    PROVE  Moves(st, Meter(MoveToken(st, asset, from, to, amount), asset, from, amount, h), s, 0)
<1> DEFINE st1 == SetTokenBalance(st, asset, from, TokenBalance(st, asset, from) - amount)
           st2 == MoveToken(st, asset, from, to, amount)
<1>1. Moves(st, st1, s, 0)
  BY Zenon, TokensStill
<1>2. Moves(st1, SetTokenBalance(st1, asset, to, TokenBalance(st1, asset, to) + amount), s, 0)
  <2> HIDE DEF st1
  <2> QED
    BY <1>1, TokensStill DEF Moves
<1>3. Moves(st, st2, s, 0)
  BY Zenon, <1>1, <1>2, StillTwice DEF MoveToken
<1> HIDE DEF st2
<1>4. Moves(st2, Meter(st2, asset, from, amount, h), s, 0)
  BY SMTT(30), <1>3, TokensStill DEF Moves
<1> QED
  BY Zenon, <1>3, <1>4, StillTwice DEF st2

LEMMA TokenIssueKeeps ==
    ASSUME NEW x, Running(x), NEW s, NEW tx, NEW a
    PROVE  Keeps(x, TokenIssue(x, tx, a), s, 0)
<1>1. \A asset, info : Moves(x.st, SetToken(x.st, asset, info), s, 0)
  BY Zenon, TokensStill DEF Running
<1>2. \A asset, info, to, n : Moves(x.st, SetTokenBalance(SetToken(x.st, asset, info), asset, to, n), s, 0)
  BY <1>1, TokensStill, StillTwice DEF Moves
<1>3. \/ TokenIssue(x, tx, a) = Failed(x)
      \/ \E asset, info, to, n : TokenIssue(x, tx, a)
           = [x EXCEPT !.st = SetTokenBalance(SetToken(x.st, asset, info), asset, to, n)]
  BY Zenon DEF TokenIssue, Checked
<1> QED
  BY <1>2, <1>3, FailedKeeps, Same

LEMMA TokenTransferKeeps ==
    ASSUME NEW x, Running(x), NEW s, NEW tx, NEW a, NEW h
    PROVE  Keeps(x, TokenTransfer(x, tx, a, h), s, 0)
<1>1. \A asset, from, to, n : Moves(x.st, Meter(MoveToken(x.st, asset, from, to, n), asset, from, n, h), s, 0)
  BY Zenon, MovedStill DEF Running
<1>2. \/ TokenTransfer(x, tx, a, h) \in {x, Failed(x)}
      \/ \E asset, from, to, n : TokenTransfer(x, tx, a, h)
           = [x EXCEPT !.st = Meter(MoveToken(x.st, asset, from, to, n), asset, from, n, h)]
  BY Zenon DEF TokenTransfer, Checked
<1> QED
  BY <1>1, <1>2, FailedKeeps, Same

LEMMA TokenBurnKeeps ==
    ASSUME NEW x, Running(x), NEW s, NEW tx, NEW a, NEW h
    PROVE  Keeps(x, TokenBurn(x, tx, a, h), s, 0)
<1>1. \A asset, info : Moves(x.st, SetToken(x.st, asset, info), s, 0)
  BY Zenon, TokensStill DEF Running
<1>2. \A asset, info, to, n : Moves(x.st, SetTokenBalance(SetToken(x.st, asset, info), asset, to, n), s, 0)
  BY SMTT(30), <1>1, TokensStill, StillTwice DEF Moves
<1>3. \A asset, info, to, n, amount :
        Moves(x.st, Meter(SetTokenBalance(SetToken(x.st, asset, info), asset, to, n), asset, to, amount, h), s, 0)
  BY SMTT(30), <1>2, TokensStill, StillTwice DEF Moves
<1>4. \/ TokenBurn(x, tx, a, h) = Failed(x)
      \/ \E asset, info, to, n, amount : TokenBurn(x, tx, a, h)
           = [x EXCEPT !.st = Meter(SetTokenBalance(SetToken(x.st, asset, info), asset, to, n), asset, to, amount, h)]
  BY Zenon DEF TokenBurn, Checked
<1> QED
  BY <1>3, <1>4, FailedKeeps, Same

LEMMA TokenSetPolicyKeeps ==
    ASSUME NEW x, Running(x), NEW s, NEW tx, NEW a
    PROVE  Keeps(x, TokenSetPolicy(x, tx, a), s, 0)
<1> DEFINE put == Put(x.st, "policies", a.asset, a.policy)
           stale == {k \in DOMAIN x.st.led.windows : k[1] = a.asset}
           w == [k \in stale |-> Absent]
<1>1. Moves(x.st, put, s, 0)
  BY Zenon, PutOther DEF Running, OtherMaps, MapNames
<1>2. IsMap(w) /\ IsFiniteSet(DOMAIN w)
  <2>1. IsFiniteSet(DOMAIN x.st.led.windows)
    BY Zenon DEF Running, Native, Typed, Shape, Tidy, MapNames
  <2> QED
    BY Zenon, <2>1, FS_Subset DEF IsMap
<1>3. SetTokenPolicy(x.st, a.asset, a.policy) = PutAll(put, "windows", w)
  BY Zenon DEF SetTokenPolicy
<1>4. TokenSetPolicy(x, tx, a) \in {[x EXCEPT !.st = SetTokenPolicy(x.st, a.asset, a.policy)], Failed(x)}
  BY Zenon DEF TokenSetPolicy, Checked
<1> HIDE DEF put, w
<1>5. Moves(x.st, PutAll(put, "windows", w), s, 0)
  BY Zenon, <1>1, <1>2, BatchMoves, StillTwice DEF Moves
<1> QED
  BY <1>3, <1>4, <1>5, FailedKeeps, Same

\* Facts about a batch follow from facts about one command: the batch is a
\* chain of ledgers, each the outcome of a command on the one before.
LEMMA SettleChain ==
    ASSUME NEW st, NEW contract, NEW cmds, NEW h, Len(cmds) \in Nat
    PROVE  \E g : /\ g[0] = st /\ g[Len(cmds)] = SettleContractTransfers(st, contract, cmds, h)
                  /\ \A n \in 1..Len(cmds) : g[n] = ContractTransfer(g[n - 1], contract, cmds[n], h)
<1> DEFINE N == Len(cmds)
           Step(g, n) == IF n = 0 THEN st ELSE ContractTransfer(g[n - 1], contract, cmds[n], h)
           Chained(g, k) == g = [n \in 0..k |-> Step(g, n)]
           T == {k \in Nat : \E g : Chained(g, k)}
<1>1. 0 \in T
  <2> DEFINE g == [n \in {0} |-> st]
  <2>1. g = [n \in 0..0 |-> Step(g, n)]
    BY 0..0 = {0}
  <2> QED
    BY Zenon, <2>1
<1>2. ASSUME NEW k \in Nat, k \in T PROVE k + 1 \in T
  <2>1. PICK g : Chained(g, k)
    BY Zenon, <1>2
  <2> DEFINE f == [n \in 0..(k + 1) |-> IF n = k + 1 THEN Step(g, n) ELSE g[n]]
  <2>2. \A n \in 0..k : f[n] = g[n] /\ g[n] = Step(g, n)
    BY <2>1
  <2>3. ASSUME NEW n \in 0..(k + 1) PROVE f[n] = Step(f, n)
    <3>1. n # 0 => n - 1 \in 0..k
      OBVIOUS
    <3>2. Step(f, n) = Step(g, n)
      <4> HIDE DEF f
      <4> QED
        BY Zenon, <2>2, <3>1
    <3>3. f[n] = Step(g, n)
      <4>1. n = k + 1 \/ n \in 0..k
        BY SMTT(30)
      <4> QED
        BY Zenon, <2>2, <4>1
    <3> QED
      BY Zenon, <3>2, <3>3
  <2>4. f = [n \in 0..(k + 1) |-> f[n]]
    BY Zenon
  <2> HIDE DEF f
  <2>5. Chained(f, k + 1)
    BY Zenon, <2>3, <2>4
  <2> QED
    BY <2>5
<1>3. N \in T
  <2> HIDE DEF T
  <2> QED
    BY Zenon, <1>1, <1>2, NatSetInduction
<1> DEFINE c == CHOOSE g : Chained(g, N)
<1>4. Chained(c, N)
  BY Zenon, <1>3
<1>5. SettleContractTransfers(st, contract, cmds, h) = c[N]
  BY Zenon DEF SettleContractTransfers
<1> HIDE DEF c
<1>6. \A n \in 0..N : c[n] = Step(c, n)
  BY Zenon, <1>4
<1>7. \A n \in 1..N : c[n] = ContractTransfer(c[n - 1], contract, cmds[n], h)
  BY SMTT(30), <1>6
<1>8. c[0] = st
  BY <1>6
<1> QED
  BY Zenon, <1>5, <1>7, <1>8

LEMMA SettleStill ==
    ASSUME NEW st, Native(st.led), NEW s, NEW contract, NEW cmds, NEW h, Len(cmds) \in Nat
    PROVE  \/ SettleContractTransfers(st, contract, cmds, h) = Absent
           \/ Moves(st, SettleContractTransfers(st, contract, cmds, h), s, 0)
<1>1. PICK g : /\ g[0] = st /\ g[Len(cmds)] = SettleContractTransfers(st, contract, cmds, h)
               /\ \A n \in 1..Len(cmds) : g[n] = ContractTransfer(g[n - 1], contract, cmds[n], h)
  BY SMTT(30), SettleChain
<1> DEFINE T == {n \in Nat : n <= Len(cmds) => g[n] = Absent \/ Moves(st, g[n], s, 0)}
<1>2. 0 \in T
  BY Zenon, <1>1, Unmoved
<1>3. ASSUME NEW n \in Nat, n \in T PROVE n + 1 \in T
  <2> SUFFICES ASSUME n + 1 <= Len(cmds) PROVE g[n + 1] = Absent \/ Moves(st, g[n + 1], s, 0)
    BY SMTT(30)
  <2>1. g[n + 1] = ContractTransfer(g[n], contract, cmds[n + 1], h)
    BY SMTT(30), <1>1, n + 1 \in 1..Len(cmds), (n + 1) - 1 = n
  <2>2. g[n] = Absent \/ Moves(st, g[n], s, 0)
    BY <1>3
  <2>3. CASE g[n] = Absent
    BY Zenon, <2>1, <2>3 DEF ContractTransfer
  <2>4. CASE Moves(st, g[n], s, 0)
    <3>1. \A asset, to, amount :
            Moves(g[n], Meter(MoveToken(g[n], asset, contract, to, amount), asset, contract, amount, h), s, 0)
      BY SMTT(30), <2>4, MovedStill DEF Moves
    <3> QED
      BY SMTT(30), <2>1, <2>4, <3>1, StillTwice DEF ContractTransfer
  <2> QED
    BY Zenon, <2>2, <2>3, <2>4
<1>4. Len(cmds) \in T
  <2> HIDE DEF T
  <2> QED
    BY Zenon, <1>2, <1>3, NatSetInduction
<1> QED
  BY <1>1, <1>4

\* The fee of an action is owed to the miner from the moment it is charged.
LEMMA ChargedKeeps ==
    ASSUME NEW x, Running(x), NEW s, NEW n \in Nat, x.s.bal >= n, NEW st, Moves(x.st, st, s, 0)
    PROVE  Keeps(x, [[Pay(x, n) EXCEPT !.fee = @ + n] EXCEPT !.st = st], s, 0)
<1> DEFINE y == [[Pay(x, n) EXCEPT !.fee = @ + n] EXCEPT !.st = st]
<1>1. /\ DOMAIN y = {"st", "s", "fee", "tip", "res"} /\ y.st = st /\ y.fee = x.fee + n /\ y.tip = x.tip
      /\ y.s = [x.s EXCEPT !.bal = @ - n]
  BY Zenon DEF Running, Pay
<1> HIDE DEF y
<1>2. y.s \in AccountRecord /\ Total(y.s) = Total(x.s) - n /\ Total(x.s) \in Nat
  BY <1>1 DEF Running, AccountRecord, Total
<1>3. Even(x, y, 0, 0) /\ y.fee \in Nat /\ y.tip \in Nat
  BY <1>1, <1>2 DEF Running, Even
<1>4. Keeps(x, y, s, 0)
  BY <1>1, <1>2, <1>3, Balanced
<1> QED
  BY Zenon, <1>4 DEF y

\* A stored transfer is paid from one account of the ledger to another.
LEMMA ExecuteMoves ==
    ASSUME NEW x, Running(x), NEW account \in Account, NEW a, a.to \in Account, a.amount \in Nat
    PROVE  LET y == ExecuteProposal(x, account, a)
           IN /\ DOMAIN y = DOMAIN x /\ y.s = x.s /\ y.fee = x.fee /\ y.tip = x.tip
              /\ Native(y.st.led) /\ Journals(x.st, y.st)
              /\ \A s : s \notin {account, ResolveRecipient(x.st, a.to)} => Moves(x.st, y.st, s, 0)
<1> DEFINE acct == AccountOf(x.st, account)
           dest == ResolveRecipient(x.st, a.to)
           r == DoTransfer(x.st, account, acct, a.to, a.amount)
           y == ExecuteProposal(x, account, a)
           st1 == SetAccount(x.st, dest, [AccountOf(x.st, dest) EXCEPT !.bal = @ + a.amount])
<1>1. DOMAIN y = DOMAIN x /\ y.s = x.s /\ y.fee = x.fee /\ y.tip = x.tip /\ y.st = SetAccount(r.st, account, r.acct)
  BY Zenon DEF ExecuteProposal, Running
<1>2. \/ r.st = x.st /\ r.acct = acct
      \/ ~(acct.bal < a.amount) /\ dest # account /\ r.st = st1 /\ r.acct = [acct EXCEPT !.bal = @ - a.amount]
  BY Zenon DEF DoTransfer
<1>3. /\ Native(x.st.led) /\ TotalSupply(x.st.led) \in Nat /\ dest \in Account
      /\ acct \in AccountRecord /\ acct.bal \in Nat /\ AccountOf(x.st, dest).bal + a.amount \in Nat
  BY SMTT(30), WealthType, RecipientType, AccountType DEF Running, AccountRecord
<1> HIDE DEF r, dest
<1>4. CASE r.st = x.st /\ r.acct = acct
  <2> DEFINE st == SetAccount(x.st, account, acct)
  <2>1. /\ Native(st.led) /\ Journals(x.st, st) /\ Total(acct) \in Nat
        /\ TotalSupply(st.led) = TotalSupply(x.st.led) - Total(acct) + Total(acct)
        /\ \A b : b # account => AccountOf(st, b) = AccountOf(x.st, b)
    BY SMTT(30), <1>3, AccountWritten
  <2> HIDE DEF st
  <2>2. TotalSupply(st.led) = TotalSupply(x.st.led) + 0
    BY <1>3, <2>1
  <2>3. \A s : s # account => Moves(x.st, st, s, 0)
    BY Zenon, <2>1, <2>2 DEF Moves
  <2>4. y.st = st
    BY Zenon, <1>1, <1>4 DEF st
  <2> HIDE DEF y
  <2> QED
    BY Zenon, <1>1, <2>1, <2>3, <2>4 DEF y, dest
<1>5. CASE ~(acct.bal < a.amount) /\ dest # account /\ r.st = st1 /\ r.acct = [acct EXCEPT !.bal = @ - a.amount]
  <2>1. Credited(x.st, st1, dest, a.amount)
    BY <1>3, CreditAdds
  <2> HIDE DEF st1
  <2> DEFINE n == -a.amount
             st == SetAccount(st1, account, [AccountOf(st1, account) EXCEPT !.bal = @ + n])
  <2>2. Native(st1.led) /\ AccountOf(st1, account) = acct
    BY Zenon, <1>5, <2>1 DEF Credited
  <2>3. n \in Int /\ acct.bal + n >= 0 /\ acct.bal - a.amount = acct.bal + n
    BY <1>3, <1>5
  <2>4. y.st = st
    BY Zenon, <1>1, <1>5, <2>2, <2>3
  <2> HIDE DEF n
  <2>5. Credited(st1, st, account, n)
    BY Zenon, <2>2, <2>3, CreditAdds
  <2> HIDE DEF st, y
  <2>6. Native(st.led) /\ Journals(x.st, st) /\ TotalSupply(st.led) = TotalSupply(x.st.led) + 0
    <3>1. Journals(x.st, st)
      BY Zenon, <2>1, <2>5 DEF Credited, Journals
    <3> QED
      BY <1>3, <2>1, <2>5, <3>1 DEF Credited, n
  <2>7. \A s : s \notin {account, dest} => Moves(x.st, st, s, 0)
    BY Zenon, <2>1, <2>5, <2>6 DEF Credited, Moves
  <2> QED
    BY Zenon, <1>1, <2>4, <2>6, <2>7 DEF y, dest
<1> QED
  BY Zenon, <1>2, <1>4, <1>5

LEMMA KeepsTwice ==
    ASSUME NEW x, NEW y, NEW z, NEW s, Running(x), Keeps(x, y, s, 0), Keeps(y, z, s, 0)
    PROVE  Keeps(x, z, s, 0)
<1>1. Journals(x.st, z.st)
  BY Zenon DEF Keeps, Journals
<1> QED
  BY SMTT(30), <1>1, WealthType DEF Keeps
=============================================================================
