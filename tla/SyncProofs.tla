----------------------------- MODULE SyncProofs -----------------------------
(***************************************************************************)
(* Proofs about the sync worker, for every block tree, any set of peers    *)
(* and any interleaving of requests, late answers, lost links and deaths   *)
(* of the verifier: the linkage proof assembled from the peers' answers is *)
(* sound, at most one catch-up batch is under way, and the gate of the     *)
(* producer fails closed.                                                  *)
(***************************************************************************)
EXTENDS SyncWorker, CheckpointProofs

Modes == {"Announced", "Batch", "Backtrack"}
Outcomes == Seq(Nat \X ImportOutcome)

(* The chain the node holds is closed under parents and has its head.      *)
Closed(k, h) == h \in k /\ k \subseteq All /\ \A b \in k \ {Genesis} : Prev[b] \in k

(* Chain states an import may start from and lead to, not below height n.  *)
Grown(n) == {c \in [known : SUBSET All, head : All, broken : BOOLEAN, outcome : Outcomes] :
                Closed(c.known, c.head) /\ Height(c.head) >= n}

LEMMA ImportGrows ==
    ASSUME NEW n \in Nat, NEW c \in Grown(n), NEW b \in Blocks, NEW fails \in BOOLEAN
    PROVE  /\ ImportAndPersist(c, b, fails) \in Grown(n)
           /\ ImportAndPersist(c, b, fails).outcome # <<>>
<1> DEFINE d == ImportAndPersist(c, b, fails)
           open == ~c.broken /\ ~poisoned
           attaches == b \notin c.known /\ Prev[b] \in c.known
           enters == open /\ attaches /\ b \notin Invalid /\ PassesPins(cp, b)
           wins == Height(b) > Height(c.head) \/ (Height(b) = Height(c.head) /\ b < c.head)
           outcome == CASE enters -> IF fails THEN "Rejected" ELSE IF wins THEN "New" ELSE "SideBranch"
                     [] open /\ b \in c.known -> "Known"
                     [] open /\ attaches /\ ~enters -> "Invalid"
                     [] OTHER -> "Rejected"
<1>1. d = [known |-> IF enters THEN c.known \cup {b} ELSE c.known,
           head |-> IF enters /\ wins THEN b ELSE c.head,
           broken |-> c.broken \/ (enters /\ fails),
           outcome |-> Append(c.outcome, <<Height(b), outcome>>)]
  BY Zenon DEF ImportAndPersist
<1>2. /\ c.known \in SUBSET All /\ c.head \in All /\ c.broken \in BOOLEAN /\ c.outcome \in Outcomes
      /\ Closed(c.known, c.head) /\ Height(c.head) >= n
  BY DEF Grown
<1>3. b \in All /\ Height(b) \in Nat /\ Height(c.head) \in Nat
  BY <1>2, ChainType DEF All
<1>4. outcome \in ImportOutcome
  <2>1. enters => ~(open /\ b \in c.known) /\ ~(open /\ attaches /\ ~enters)
    OBVIOUS
  <2>2. ~(open /\ b \in c.known /\ attaches)
    OBVIOUS
  <2> HIDE DEF enters, attaches, wins, open
  <2>3. CASE enters
    <3>1. outcome = IF fails THEN "Rejected" ELSE IF wins THEN "New" ELSE "SideBranch"
      BY <2>1, <2>3
    <3> QED
      BY <3>1 DEF ImportOutcome
  <2>4. CASE ~enters /\ open /\ b \in c.known
    <3>1. outcome = "Known"
      BY <2>2, <2>4
    <3> QED
      BY <3>1 DEF ImportOutcome
  <2>5. CASE ~enters /\ open /\ attaches
    <3>1. outcome = "Invalid"
      BY <2>2, <2>5
    <3> QED
      BY <3>1 DEF ImportOutcome
  <2>6. CASE ~enters /\ ~(open /\ b \in c.known) /\ ~(open /\ attaches)
    <3>1. outcome = "Rejected"
      BY <2>6
    <3> QED
      BY <3>1 DEF ImportOutcome
  <2> HIDE DEF outcome
  <2> QED
    BY <2>3, <2>4, <2>5, <2>6
<1> HIDE DEF outcome
<1>5. Append(c.outcome, <<Height(b), outcome>>) \in Outcomes \ {<<>>}
  <2>1. <<Height(b), outcome>> \in Nat \X ImportOutcome
    BY <1>3, <1>4
  <2> QED
    BY <1>2, <2>1, AppendProperties, EmptySeq DEF Outcomes
<1>6. wins => Height(b) >= Height(c.head)
  BY <1>3
<1>7. (IF enters /\ wins THEN b ELSE c.head) \in All
      /\ Height(IF enters /\ wins THEN b ELSE c.head) >= n
  <2> HIDE DEF enters, wins
  <2> QED
    BY <1>2, <1>3, <1>6
<1>8. enters => Prev[b] \in c.known
  OBVIOUS
<1> HIDE DEF enters, wins, d
<1>9. Closed(IF enters THEN c.known \cup {b} ELSE c.known, IF enters /\ wins THEN b ELSE c.head)
  BY <1>2, <1>3, <1>8 DEF Closed
<1>10. (IF enters THEN c.known \cup {b} ELSE c.known) \in SUBSET All
  BY <1>2, <1>3
<1>11. (c.broken \/ (enters /\ fails)) \in BOOLEAN
  OBVIOUS
<1>12. d \in Grown(n) /\ d.outcome # <<>>
  BY <1>1, <1>5, <1>7, <1>9, <1>10, <1>11 DEF Grown
<1> QED
  BY <1>12 DEF d

LEMMA NatSetInduction ==
    ASSUME NEW T, 0 \in T, \A n \in Nat : n \in T => n + 1 \in T
    PROVE  \A n \in Nat : n \in T
<1> DEFINE B == Nat \ T
<1> SUFFICES ASSUME B # {} PROVE FALSE
  OBVIOUS
<1>1. PICK m \in B : \A k \in B : m <= k
  <2>1. B \in SUBSET Nat
    OBVIOUS
  <2> HIDE DEF B
  <2> QED
    BY <2>1, LeastNat
<1>2. m - 1 \in Nat /\ ~(m <= m - 1) /\ (m - 1) + 1 = m
  BY <1>1
<1>3. m - 1 \in T
  BY <1>1, <1>2
<1> QED
  BY <1>1, <1>2, <1>3

(* What the blocks of a job do one after the other is well defined: there  *)
(* is a function that follows the recursion, up to any number of blocks.   *)
After(blocks, failing, c, n, f) ==
    IF n = 0 THEN c
    ELSE IF Stopped(f[n - 1].outcome) THEN f[n - 1]
    ELSE ImportAndPersist(f[n - 1], blocks[n], n = failing)

LEMMA AfterGrows ==
    ASSUME NEW m \in Nat, NEW blocks \in Seq(Blocks), NEW failing, NEW c \in Grown(m),
           NEW n \in Nat, n <= Len(blocks),
           NEW f, n > 0 => f[n - 1] \in Grown(m) /\ (n - 1 > 0 => f[n - 1].outcome # <<>>)
    PROVE  /\ After(blocks, failing, c, n, f) \in Grown(m)
           /\ n > 0 => After(blocks, failing, c, n, f).outcome # <<>>
<1>1. CASE n = 0
  BY <1>1 DEF After
<1>2. CASE n # 0
  <2>1. n > 0 /\ n \in 1..Len(blocks)
    BY <1>2, LenProperties
  <2>2. blocks[n] \in Blocks
    BY <2>1, ElementOfSeq
  <2>3. f[n - 1] \in Grown(m)
    BY <2>1
  <2>4. CASE Stopped(f[n - 1].outcome)
    <3>1. f[n - 1].outcome # <<>>
      BY Zenon, <2>4 DEF Stopped
    <3> QED
      BY Zenon, <1>2, <2>3, <2>4, <3>1 DEF After
  <2>5. CASE ~Stopped(f[n - 1].outcome)
    <3>1. /\ ImportAndPersist(f[n - 1], blocks[n], n = failing) \in Grown(m)
          /\ ImportAndPersist(f[n - 1], blocks[n], n = failing).outcome # <<>>
      BY <2>2, <2>3, ImportGrows
    <3> QED
      BY Zenon, <1>2, <2>5, <3>1 DEF After
  <2> QED
    BY Zenon, <2>4, <2>5
<1> QED
  BY Zenon, <1>1, <1>2

LEMMA AfterExists ==
    ASSUME NEW blocks, NEW failing, NEW c
    PROVE  \A N \in Nat : \E f : f = [n \in 0..N |-> After(blocks, failing, c, n, f)]
<1> DEFINE T == {N \in Nat : \E f : f = [n \in 0..N |-> After(blocks, failing, c, n, f)]}
<1>1. 0 \in T
  <2> DEFINE f == [n \in 0..0 |-> c]
  <2>1. \A n \in 0..0 : After(blocks, failing, c, n, f) = c
    <3> HIDE DEF f
    <3> QED
      BY DEF After
  <2>2. f = [n \in 0..0 |-> After(blocks, failing, c, n, f)]
    BY <2>1
  <2> HIDE DEF f
  <2> QED
    BY <2>2
<1>2. ASSUME NEW N \in Nat, N \in T PROVE N + 1 \in T
  <2>1. PICK g : g = [n \in 0..N |-> After(blocks, failing, c, n, g)]
    BY Zenon, <1>2
  <2> DEFINE v == After(blocks, failing, c, N + 1, g)
             f == [n \in 0..N + 1 |-> IF n = N + 1 THEN v ELSE g[n]]
  <2>2. \A n \in 0..N : f[n] = g[n]
    <3> HIDE DEF v
    <3>1. \A n \in 0..N : n \in 0..N + 1 /\ n # N + 1
      OBVIOUS
    <3> QED
      BY Zenon, <3>1
  <2>3. f[N + 1] = v
    <3> HIDE DEF v
    <3>1. N + 1 \in 0..N + 1
      OBVIOUS
    <3> QED
      BY Zenon, <3>1
  <2>4. DOMAIN f = 0..N + 1 /\ f = [n \in 0..N + 1 |-> f[n]]
    <3> HIDE DEF v
    <3> QED
      OBVIOUS
  <2> HIDE DEF f
  <2>5. ASSUME NEW n \in 0..N + 1 PROVE After(blocks, failing, c, n, f) = After(blocks, failing, c, n, g)
    <3>1. n # 0 => n - 1 \in 0..N
      OBVIOUS
    <3>2. n # 0 => f[n - 1] = g[n - 1]
      BY Zenon, <2>2, <3>1
    <3> QED
      BY Zenon, <3>2 DEF After
  <2>6. ASSUME NEW n \in 0..N + 1 PROVE f[n] = After(blocks, failing, c, n, f)
    <3>1. n \in 0..N \/ n = N + 1
      OBVIOUS
    <3>2. CASE n \in 0..N
      <4>1. g[n] = After(blocks, failing, c, n, g)
        BY Zenon, <2>1, <3>2
      <4> QED
        BY Zenon, <2>2, <2>5, <3>2, <4>1
    <3>3. CASE n = N + 1
      BY Zenon, <2>3, <2>5, <3>3
    <3> QED
      BY Zenon, <3>1, <3>2, <3>3
  <2>7. f = [n \in 0..N + 1 |-> After(blocks, failing, c, n, f)]
    <3>1. [n \in 0..N + 1 |-> f[n]] = [n \in 0..N + 1 |-> After(blocks, failing, c, n, f)]
      BY Zenon, <2>6
    <3> QED
      BY Zenon, <2>4, <3>1
  <2> QED
    BY <2>7, N + 1 \in Nat
<1> HIDE DEF T
<1>3. \A N \in Nat : N \in T
  BY <1>1, <1>2, NatSetInduction
<1> QED
  BY Zenon, <1>3 DEF T

(* A job the worker runs itself leaves a closed chain, no lower head, and  *)
(* one outcome at least.                                                   *)
LEMMA RunGrows ==
    ASSUME Closed(known, head), broken \in BOOLEAN, NEW blocks \in Seq(Blocks), blocks # <<>>,
           NEW failing
    PROVE  /\ RunVerifyJob(blocks, failing) \in Grown(Height(head))
           /\ RunVerifyJob(blocks, failing).outcome # <<>>
<1> DEFINE c == [known |-> known, head |-> head, broken |-> broken, outcome |-> <<>>]
           L == Len(blocks)
           f == CHOOSE g : g = [n \in 0..L |-> After(blocks, failing, c, n, g)]
           m == Height(head)
<1>1. L \in Nat /\ L > 0
  BY LenProperties, EmptySeq
<1>2. f = [n \in 0..L |-> After(blocks, failing, c, n, f)]
  <2> HIDE DEF c, L
  <2> QED
    BY <1>1, AfterExists
<1>3. RunVerifyJob(blocks, failing) = f[L]
  BY Zenon DEF RunVerifyJob, After
<1>4. m \in Nat /\ c \in Grown(m)
  <2>1. head \in All /\ known \in SUBSET All
    BY DEF Closed
  <2>2. m \in Nat
    BY <2>1, ChainType
  <2>3. <<>> \in Outcomes
    BY EmptySeq DEF Outcomes
  <2> HIDE DEF m
  <2>4. m >= m
    BY <2>2
  <2> QED
    BY <2>1, <2>2, <2>3, <2>4 DEF Grown, m
<1> HIDE DEF f, c, m, L
<1> DEFINE T == {n \in Nat : n <= L => f[n] \in Grown(m) /\ (n > 0 => f[n].outcome # <<>>)}
<1>5. 0 \in T
  <2>1. 0 \in 0..L /\ ~(0 > 0)
    BY <1>1
  <2>2. f[0] = c
    BY Zenon, <1>2, <2>1 DEF After
  <2> QED
    BY Zenon, <1>4, <2>1, <2>2
<1>6. ASSUME NEW n \in Nat, n \in T PROVE n + 1 \in T
  <2> SUFFICES ASSUME n + 1 <= L
               PROVE  f[n + 1] \in Grown(m) /\ (n + 1 > 0 => f[n + 1].outcome # <<>>)
    BY n + 1 \in Nat
  <2>1. n <= L /\ n + 1 \in 0..L /\ (n + 1) - 1 = n /\ n + 1 \in Nat
    BY <1>1
  <2>2. f[n] \in Grown(m) /\ (n > 0 => f[n].outcome # <<>>)
    BY Zenon, <1>6, <2>1
  <2>3. f[n + 1] = After(blocks, failing, c, n + 1, f)
    BY Zenon, <1>2, <2>1
  <2>4. n + 1 <= Len(blocks)
    BY DEF L
  <2> QED
    BY Zenon, <1>4, <2>1, <2>2, <2>3, <2>4, AfterGrows
<1> HIDE DEF T
<1>7. L \in T
  BY <1>1, <1>5, <1>6, NatSetInduction
<1>8. L <= L
  BY <1>1
<1> QED
  BY Zenon, <1>1, <1>3, <1>7, <1>8 DEF T, m

LEMMA MinOfTwo ==
    ASSUME NEW a \in Nat, NEW b \in Nat
    PROVE  Min({a, b}) \in Nat /\ Min({a, b}) <= a /\ Min({a, b}) <= b
<1>1. \E x \in {a, b} : \A y \in {a, b} : x <= y
  BY a <= b \/ b <= a
<1>2. Min({a, b}) \in {a, b} /\ \A y \in {a, b} : Min({a, b}) <= y
  BY <1>1 DEF Min
<1> QED
  BY <1>2

LEMMA MaxOfTwo ==
    ASSUME NEW a \in Int, NEW b \in Int
    PROVE  Max({a, b}) \in {a, b} /\ Max({a, b}) >= a /\ Max({a, b}) >= b
<1>1. \E x \in {a, b} : \A y \in {a, b} : x >= y
  BY a >= b \/ b >= a, a >= a, b >= b
<1>2. Max({a, b}) \in {a, b} /\ \A y \in {a, b} : Max({a, b}) >= y
  BY <1>1 DEF Max
<1> QED
  BY <1>2

LEMMA MaxOfImage ==
    ASSUME NEW I, IsFiniteSet(I), I # {}, NEW rank \in [I -> Nat],
           NEW S, S = {rank[i] : i \in I}
    PROVE  Max(S) \in S /\ Max(S) \in Nat /\ \A y \in S : Max(S) >= y
<1>1. PICK x \in I : \A y \in I : rank[y] <= rank[x]
  BY Zenon, GreatestRank
<1>2. rank[x] \in S /\ \A y \in S : y \in Nat
  OBVIOUS
<1>3. \A y \in S : rank[x] >= y
  BY <1>1
<1>4. Max(S) \in S /\ \A y \in S : Max(S) >= y
  BY <1>2, <1>3 DEF Max
<1> QED
  BY Zenon, <1>2, <1>4

(* What the worker keeps of a peer.                                        *)
Entry == [auth : BOOLEAN, tip : Blocks \cup {None}, fresh : BOOLEAN, headers : BOOLEAN,
          next : Nat, step : Nat, strikes : Nat, replies : Nat, verified : Nat]

BookOK(bk) == bk \in [Peers -> Entry]

LEMMA NoBookOK == NoBook \in Entry
  BY DEF NoBook, Entry

LEMMA EntryEdits ==
    ASSUME NEW e \in Entry, NEW n \in Nat
    PROVE  /\ [e EXCEPT !.next = n] \in Entry /\ [e EXCEPT !.step = n] \in Entry
           /\ [e EXCEPT !.strikes = n] \in Entry /\ [e EXCEPT !.replies = n] \in Entry
           /\ [e EXCEPT !.verified = n] \in Entry
  BY DEF Entry

LEMMA EntrySights ==
    ASSUME NEW e \in Entry, NEW v \in BOOLEAN, NEW t \in Blocks
    PROVE  /\ [e EXCEPT !.auth = v] \in Entry /\ [e EXCEPT !.fresh = v] \in Entry
           /\ [e EXCEPT !.headers = v] \in Entry /\ [e EXCEPT !.tip = t] \in Entry
  BY DEF Entry

LEMMA EntryFields ==
    ASSUME NEW e \in Entry
    PROVE  /\ e.auth \in BOOLEAN /\ e.tip \in Blocks \cup {None} /\ e.fresh \in BOOLEAN
           /\ e.headers \in BOOLEAN /\ e.next \in Nat /\ e.step \in Nat /\ e.strikes \in Nat
           /\ e.replies \in Nat /\ e.verified \in Nat
  BY DEF Entry

LEMMA BookEdit ==
    ASSUME NEW bk, BookOK(bk), NEW p, NEW e \in Entry
    PROVE  BookOK([bk EXCEPT ![p] = e])
  BY DEF BookOK

LEMMA RetainedOK == BookOK(book) => BookOK(Retained) /\ BookOK(Struck(Retained))
<1> SUFFICES ASSUME BookOK(book) PROVE BookOK(Retained) /\ BookOK(Struck(Retained))
  OBVIOUS
<1>1. BookOK(Retained)
  BY NoBookOK DEF BookOK, Retained
<1>2. ASSUME NEW p \in Peers PROVE Struck(Retained)[p] \in Entry
  <2> DEFINE e == Retained[p]
  <2>1. e \in Entry
    BY <1>1 DEF BookOK
  <2>2. e.strikes + 1 \in Nat
    BY <2>1, EntryFields
  <2>3. Min({e.strikes + 1, StrikeDisconnect}) \in Nat
    BY <2>2, MinOfTwo, SyncAssumption
  <2>4. Struck(Retained)[p] = IF p \in Stalled
                              THEN [e EXCEPT !.strikes = Min({e.strikes + 1, StrikeDisconnect})]
                              ELSE e
    BY DEF Struck
  <2> HIDE DEF e
  <2> QED
    BY <2>1, <2>3, <2>4, EntryEdits
<1>3. Struck(Retained) = [p \in Peers |-> Struck(Retained)[p]]
  BY DEF Struck
<1> QED
  BY <1>1, <1>2, <1>3 DEF BookOK

(* A request for blocks asks from height 1 on.                             *)
LEMMA NextRequestOK ==
    ASSUME NEW e \in Entry, e.tip # None, head \in All, resume \in Nat
    PROVE  NextRequest(e).height \in Nat \ {0} /\ NextRequest(e).kind \in {"GetBlock", "GetBlocks"}
<1> DEFINE top == Height(e.tip)
           want == IF e.next > 0 THEN e.next
                   ELSE IF resume > 0 THEN resume
                   ELSE IF top > Height(head) THEN Height(head) + 1 ELSE top
<1>1. top \in Nat /\ Height(head) \in Nat
  BY EntryFields, ChainType DEF All
<1>2. want \in Nat
  <2>1. e.next \in Nat /\ Height(head) + 1 \in Nat
    BY <1>1, EntryFields
  <2> HIDE DEF top
  <2> QED
    BY <1>1, <2>1
<1>3. NextRequest(e) = [kind |-> IF e.step > 0 THEN "GetBlock" ELSE "GetBlocks",
                        height |-> Max({1, Min({want, top})})]
  BY Zenon DEF NextRequest
<1> HIDE DEF top, want
<1>4. Min({want, top}) \in Nat
  BY <1>1, <1>2, MinOfTwo
<1>5. Max({1, Min({want, top})}) \in {1, Min({want, top})} /\ Max({1, Min({want, top})}) >= 1
  <2>1. 1 \in Int /\ Min({want, top}) \in Int
    BY <1>4
  <2> QED
    BY Zenon, <2>1, MaxOfTwo
<1>6. Max({1, Min({want, top})}) \in Nat \ {0}
  BY <1>4, <1>5
<1> QED
  BY <1>3, <1>6

Sequence(s) == \E S : s \in Seq(S)

(* What a message and a request carry.                                     *)
MessageOK(m) ==
    /\ m.from \in Peers
    /\ m.kind = "Status" => m.tip \in Blocks
    /\ m.kind = "NewBlock" => m.block \in Blocks
    /\ m.kind = "BlockResponse" => m.block \in Blocks \cup {None}
    /\ m.kind \in {"BlocksResponse", "Headers"} => m.blocks \in Seq(Blocks)
RequestOK(r) ==
    /\ r.kind \in {"GetBlock", "GetBlocks", "GetHeaders"}
    /\ IF r.kind = "GetHeaders" THEN Sequence(r.locator) ELSE r.height \in Nat \ {0}

QueueOK(q) == Sequence(q) /\ \A i \in 1..Len(q) : RequestOK(q[i])
AskedOK(a) == a = [p \in Peers |-> a[p]] /\ \A p \in Peers : QueueOK(a[p])
InboxOK(q) == Sequence(q) /\ \A i \in 1..Len(q) : MessageOK(q[i])

PinsOK(r) == r \in PinRecord /\ ProofSound(r) /\ IsPath(r.pending)

Inv == PinsOK(cp) /\ InboxOK(inbox) /\ AskedOK(asked)

Books == /\ BookOK(book) /\ resume \in Nat /\ conn \subseteq Peers
         /\ Closed(known, head) /\ broken \in BOOLEAN

-----------------------------------------------------------------------------
(* Queues.                                                                 *)

LEMMA SequenceLen == \A s : Sequence(s) => Len(s) \in Nat /\ (s # <<>> => 1 \in 1..Len(s))
<1> SUFFICES ASSUME NEW s, NEW S, s \in Seq(S)
             PROVE  Len(s) \in Nat /\ (s # <<>> => 1 \in 1..Len(s))
  BY DEF Sequence
<1>1. Len(s) \in Nat /\ (s # <<>> => Len(s) \in Nat \ {0})
  BY LenProperties, EmptySeq
<1> QED
  BY <1>1

LEMMA EmptyOK == QueueOK(<<>>) /\ InboxOK(<<>>)
<1>1. <<>> \in Seq({}) /\ Len(<<>>) = 0
  BY EmptySeq
<1> QED
  BY <1>1 DEF QueueOK, InboxOK, Sequence

LEMMA TailOf ==
    ASSUME NEW s, Sequence(s), s # <<>>
    PROVE  /\ Sequence(Tail(s)) /\ Head(s) = s[1] /\ 1 \in 1..Len(s)
           /\ \A i \in 1..Len(Tail(s)) : Tail(s)[i] = s[i + 1] /\ i + 1 \in 1..Len(s)
<1>1. PICK S : s \in Seq(S)
  BY DEF Sequence
<1>2. /\ Tail(s) \in Seq(S) /\ Len(Tail(s)) = Len(s) - 1
      /\ \A i \in 1..Len(Tail(s)) : Tail(s)[i] = s[i + 1]
  BY <1>1, HeadTailProperties
<1>3. Len(s) \in Nat \ {0}
  BY <1>1, EmptySeq
<1>4. Head(s) = s[1]
  BY <1>1
<1>5. \A i \in 1..Len(Tail(s)) : i + 1 \in 1..Len(s)
  BY <1>2, <1>3
<1> QED
  BY <1>1, <1>2, <1>3, <1>4, <1>5 DEF Sequence

LEMMA ConcatOf ==
    ASSUME NEW s, NEW t, Sequence(s), Sequence(t)
    PROVE  /\ Sequence(s \o t)
           /\ \A i \in 1..Len(s \o t) : \/ i \in 1..Len(s) /\ (s \o t)[i] = s[i]
                                        \/ i - Len(s) \in 1..Len(t) /\ (s \o t)[i] = t[i - Len(s)]
<1>1. PICK S : s \in Seq(S)
  BY DEF Sequence
<1>2. PICK T : t \in Seq(T)
  BY DEF Sequence
<1>3. s \in Seq(S \cup T) /\ t \in Seq(S \cup T)
  BY <1>1, <1>2, SeqMonotonic
<1>4. Len(s) \in Nat /\ Len(t) \in Nat
  BY <1>3, LenProperties
<1>5. /\ s \o t \in Seq(S \cup T) /\ Len(s \o t) = Len(s) + Len(t)
      /\ \A i \in 1..Len(s) + Len(t) :
            (s \o t)[i] = IF i <= Len(s) THEN s[i] ELSE t[i - Len(s)]
  BY <1>3, ConcatProperties
<1>6. ASSUME NEW i \in 1..Len(s \o t)
      PROVE  \/ i \in 1..Len(s) /\ (s \o t)[i] = s[i]
             \/ i - Len(s) \in 1..Len(t) /\ (s \o t)[i] = t[i - Len(s)]
  BY <1>4, <1>5
<1> QED
  BY <1>5, <1>6 DEF Sequence

LEMMA AppendOf ==
    ASSUME NEW s, NEW x, Sequence(s)
    PROVE  /\ Sequence(Append(s, x))
           /\ \A i \in 1..Len(Append(s, x)) : \/ i \in 1..Len(s) /\ Append(s, x)[i] = s[i]
                                              \/ Append(s, x)[i] = x
<1>1. PICK S : s \in Seq(S)
  BY DEF Sequence
<1>2. s \in Seq(S \cup {x}) /\ x \in S \cup {x}
  BY <1>1, SeqMonotonic
<1>3. Len(s) \in Nat
  BY <1>1, LenProperties
<1>4. /\ Append(s, x) \in Seq(S \cup {x}) /\ Len(Append(s, x)) = Len(s) + 1
      /\ \A i \in 1..Len(s) : Append(s, x)[i] = s[i]
      /\ Append(s, x)[Len(s) + 1] = x
  BY <1>2, AppendProperties
<1>5. ASSUME NEW i \in 1..Len(Append(s, x))
      PROVE  (i \in 1..Len(s) /\ Append(s, x)[i] = s[i]) \/ Append(s, x)[i] = x
  BY <1>3, <1>4
<1> QED
  BY <1>4, <1>5 DEF Sequence

LEMMA InboxTail == \A q : InboxOK(q) /\ q # <<>> => InboxOK(Tail(q)) /\ MessageOK(Head(q))
<1> SUFFICES ASSUME NEW q, InboxOK(q), q # <<>> PROVE InboxOK(Tail(q)) /\ MessageOK(Head(q))
  OBVIOUS
<1> QED
  BY TailOf DEF InboxOK

LEMMA InboxConcat == \A q, r : InboxOK(q) /\ InboxOK(r) => InboxOK(q \o r)
<1> SUFFICES ASSUME NEW q, NEW r, InboxOK(q), InboxOK(r) PROVE InboxOK(q \o r)
  OBVIOUS
<1> QED
  BY ConcatOf DEF InboxOK

LEMMA InboxAppend == \A q, m : InboxOK(q) /\ MessageOK(m) => InboxOK(Append(q, m))
<1> SUFFICES ASSUME NEW q, NEW m, InboxOK(q), MessageOK(m) PROVE InboxOK(Append(q, m))
  OBVIOUS
<1>1. Sequence(q) /\ \A i \in 1..Len(q) : MessageOK(q[i])
  BY DEF InboxOK
<1>2. /\ Sequence(Append(q, m))
      /\ \A i \in 1..Len(Append(q, m)) : \/ i \in 1..Len(q) /\ Append(q, m)[i] = q[i]
                                         \/ Append(q, m)[i] = m
  BY <1>1, AppendOf
<1> QED
  BY <1>1, <1>2 DEF InboxOK

LEMMA QueueTail == \A q : QueueOK(q) /\ q # <<>> => QueueOK(Tail(q)) /\ RequestOK(Head(q))
<1> SUFFICES ASSUME NEW q, QueueOK(q), q # <<>> PROVE QueueOK(Tail(q)) /\ RequestOK(Head(q))
  OBVIOUS
<1> QED
  BY TailOf DEF QueueOK

LEMMA QueueAppend == \A q, r : QueueOK(q) /\ RequestOK(r) => QueueOK(Append(q, r))
<1> SUFFICES ASSUME NEW q, NEW r, QueueOK(q), RequestOK(r) PROVE QueueOK(Append(q, r))
  OBVIOUS
<1>1. Sequence(q) /\ \A i \in 1..Len(q) : RequestOK(q[i])
  BY DEF QueueOK
<1>2. /\ Sequence(Append(q, r))
      /\ \A i \in 1..Len(Append(q, r)) : \/ i \in 1..Len(q) /\ Append(q, r)[i] = q[i]
                                         \/ Append(q, r)[i] = r
  BY <1>1, AppendOf
<1> QED
  BY <1>1, <1>2 DEF QueueOK

LEMMA Sends ==
    ASSUME NEW a, AskedOK(a), NEW p, NEW r, RequestOK(r)
    PROVE  AskedOK(Send(a, p, r))
<1>1. CASE Send(a, p, r) = a
  BY <1>1
<1>2. CASE Send(a, p, r) # a
  <2> DEFINE b == [a EXCEPT ![p] = Append(a[p], r)]
  <2>1. Send(a, p, r) = b
    BY <1>2 DEF Send
  <2>2. b = [q \in Peers |-> IF q = p THEN Append(a[p], r) ELSE a[q]]
    BY DEF AskedOK
  <2>3. \A q \in Peers : QueueOK(IF q = p THEN Append(a[p], r) ELSE a[q])
    BY QueueAppend DEF AskedOK
  <2> HIDE DEF b
  <2>4. AskedOK(b)
    BY <2>2, <2>3 DEF AskedOK
  <2> QED
    BY <2>1, <2>4
<1> QED
  BY <1>1, <1>2

LEMMA Cuts == \A S : AskedOK(asked) /\ Cut(S) => AskedOK(asked')
<1> SUFFICES ASSUME NEW S, AskedOK(asked), Cut(S) PROVE AskedOK(asked')
  OBVIOUS
<1>1. asked' = [p \in Peers |-> IF p \in S THEN <<>> ELSE asked[p]]
  BY DEF Cut
<1> QED
  BY <1>1, EmptyOK DEF AskedOK

-----------------------------------------------------------------------------
(* What is asked for and what is served.                                   *)

LEMMA FunctionSequence ==
    ASSUME NEW n \in Nat, NEW f, f = [i \in 1..n |-> f[i]]
    PROVE  Sequence(f) /\ Len(f) = n
<1> DEFINE S == {f[i] : i \in 1..n}
<1>1. f \in [1..n -> S]
  <2>1. \A i \in 1..n : f[i] \in S
    OBVIOUS
  <2> HIDE DEF S
  <2> QED
    BY <2>1
<1> HIDE DEF S
<1>2. f \in Seq(S)
  BY <1>1
<1>3. DOMAIN f = 1..n /\ Len(f) \in Nat /\ DOMAIN f = 1..Len(f)
  BY <1>1, <1>2, LenProperties
<1>4. Len(f) = n
  BY <1>3
<1> QED
  BY <1>2, <1>4 DEF Sequence

LEMMA LocatorOK == \A h : Sequence(BuildLocator(h))
<1> SUFFICES ASSUME NEW h PROVE Sequence(BuildLocator(h))
  OBVIOUS
<1> DEFINE below(i) == IF i = 1 THEN 0 ELSE 2 ^ (i - 2)
           near == {i \in 1 .. LocatorCap - 1 : below(i) < Height(h)}
           n == Cardinality(near)
           f == [i \in 1..n |-> Height(h) - below(i)]
           hs == LocatorHeights(Height(h))
           loc == BuildLocator(h)
<1>1. IsFiniteSet(1 .. LocatorCap - 1)
  BY SyncAssumption, FS_Interval
<1>2. n \in Nat
  BY <1>1, FS_Subset, FS_CardinalityType
<1>3. hs = Append(f, 0)
  BY DEF LocatorHeights
<1>4. Sequence(f)
  <2> HIDE DEF n
  <2>1. f = [i \in 1..n |-> f[i]]
    OBVIOUS
  <2> HIDE DEF f
  <2> QED
    BY <1>2, <2>1, FunctionSequence
<1> HIDE DEF f
<1>5. Sequence(hs)
  BY <1>3, <1>4, AppendOf
<1>6. Len(hs) \in Nat
  BY <1>5, SequenceLen
<1>7. loc = [i \in 1..Len(hs) |-> BlockAt(h, hs[i])]
  BY DEF BuildLocator
<1>8. loc = [i \in 1..Len(hs) |-> loc[i]]
  BY <1>7
<1> HIDE DEF loc, hs
<1>9. Sequence(loc)
  BY <1>6, <1>8, FunctionSequence
<1> QED
  BY <1>9 DEF loc

(* Whatever the locator holds, a peer answers with blocks of its chain.    *)
LEMMA HeadersServed ==
    ASSUME NEW tip \in Blocks, NEW locator, Sequence(locator), NEW stop
    PROVE  HeadersFromForkPoint(tip, locator, stop) \in Seq(Blocks)
<1> DEFINE common == {i \in 1 .. Len(locator) : locator[i] \in Ancestry(tip)}
           fork == IF common = {} THEN 0 ELSE Height(locator[Min(common)])
           upto == Min({Height(tip), fork + HeadersBatch})
           part == SubSeq(Chain[tip], fork + 1, upto)
           last == IF stop \in Range(part) THEN Height(stop) ELSE upto
<1>1. tip \in All /\ Height(tip) \in Nat
  BY ChainType DEF All
<1>2. \A i \in 1..Height(tip) : Chain[tip][i] \in Blocks /\ Height(Chain[tip][i]) = i
  BY <1>1, Prefix DEF PrefixOf
<1>3. fork \in Nat
  <2>1. CASE common = {}
    BY <2>1
  <2>2. CASE common # {}
    <3>1. common \in SUBSET Nat
      BY SequenceLen
    <3>2. \E m \in common : \A k \in common : m <= k
      BY <2>2, <3>1, LeastNat
    <3>3. Min(common) \in common
      BY <3>2 DEF Min
    <3>4. locator[Min(common)] \in Ancestry(tip)
      BY <3>3
    <3>5. Height(locator[Min(common)]) \in Nat
      BY <1>1, <3>4, AncestorFacts, ChainType
    <3> QED
      BY <2>2, <3>5
  <2> QED
    BY <2>1, <2>2
<1> HIDE DEF fork
<1>4. fork + HeadersBatch \in Nat
  BY <1>3, SyncAssumption
<1>5. upto \in Nat /\ upto <= Height(tip)
  BY <1>1, <1>4, MinOfTwo
<1> HIDE DEF upto
<1>6. \A i \in fork + 1 .. upto : i \in 1..Height(tip) /\ Chain[tip][i] \in Blocks
  BY <1>1, <1>2, <1>3, <1>5
<1>7. /\ part \in Seq(Blocks)
      /\ Len(part) = IF fork + 1 <= upto THEN upto - (fork + 1) + 1 ELSE 0
      /\ \A i \in 1 .. upto - (fork + 1) + 1 : part[i] = Chain[tip][fork + 1 + i - 1]
  BY <1>3, <1>5, <1>6, SubSeqProperties
<1> HIDE DEF part
<1>8. last \in Int /\ last <= Height(tip)
  <2>1. CASE stop \in Range(part)
    <3>1. DOMAIN part = 1..Len(part)
      BY <1>7, LenProperties
    <3>2. PICK i \in 1..Len(part) : stop = part[i]
      BY <2>1, <3>1 DEF Range
    <3>3. i \in 1 .. upto - (fork + 1) + 1 /\ fork + 1 + i - 1 \in fork + 1 .. upto
      BY <1>3, <1>5, <1>7, <3>2
    <3>4. stop = Chain[tip][fork + 1 + i - 1]
      BY <1>7, <3>2, <3>3
    <3>5. Height(stop) = fork + 1 + i - 1
      BY <1>2, <1>6, <3>3, <3>4
    <3>6. Height(stop) \in Nat /\ Height(stop) <= Height(tip)
      BY <1>1, <1>6, <3>3, <3>5
    <3> QED
      BY <2>1, <3>6
  <2>2. CASE stop \notin Range(part)
    BY <1>5, <2>2
  <2> QED
    BY <2>1, <2>2
<1> HIDE DEF last
<1>9. \A i \in fork + 1 .. last : Chain[tip][i] \in Blocks
  BY <1>1, <1>2, <1>3, <1>8
<1>10. SubSeq(Chain[tip], fork + 1, last) \in Seq(Blocks)
  BY <1>3, <1>8, <1>9, SubSeqProperties
<1>11. HeadersFromForkPoint(tip, locator, stop) = SubSeq(Chain[tip], fork + 1, last)
  BY DEF HeadersFromForkPoint, last, part, upto, fork
<1> QED
  BY <1>10, <1>11

LEMMA BlocksServed ==
    ASSUME NEW tip \in Blocks, NEW start \in Nat \ {0}
    PROVE  ServeBlocks(tip, start) \in Seq(Blocks)
<1> DEFINE upto == Min({Height(tip), start + Batch - 1})
<1>1. tip \in All /\ Height(tip) \in Nat
  BY ChainType DEF All
<1>2. start + Batch - 1 \in Nat
  BY SyncAssumption
<1>3. upto \in Nat /\ upto <= Height(tip)
  BY <1>1, <1>2, MinOfTwo
<1>4. \A i \in 1..Height(tip) : Chain[tip][i] \in Blocks
  BY <1>1, Prefix DEF PrefixOf
<1> HIDE DEF upto
<1>5. \A i \in start .. upto : Chain[tip][i] \in Blocks
  BY <1>1, <1>3, <1>4
<1>6. SubSeq(Chain[tip], start, upto) \in Seq(Blocks)
  BY <1>3, <1>5, SubSeqProperties
<1> QED
  BY <1>6 DEF ServeBlocks, upto

-----------------------------------------------------------------------------
(* The steps.                                                              *)

LEMMA InitInv == Init => Inv
<1> SUFFICES ASSUME Init PROVE Inv
  OBVIOUS
<1>1. head \in All
  BY SyncAssumption DEF Init, All
<1>2. PICK pins \in {{}, Pinned} : cp = AddCheckpoints(NoPins, head, pins)
  BY DEF Init
<1>3. <<>> \in Seq(All) /\ IsPath(<<>>)
  <2>1. <<>> \in Seq(All) /\ Len(<<>>) = 0
    BY EmptySeq
  <2> QED
    BY <2>1 DEF IsPath
<1>4. NoPins \in PinRecord /\ NoPins.pending = <<>>
  BY <1>3 DEF NoPins, PinRecord
<1>5. pins \in SUBSET All
  BY <1>2, SyncAssumption DEF All
<1>6. cp \in PinRecord /\ cp.pending = NoPins.pending /\ ProofSound(cp)
  BY <1>1, <1>2, <1>4, <1>5, AddFacts
<1>7. inbox = <<>> /\ asked = [p \in Peers |-> <<>>]
  BY DEF Init
<1> QED
  BY <1>3, <1>4, <1>6, <1>7, EmptyOK DEF Inv, PinsOK, AskedOK

LEMMA HandleStep == Inv /\ Handle => Inv'
<1> SUFFICES ASSUME Inv, Handle PROVE Inv'
  OBVIOUS
<1> DEFINE m == Head(inbox)
<1>1. inbox # <<>> /\ inbox' = Tail(inbox)
  BY DEF Handle
<1>2. InboxOK(inbox') /\ MessageOK(m)
  BY <1>1, InboxTail DEF Inv
<1>3. /\ PinsOK(cp') /\ AskedOK(asked')
  <2> USE DEF Inv
  <2>1. CASE UNCHANGED <<cp, asked>>
    BY <2>1
  <2>2. ASSUME UNCHANGED cp, NEW S, Cut(S) PROVE PinsOK(cp') /\ AskedOK(asked')
    BY <2>2, Cuts
  <2>3. ASSUME NEW p, HandleHello(p, m) PROVE PinsOK(cp') /\ AskedOK(asked')
    BY <2>1, <2>2, <2>3 DEF HandleHello
  <2>4. ASSUME NEW p, HandleStatus(p, m) \/ HandleNewBlock(p, m)
        PROVE  PinsOK(cp') /\ AskedOK(asked')
    BY <2>1, <2>4 DEF HandleStatus, HandleNewBlock, NoLinks
  <2>5. CASE Ignore
    BY <2>1, <2>5 DEF Ignore, NoLinks
  <2>6. ASSUME NEW p, NEW bk, m.kind = "Headers", HandleHeaders(p, bk, m.blocks)
        PROVE  PinsOK(cp') /\ AskedOK(asked')
    <3> DEFINE r == ExtendCheckpointLinkage(cp, m.blocks)
    <3>1. m.blocks \in Seq(Blocks)
      BY <1>2, <2>6 DEF MessageOK
    <3>2. PinsOK(r.cp)
      BY <3>1, ExtendFacts DEF PinsOK
    <3>3. cp' = r.cp \/ cp' = cp
      BY <2>6 DEF HandleHeaders
    <3>4. asked' = asked \/ \E S : Cut(S)
      BY <2>6 DEF HandleHeaders, Punish
    <3> QED
      BY <3>2, <3>3, <3>4, Cuts
  <2>7. ASSUME NEW p, HandleReply(p, m) PROVE PinsOK(cp') /\ AskedOK(asked')
    <3> DEFINE bk == [book EXCEPT ![p].replies = Min({@ + 1, MaxReplies + 1})]
    <3>1. \/ UNCHANGED <<cp, asked>>
          \/ UNCHANGED cp /\ Punish(p, InvalidBlockPenalty, TRUE)
          \/ m.kind = "Headers" /\ HandleHeaders(p, bk, m.blocks)
      BY <2>7 DEF HandleReply, NoLinks
    <3>2. Punish(p, InvalidBlockPenalty, TRUE) => \E S : Cut(S)
      BY DEF Punish
    <3> QED
      BY <2>1, <2>2, <2>6, <3>1, <3>2
  <2> QED
    BY <2>3, <2>4, <2>5, <2>7 DEF Handle
<1> QED
  BY <1>2, <1>3 DEF Inv

LEMMA RequestStep == Inv /\ Books /\ RequestMissing => Inv'
<1> SUFFICES ASSUME Inv, Books, RequestMissing PROVE Inv'
  OBVIOUS
<1>1. UNCHANGED <<cp, inbox>>
  BY DEF RequestMissing, chain
<1>2. RequestOK(LinkageRequest)
  <2>1. ASSUME NEW x PROVE Sequence(<<x>>)
    <3>1. <<x>> \in Seq({x})
      OBVIOUS
    <3> QED
      BY <3>1 DEF Sequence
  <2> QED
    BY <2>1 DEF LinkageRequest, RequestOK
<1>3. ASSUME NEW p \in Picks(Struck(Retained)) PROVE RequestOK(NextRequest(Struck(Retained)[p]))
  <2> DEFINE e == Struck(Retained)[p]
  <2>1. p \in Peers /\ e.tip # None
    <3>1. p \in Claimants(Struck(Retained))
      BY Zenon DEF Picks
    <3> QED
      BY <3>1 DEF Claimants, Books
  <2>2. e \in Entry /\ head \in All /\ resume \in Nat
    BY <2>1, RetainedOK DEF Books, BookOK, Closed
  <2> HIDE DEF e
  <2>3. NextRequest(e).height \in Nat \ {0} /\ NextRequest(e).kind \in {"GetBlock", "GetBlocks"}
    BY <2>1, <2>2, NextRequestOK
  <2> QED
    BY <2>3 DEF RequestOK, e
<1> DEFINE link(lp) == lp # None /\ LinkageWanted(lp)
           asked1(lp) == IF link(lp) THEN Send(asked, lp, LinkageRequest) ELSE asked
           conn1 == conn \ StrikeOut(Struck(Retained)).cut
           asked2(lp) == [p \in Peers |-> IF p \in conn1 THEN asked1(lp)[p] ELSE <<>>]
<1>4. PICK lp : \/ asked' = asked1(lp) \/ asked' = asked2(lp)
                \/ \E p \in Picks(Struck(Retained)) :
                      asked' = Send(asked2(lp), p, NextRequest(Struck(Retained)[p]))
  <2>1. PICK lp \in IF conn = {} THEN {None} ELSE conn :
          IF Busy
          THEN asked' = asked1(lp)
          ELSE IF Picks(Struck(Retained)) = {}
               THEN asked' = asked2(lp)
               ELSE \E p \in Picks(Struck(Retained)) :
                      IF p \in conn1
                      THEN asked' = Send(asked2(lp), p, NextRequest(Struck(Retained)[p]))
                      ELSE asked' = asked2(lp)
    <3> HIDE DEF conn1, link
    <3> QED
      BY Zenon DEF RequestMissing, conn1, link
  <2> HIDE DEF asked1, asked2, conn1
  <2> QED
    BY <2>1
<1>5. AskedOK(asked1(lp))
  BY <1>2, Sends DEF Inv
<1> HIDE DEF asked1, conn1
<1>6. AskedOK(asked2(lp))
  BY <1>5, EmptyOK DEF AskedOK
<1> HIDE DEF asked2
<1>7. ASSUME NEW p \in Picks(Struck(Retained))
      PROVE  AskedOK(Send(asked2(lp), p, NextRequest(Struck(Retained)[p])))
  BY <1>3, <1>6, Sends
<1>8. AskedOK(asked')
  BY <1>4, <1>5, <1>6, <1>7
<1> QED
  BY <1>1, <1>8 DEF Inv

LEMMA CollectStep == Inv /\ Collect => Inv'
<1> SUFFICES ASSUME Inv, Collect PROVE Inv'
  OBVIOUS
<1>1. UNCHANGED <<cp, inbox>> /\ ApplyVerifyReport(Head(reports))
  BY DEF Collect, chain
<1>2. \/ asked' = asked \/ \E S : Cut(S)
      \/ \E p : asked' = Send(asked, p, [kind |-> "GetHeaders", locator |-> BuildLocator(head),
                                         stop |-> None])
  BY <1>1 DEF ApplyVerifyReport, Punish
<1>3. RequestOK([kind |-> "GetHeaders", locator |-> BuildLocator(head), stop |-> None])
  BY LocatorOK DEF RequestOK
<1>4. AskedOK(asked')
  BY <1>2, <1>3, Cuts, Sends DEF Inv
<1> QED
  BY <1>1, <1>4 DEF Inv

LEMMA AnswerStep == \A p \in Peers : Inv /\ PeerAnswers(p) => Inv'
<1> SUFFICES ASSUME NEW p \in Peers, Inv, PeerAnswers(p) PROVE Inv'
  OBVIOUS
<1> DEFINE req == Head(asked[p])
           m == Reply(p, req, p \notin Mute)
<1>1. /\ asked[p] # <<>> /\ UNCHANGED cp /\ inbox' = inbox \o <<m>>
      /\ asked' = [asked EXCEPT ![p] = Tail(asked[p])]
  BY DEF PeerAnswers, Arrives, chain
<1>2. QueueOK(Tail(asked[p])) /\ RequestOK(req)
  BY <1>1, QueueTail DEF Inv, AskedOK
<1>3. AskedOK(asked')
  <2>1. asked' = [q \in Peers |-> IF q = p THEN Tail(asked[p]) ELSE asked[q]]
    BY <1>1 DEF Inv, AskedOK
  <2>2. \A q \in Peers : QueueOK(IF q = p THEN Tail(asked[p]) ELSE asked[q])
    BY <1>2 DEF Inv, AskedOK
  <2> QED
    BY <2>1, <2>2 DEF AskedOK
<1>4. MessageOK(m)
  <2>1. Tip[p] \in Blocks
    BY SyncAssumption
  <2>2. ASSUME req.kind = "GetHeaders"
        PROVE  HeadersFromForkPoint(Tip[p], req.locator, req.stop) \in Seq(Blocks)
    BY <1>2, <2>1, <2>2, HeadersServed DEF RequestOK
  <2>3. CASE req.kind = "GetHeaders"
    <3> HIDE DEF req
    <3>1. m = [from |-> p, kind |-> "Headers",
               blocks |-> HeadersFromForkPoint(Tip[p], req.locator, req.stop)]
      BY <2>3 DEF Reply
    <3>2. m.from = p /\ m.kind = "Headers"
          /\ m.blocks = HeadersFromForkPoint(Tip[p], req.locator, req.stop)
      BY <3>1
    <3> HIDE DEF m
    <3> QED
      BY <2>2, <2>3, <3>2 DEF MessageOK
  <2>4. CASE req.kind = "GetBlock"
    <3> HIDE DEF req
    <3>1. m = [from |-> p, kind |-> "BlockResponse",
               block |-> IF p \notin Mute /\ req.height <= Height(Tip[p])
                         THEN BlockAt(Tip[p], req.height) ELSE None]
      BY <2>4 DEF Reply
    <3>2. req.height \in Nat \ {0} /\ Tip[p] \in All /\ Height(Tip[p]) \in Nat
      BY <1>2, <2>1, <2>4, ChainType DEF RequestOK, All
    <3>3. ASSUME req.height <= Height(Tip[p]) PROVE BlockAt(Tip[p], req.height) \in Blocks
      <4>1. req.height \in 1..Height(Tip[p]) /\ req.height # 0
        BY <3>2, <3>3
      <4>2. Chain[Tip[p]][req.height] \in Blocks
        BY <3>2, <4>1, Prefix DEF PrefixOf
      <4> QED
        BY <4>1, <4>2 DEF BlockAt
    <3>4. m.from = p /\ m.kind = "BlockResponse" /\ m.block \in Blocks \cup {None}
      BY <3>1, <3>3
    <3> HIDE DEF m
    <3> QED
      BY <3>4 DEF MessageOK
  <2>5. CASE req.kind = "GetBlocks"
    <3> HIDE DEF req
    <3>1. m = [from |-> p, kind |-> "BlocksResponse",
               blocks |-> IF p \notin Mute THEN ServeBlocks(Tip[p], req.height) ELSE <<>>]
      BY <2>5 DEF Reply
    <3>2. ServeBlocks(Tip[p], req.height) \in Seq(Blocks) /\ <<>> \in Seq(Blocks)
      <4>1. req.height \in Nat \ {0}
        BY <1>2, <2>5 DEF RequestOK
      <4> QED
        BY <2>1, <4>1, BlocksServed, EmptySeq
    <3> DEFINE bs == IF p \notin Mute THEN ServeBlocks(Tip[p], req.height) ELSE <<>>
    <3>4. bs \in Seq(Blocks)
      BY Zenon, <3>2
    <3> HIDE DEF bs
    <3>3. m.from = p /\ m.kind = "BlocksResponse" /\ m.blocks \in Seq(Blocks)
      <4>1. m = [from |-> p, kind |-> "BlocksResponse", blocks |-> bs]
        BY Zenon, <3>1 DEF bs
      <4> HIDE DEF m
      <4> QED
        BY <3>4, <4>1
    <3> HIDE DEF m
    <3> QED
      BY <3>3 DEF MessageOK
  <2> QED
    BY <1>2, <2>3, <2>4, <2>5 DEF RequestOK
<1>5. InboxOK(<<m>>)
  <2> HIDE DEF m
  <2>1. <<m>> = Append(<<>>, m)
    OBVIOUS
  <2> QED
    BY <1>4, <2>1, EmptyOK, InboxAppend
<1>6. InboxOK(inbox')
  BY <1>1, <1>5, InboxConcat DEF Inv
<1> QED
  BY <1>1, <1>3, <1>6 DEF Inv

LEMMA NextStep == Inv /\ Books /\ [Next]_vars => Inv'
<1> SUFFICES ASSUME Inv, Books, [Next]_vars PROVE Inv'
  OBVIOUS
<1> USE DEF chain, net
<1>1. ASSUME UNCHANGED <<cp, inbox, asked>> PROVE Inv'
  BY <1>1 DEF Inv
<1>2. CASE BeginPass \/ CollectDone \/ RequestNothing
  BY <1>1, <1>2 DEF BeginPass, CollectDone, RequestNothing
<1>3. CASE VerifierTakes \/ VerifierImports \/ VerifierReports \/ VerifierDies \/ VerifierPanics
  BY <1>1, <1>3 DEF VerifierTakes, VerifierImports, VerifierReports, VerifierDies, VerifierPanics,
     Importing
<1>4. CASE Expires \/ \E p \in Peers : LinkageExpires(p) \/ StatusExpires(p) \/ BanExpires(p)
  BY <1>1, <1>4 DEF Expires, LinkageExpires, StatusExpires, BanExpires
<1>5. ASSUME NEW p \in Peers, Connect(p) PROVE Inv'
  <2>1. UNCHANGED <<cp, asked>> /\ inbox' = Append(inbox, Hello(p, gen'[p]))
    BY <1>5 DEF Connect
  <2>2. MessageOK(Hello(p, gen'[p]))
    BY DEF MessageOK, Hello
  <2> QED
    BY <2>1, <2>2, InboxAppend DEF Inv
<1>6. ASSUME NEW p \in Peers, Announce(p) PROVE Inv'
  <2> DEFINE h == Hello(p, gen[p])
             t == Status(p)
  <2>1. UNCHANGED <<cp, asked>> /\ inbox' = inbox \o <<h, t>>
    BY <1>6 DEF Announce, Arrives
  <2>2. MessageOK(h) /\ MessageOK(t)
    BY SyncAssumption DEF MessageOK, Hello, Status
  <2> HIDE DEF h, t
  <2>3. <<h, t>> = Append(Append(<<>>, h), t)
    OBVIOUS
  <2>4. InboxOK(Append(Append(<<>>, h), t))
    BY <2>2, EmptyOK, InboxAppend
  <2> QED
    BY <2>1, <2>3, <2>4, InboxConcat DEF Inv
<1>7. ASSUME NEW p \in Peers, Gossip(p) PROVE Inv'
  <2> DEFINE m == [from |-> p, kind |-> "NewBlock", block |-> Tip[p]]
  <2>1. UNCHANGED <<cp, asked>> /\ inbox' = inbox \o <<m>>
    BY <1>7 DEF Gossip, Arrives
  <2>2. MessageOK(m)
    BY SyncAssumption DEF MessageOK
  <2> HIDE DEF m
  <2>3. <<m>> = Append(<<>>, m)
    OBVIOUS
  <2>4. InboxOK(Append(<<>>, m))
    BY <2>2, EmptyOK, InboxAppend
  <2> QED
    BY <2>1, <2>3, <2>4, InboxConcat DEF Inv
<1>8. ASSUME NEW p \in Peers, Drop(p) PROVE Inv'
  <2>1. UNCHANGED <<cp, inbox>> /\ Cut({p})
    BY <1>8 DEF Drop
  <2> QED
    BY <2>1, Cuts DEF Inv
<1>9. CASE UNCHANGED vars
  BY <1>1, <1>9 DEF vars
<1> QED
  BY <1>2, <1>3, <1>4, <1>5, <1>6, <1>7, <1>8, <1>9, HandleStep, RequestStep, CollectStep,
     AnswerStep DEF Next, Worker, Verifier, Environment

QueuedJob == [peer : Peers, mode : Modes, blocks : Seq(Blocks)]
Report == [peer : Peers, mode : Modes, outcome : Outcomes \ {<<>>}]

VerifierOK ==
    /\ jobs \in Seq(QueuedJob) /\ reports \in Seq(Report)
    /\ job = None \/ (job \in Job /\ job.outcome # <<>>)
    /\ alive \in BOOLEAN /\ verifying \in BOOLEAN
    /\ ~alive => job = None /\ jobs = <<>>

(* An import under the node lock keeps the chain closed and never lowers   *)
(* the head.                                                               *)
LEMMA ImportingOK ==
    ASSUME Books, VerifierOK, alive, NEW j \in Job, NEW rest \in Seq(QueuedJob), Importing(j, rest)
    PROVE  /\ Closed(known', head') /\ broken' \in BOOLEAN /\ VerifierOK'
           /\ Height(head') >= Height(head)
           /\ job' \in Job /\ job'.mode = j.mode
<1> DEFINE c0 == [known |-> known, head |-> head, broken |-> broken, outcome |-> j.outcome]
           b == Head(j.blocks)
           n == Height(head)
           c(f) == ImportAndPersist(c0, b, f)
<1>1. PICK fails \in MayFail : /\ known' = c(fails).known /\ head' = c(fails).head
                               /\ broken' = c(fails).broken
                               /\ job' = [j EXCEPT !.blocks = Tail(j.blocks),
                                                   !.outcome = c(fails).outcome]
  BY Zenon DEF Importing
<1>2. j.blocks \in Seq(Blocks) /\ j.blocks # <<>> /\ j.outcome \in Outcomes
  BY DEF Importing, Job, Outcomes
<1>3. b \in Blocks /\ Tail(j.blocks) \in Seq(Blocks)
  BY <1>2, HeadTailProperties
<1>4. fails \in BOOLEAN
  BY <1>1 DEF MayFail
<1>5. head \in All /\ known \in SUBSET All /\ broken \in BOOLEAN /\ Closed(known, head)
  BY DEF Books, Closed
<1>6. n \in Nat /\ n >= n
  BY <1>5, ChainType
<1>7. c0 \in Grown(n)
  <2> HIDE DEF n
  <2> QED
    BY <1>2, <1>5, <1>6 DEF Grown, n
<1> HIDE DEF c0, n, b
<1>8. c(fails) \in Grown(n) /\ c(fails).outcome # <<>>
  BY Zenon, <1>3, <1>4, <1>6, <1>7, ImportGrows
<1> DEFINE d == c(fails)
<1> HIDE DEF c
<1>9. /\ Closed(d.known, d.head) /\ d.broken \in BOOLEAN /\ d.outcome \in Outcomes
      /\ Height(d.head) >= n
  BY <1>8 DEF Grown
<1>10. job' = [j EXCEPT !.blocks = Tail(j.blocks), !.outcome = d.outcome]
  BY Zenon, <1>1
<1>11. known' = d.known /\ head' = d.head /\ broken' = d.broken
  BY Zenon, <1>1
<1>12. job' \in Job /\ job'.mode = j.mode /\ job'.outcome = d.outcome
  <2> HIDE DEF d
  <2> QED
    BY <1>3, <1>9, <1>10 DEF Job, Outcomes
<1>13. jobs' = rest /\ reports' = reports /\ alive' = alive /\ verifying' = verifying
  BY DEF Importing, worker
<1>14. VerifierOK'
  BY Zenon, <1>8, <1>12, <1>13 DEF VerifierOK
<1> HIDE DEF d
<1> QED
  BY Zenon, <1>9, <1>11, <1>12, <1>14 DEF n

LEMMA SubmitOK ==
    ASSUME Books, VerifierOK, NEW p \in Peers, NEW mode \in Modes,
           NEW blocks \in Seq(Blocks), blocks # <<>>,
           SubmitVerify(p, mode, blocks), UNCHANGED <<job, alive>>
    PROVE  Closed(known', head') /\ broken' \in BOOLEAN /\ VerifierOK'
<1>1. CASE alive
  <2> DEFINE q == [peer |-> p, mode |-> mode, blocks |-> blocks]
             room == Len(jobs) < QueueDepth
  <2>1. /\ UNCHANGED <<known, head, broken, reports>>
        /\ jobs' = IF room THEN Append(jobs, q) ELSE jobs
        /\ verifying' = IF mode = "Announced" THEN verifying ELSE room
    BY Zenon, <1>1 DEF SubmitVerify
  <2>2. q \in QueuedJob
    BY DEF QueuedJob
  <2> HIDE DEF q
  <2>3. jobs' \in Seq(QueuedJob)
    BY <2>1, <2>2, AppendProperties DEF VerifierOK
  <2>4. verifying' \in BOOLEAN
    <3>1. room \in BOOLEAN /\ verifying \in BOOLEAN
      BY DEF VerifierOK
    <3>2. verifying' = verifying \/ verifying' = room
      BY Zenon, <2>1
    <3> HIDE DEF room
    <3> QED
      BY Zenon, <3>1, <3>2
  <2>5. VerifierOK'
    BY Zenon, <1>1, <2>1, <2>3, <2>4 DEF VerifierOK
  <2> QED
    BY Zenon, <2>1, <2>5 DEF Books
<1>2. CASE ~alive
  <2>1. PICK f, c : /\ c = RunVerifyJob(blocks, f)
                    /\ known' = c.known /\ head' = c.head
                    /\ broken' = (c.broken \/ f > Len(blocks))
                    /\ reports' = Append(reports, [peer |-> p, mode |-> mode, outcome |-> c.outcome])
                    /\ verifying' = (mode # "Announced" \/ verifying) /\ jobs' = jobs
    BY Zenon, <1>2 DEF SubmitVerify
  <2> DEFINE r == [peer |-> p, mode |-> mode, outcome |-> c.outcome]
  <2>2. c \in Grown(Height(head)) /\ c.outcome # <<>>
    BY Zenon, <2>1, RunGrows DEF Books
  <2>3. /\ Closed(c.known, c.head) /\ c.broken \in BOOLEAN /\ c.outcome \in Outcomes
    BY <2>2 DEF Grown
  <2>4. r \in Report
    BY <2>2, <2>3 DEF Report
  <2> HIDE DEF r
  <2>5. reports' \in Seq(Report)
    <3>1. reports' = Append(reports, r)
      BY Zenon, <2>1 DEF r
    <3> QED
      BY <2>4, <3>1, AppendProperties DEF VerifierOK
  <2>6. VerifierOK'
    BY Zenon, <2>1, <2>5 DEF VerifierOK
  <2>7. broken' \in BOOLEAN
    BY Zenon, <2>1
  <2> QED
    BY Zenon, <2>1, <2>3, <2>6, <2>7
<1> QED
  BY Zenon, <1>1, <1>2 DEF VerifierOK

(* What Handle does to the books.                                          *)
LEMMA HelloBook ==
    ASSUME BookOK(book), NEW p \in Peers, NEW m, HandleHello(p, m)
    PROVE  BookOK(book')
<1>1. CASE p \in conn /\ m.gen = gen[p]
  <2> DEFINE e == [[book[p] EXCEPT !.auth = TRUE] EXCEPT !.headers = p \notin legacy]
  <2>1. book' = [book EXCEPT ![p].auth = TRUE, ![p].headers = p \notin legacy]
    BY Zenon, <1>1 DEF HandleHello
  <2>2. book[p] \in Entry
    BY DEF BookOK
  <2>3. e \in Entry
    <3>1. TRUE \in BOOLEAN /\ (p \notin legacy) \in BOOLEAN
      OBVIOUS
    <3> QED
      BY <2>2, <3>1 DEF Entry
  <2>4. book' = [book EXCEPT ![p] = e]
    BY <2>1 DEF BookOK
  <2> HIDE DEF e
  <2> QED
    BY Zenon, <2>3, <2>4, BookEdit
<1>2. CASE ~(p \in conn /\ m.gen = gen[p])
  <2> DEFINE e == [NoBook EXCEPT !.replies = book[p].replies, !.verified = book[p].verified]
  <2>1. book' = [book EXCEPT ![p] = e]
    BY Zenon, <1>2 DEF HandleHello
  <2>2. book[p] \in Entry
    BY DEF BookOK
  <2>3. book[p].replies \in Nat /\ book[p].verified \in Nat
    BY <2>2, EntryFields
  <2>4. e \in Entry
    BY <2>3, NoBookOK DEF Entry
  <2> HIDE DEF e
  <2> QED
    BY Zenon, <2>1, <2>4, BookEdit
<1> QED
  BY Zenon, <1>1, <1>2

LEMMA StatusBook ==
    ASSUME BookOK(book), head \in All, NEW p \in Peers, NEW m, m.tip \in Blocks, HandleStatus(p, m)
    PROVE  BookOK(book')
<1> DEFINE b == [book[p] EXCEPT !.tip = m.tip, !.fresh = TRUE]
           start == IF Height(m.tip) > Height(head) THEN Height(head) + 1 ELSE Height(m.tip)
           next == IF poisoned THEN b.next
                   ELSE IF m.tip = head THEN 0
                   ELSE IF Height(m.tip) > Height(head) /\ b.next = 0 THEN start
                   ELSE b.next
<1>1. book[p] \in Entry
  BY DEF BookOK
<1>2. b \in Entry
  <2>1. TRUE \in BOOLEAN
    OBVIOUS
  <2> QED
    BY <1>1, <2>1 DEF Entry
<1>3. book' = [book EXCEPT ![p] = [b EXCEPT !.next = next]]
  BY Zenon DEF HandleStatus
<1> HIDE DEF b
<1>4. start \in Nat
  BY ChainType DEF All
<1> HIDE DEF start
<1>5. b.next \in Nat
  BY Zenon, <1>2, EntryFields
<1>6. next \in Nat
  <2>1. next = 0 \/ next = start \/ next = b.next
    BY Zenon
  <2> HIDE DEF next
  <2> QED
    BY <1>4, <1>5, <2>1
<1> HIDE DEF next
<1> QED
  BY Zenon, <1>2, <1>3, <1>6, EntryEdits, BookEdit

RepliesOf(p) == [book EXCEPT ![p].replies = Min({@ + 1, MaxReplies + 1})]

LEMMA RepliesBook ==
    ASSUME BookOK(book), NEW p \in Peers
    PROVE  BookOK(RepliesOf(p))
<1> DEFINE n == Min({book[p].replies + 1, MaxReplies + 1})
           e == [book[p] EXCEPT !.replies = n]
<1>1. book[p] \in Entry
  BY DEF BookOK
<1>2. book[p].replies + 1 \in Nat /\ MaxReplies + 1 \in Nat
  BY <1>1, EntryFields, SyncAssumption
<1>3. n \in Nat
  BY <1>2, MinOfTwo
<1>4. RepliesOf(p) = [book EXCEPT ![p] = e]
  BY DEF RepliesOf
<1> HIDE DEF n
<1>5. e \in Entry
  BY Zenon, <1>1, <1>3, EntryEdits
<1> HIDE DEF e
<1> QED
  <2>1. BookOK([book EXCEPT ![p] = e])
    BY <1>5, BookEdit
  <2> QED
    BY Zenon, <1>4, <2>1

LEMMA HeadersBook ==
    ASSUME NEW p \in Peers, NEW bk, BookOK(bk), NEW hs \in Seq(Blocks), HandleHeaders(p, bk, hs)
    PROVE  BookOK(book')
<1> DEFINE e == bk[p]
           n == Height(Prev[hs[1]]) + 1
           k == Max({e.next - 1, 1})
<1>1. e \in Entry /\ e.next \in Nat
  <2>1. bk[p] \in Entry
    BY DEF BookOK
  <2> HIDE DEF e
  <2> QED
    BY <2>1, EntryFields DEF e
<1>2. \/ book' = bk
      \/ AttachesAt(hs) /\ book' = [bk EXCEPT ![p] = [e EXCEPT !.step = 0, !.next = n]]
      \/ e.next > 0 /\ book' = [bk EXCEPT ![p] = [e EXCEPT !.next = k, !.step = 1]]
      \/ book' = [bk EXCEPT ![p] = e]
  <2> DEFINE e1 == [bk[p] EXCEPT !.step = 0, !.next = n]
             e2 == [bk[p] EXCEPT !.next = k, !.step = 1]
  <2>1. \/ book' = bk
        \/ book' = [bk EXCEPT ![p] = IF AttachesAt(hs) THEN e1
                                     ELSE IF bk[p].next > 0 THEN e2 ELSE bk[p]]
    BY Zenon DEF HandleHeaders
  <2> HIDE DEF e1, e2
  <2>2. \/ book' = bk
        \/ AttachesAt(hs) /\ book' = [bk EXCEPT ![p] = e1]
        \/ bk[p].next > 0 /\ book' = [bk EXCEPT ![p] = e2]
        \/ book' = [bk EXCEPT ![p] = bk[p]]
    <3>1. CASE AttachesAt(hs)
      BY Zenon, <2>1, <3>1
    <3>2. CASE ~AttachesAt(hs) /\ bk[p].next > 0
      BY Zenon, <2>1, <3>2
    <3>3. CASE ~AttachesAt(hs) /\ ~(bk[p].next > 0)
      BY Zenon, <2>1, <3>3
    <3> QED
      BY Zenon, <3>1, <3>2, <3>3
  <2> QED
    BY Zenon, <2>2 DEF e1, e2
<1>3. AttachesAt(hs) => n \in Nat
  <2> SUFFICES ASSUME AttachesAt(hs) PROVE n \in Nat
    OBVIOUS
  <2>1. hs # <<>>
    BY Zenon DEF AttachesAt
  <2>2. hs[1] \in Blocks
    BY <2>1, EmptySeq, LenProperties, ElementOfSeq
  <2>3. Height(Prev[hs[1]]) \in Nat
    BY <2>2, ChainStep
  <2> QED
    BY <2>3
<1>4. k \in Nat
  <2>1. e.next - 1 \in Int /\ 1 \in Int
    BY <1>1
  <2>2. k \in {e.next - 1, 1} /\ k >= 1
    BY Zenon, <2>1, MaxOfTwo
  <2> QED
    BY <2>1, <2>2
<1> HIDE DEF e, n, k
<1>5. n \in Nat => [e EXCEPT !.step = 0, !.next = n] \in Entry
  BY <1>1 DEF Entry
<1>6. [e EXCEPT !.next = k, !.step = 1] \in Entry
  BY <1>1, <1>4 DEF Entry
<1>7. CASE book' = bk
  BY Zenon, <1>7
<1>8. CASE AttachesAt(hs) /\ book' = [bk EXCEPT ![p] = [e EXCEPT !.step = 0, !.next = n]]
  <2>1. [e EXCEPT !.step = 0, !.next = n] \in Entry
    BY Zenon, <1>3, <1>5, <1>8
  <2> QED
    BY Zenon, <1>8, <2>1, BookEdit
<1>9. CASE book' = [bk EXCEPT ![p] = [e EXCEPT !.next = k, !.step = 1]]
  BY Zenon, <1>6, <1>9, BookEdit
<1>10. CASE book' = [bk EXCEPT ![p] = e]
  BY Zenon, <1>1, <1>10, BookEdit
<1> QED
  BY Zenon, <1>2, <1>7, <1>8, <1>9, <1>10

Types == Books /\ VerifierOK

LEMMA QuietTypes ==
    ASSUME Types, BookOK(book'), resume' \in Nat, conn' \subseteq Peers,
           UNCHANGED <<known, head, broken, jobs, job, reports, alive, verifying>>
    PROVE  Types'
<1>1. Closed(known', head') /\ broken' \in BOOLEAN
  BY Zenon DEF Types, Books
<1>2. VerifierOK'
  BY Zenon DEF Types, VerifierOK
<1> QED
  BY Zenon, <1>1, <1>2 DEF Types, Books

LEMMA SubmitTypes ==
    ASSUME Types, BookOK(book'), UNCHANGED <<resume, conn, job, alive>>,
           NEW p \in Peers, NEW mode \in Modes, NEW blocks \in Seq(Blocks), blocks # <<>>,
           SubmitVerify(p, mode, blocks)
    PROVE  Types'
<1>1. Books /\ VerifierOK
  BY Zenon DEF Types
<1>2. Closed(known', head') /\ broken' \in BOOLEAN /\ VerifierOK'
  BY Zenon, <1>1, SubmitOK
<1>3. resume' \in Nat /\ conn' \subseteq Peers
  BY Zenon, <1>1 DEF Books
<1> QED
  BY Zenon, <1>2, <1>3 DEF Types, Books

LEMMA CutConn == \A S : conn \subseteq Peers /\ Cut(S) => conn' \subseteq Peers
  BY DEF Cut

LEMMA SingleBlock == \A b \in Blocks : <<b>> \in Seq(Blocks) /\ <<b>> # <<>>
  OBVIOUS

LEMMA ReplyTypes ==
    ASSUME Types, NEW p \in Peers, NEW m, MessageOK(m), IsReply(m), HandleReply(p, m),
           UNCHANGED <<resume, job, alive>>
    PROVE  Types'
<1> DEFINE bk == RepliesOf(p)
<1>1. /\ BookOK(book) /\ BookOK(bk) /\ resume' \in Nat /\ conn \subseteq Peers
  <2>1. BookOK(book) /\ resume \in Nat /\ conn \subseteq Peers
    BY Zenon DEF Types, Books
  <2> QED
    BY Zenon, <2>1, RepliesBook
<1>2. \/ book' = bk /\ Punish(p, InvalidBlockPenalty, TRUE) /\ NoVerify
      \/ m.kind = "Headers" /\ HandleHeaders(p, bk, m.blocks)
      \/ /\ m.kind = "BlockResponse" /\ ~Empty(m)
         /\ SubmitVerify(p, "Backtrack", <<m.block>>) /\ book' = bk /\ NoLinks
      \/ /\ m.kind = "BlocksResponse" /\ ~Empty(m)
         /\ SubmitVerify(p, "Batch", m.blocks) /\ book' = bk /\ NoLinks
      \/ /\ NoVerify /\ NoLinks
         /\ book' = [bk EXCEPT ![p].next = IF m.kind = "BlocksResponse" THEN 0 ELSE @]
  BY Zenon DEF HandleReply, RepliesOf
<1> HIDE DEF bk
<1>3. CASE book' = bk /\ Punish(p, InvalidBlockPenalty, TRUE) /\ NoVerify
  <2>1. conn' \subseteq Peers
    BY Zenon, <1>1, <1>3, CutConn DEF Punish
  <2>2. BookOK(book')
    BY Zenon, <1>1, <1>3
  <2> QED
    BY Zenon, <1>1, <1>3, <2>1, <2>2, QuietTypes DEF NoVerify
<1>4. CASE m.kind = "Headers" /\ HandleHeaders(p, bk, m.blocks)
  <2>1. m.blocks \in Seq(Blocks)
    BY <1>4 DEF MessageOK
  <2>2. BookOK(book')
    BY Zenon, <1>1, <1>4, <2>1, HeadersBook
  <2>3. NoVerify /\ (conn' = conn \/ \E S : Cut(S))
    BY Zenon, <1>4 DEF HandleHeaders, Punish
  <2>4. conn' \subseteq Peers
    BY Zenon, <1>1, <2>3, CutConn
  <2> QED
    BY Zenon, <1>1, <2>2, <2>3, <2>4, QuietTypes DEF NoVerify
<1>5. CASE /\ m.kind = "BlockResponse" /\ ~Empty(m)
           /\ SubmitVerify(p, "Backtrack", <<m.block>>) /\ book' = bk /\ NoLinks
  <2>1. m.block \in Blocks
    BY <1>5 DEF MessageOK, Empty
  <2>2. "Backtrack" \in Modes
    BY DEF Modes
  <2>3. BookOK(book') /\ conn' = conn
    BY Zenon, <1>1, <1>5 DEF NoLinks
  <2>4. <<m.block>> \in Seq(Blocks) /\ <<m.block>> # <<>>
    BY Zenon, <2>1, SingleBlock
  <2> QED
    BY Zenon, <1>5, <2>2, <2>3, <2>4, SubmitTypes
<1>6. CASE /\ m.kind = "BlocksResponse" /\ ~Empty(m)
           /\ SubmitVerify(p, "Batch", m.blocks) /\ book' = bk /\ NoLinks
  <2>1. m.blocks \in Seq(Blocks) /\ m.blocks # <<>>
    BY <1>6 DEF MessageOK, Empty
  <2>2. "Batch" \in Modes
    BY DEF Modes
  <2>3. BookOK(book') /\ conn' = conn
    BY Zenon, <1>1, <1>6 DEF NoLinks
  <2> QED
    BY Zenon, <1>6, <2>1, <2>2, <2>3, SubmitTypes
<1>7. CASE /\ NoVerify /\ NoLinks
           /\ book' = [bk EXCEPT ![p].next = IF m.kind = "BlocksResponse" THEN 0 ELSE @]
  <2> DEFINE n == IF m.kind = "BlocksResponse" THEN 0 ELSE bk[p].next
             e == [bk[p] EXCEPT !.next = n]
  <2>1. bk[p] \in Entry
    BY <1>1 DEF BookOK
  <2>2. bk[p].next \in Nat
    BY Zenon, <2>1, EntryFields
  <2>3. n \in Nat
    BY <2>2
  <2>4. book' = [bk EXCEPT ![p] = e]
    BY <1>7
  <2> HIDE DEF n
  <2>5. e \in Entry
    BY Zenon, <2>1, <2>3, EntryEdits
  <2> HIDE DEF e
  <2>6. BookOK([bk EXCEPT ![p] = e])
    BY Zenon, <1>1, <2>5, BookEdit
  <2>7. BookOK(book') /\ conn' \subseteq Peers
    BY Zenon, <1>1, <1>7, <2>4, <2>6 DEF NoLinks
  <2> QED
    BY Zenon, <1>1, <1>7, <2>7, QuietTypes DEF NoVerify
<1> QED
  BY Zenon, <1>2, <1>3, <1>4, <1>5, <1>6, <1>7

LEMMA HandleTypes == Inv /\ Types /\ Handle => Types'
<1> SUFFICES ASSUME Inv, Types, Handle PROVE Types'
  OBVIOUS
<1> DEFINE m == Head(inbox)
           p == m.from
<1>1. inbox # <<>> /\ UNCHANGED <<resume, job, alive>>
  BY DEF Handle
<1>2. MessageOK(m) /\ p \in Peers
  BY <1>1, InboxTail DEF Inv, MessageOK
<1>3. BookOK(book) /\ resume' \in Nat /\ conn \subseteq Peers /\ head \in All
  BY <1>1 DEF Types, Books, Closed
<1>4. \/ HandleHello(p, m) \/ Ignore
      \/ m.kind = "Status" /\ HandleStatus(p, m)
      \/ m.kind = "NewBlock" /\ HandleNewBlock(p, m)
      \/ IsReply(m) /\ HandleReply(p, m)
  BY Zenon DEF Handle
<1> HIDE DEF m, p
<1>5. CASE HandleHello(p, m)
  <2>1. BookOK(book')
    BY Zenon, <1>2, <1>3, <1>5, HelloBook
  <2>2. NoVerify /\ (conn' = conn \/ \E S : Cut(S))
    BY Zenon, <1>5 DEF HandleHello
  <2>3. conn' \subseteq Peers
    BY Zenon, <1>3, <2>2, CutConn
  <2> QED
    BY Zenon, <1>1, <1>3, <2>1, <2>2, <2>3, QuietTypes DEF NoVerify
<1>6. CASE Ignore
  <2>1. NoVerify /\ BookOK(book') /\ conn' \subseteq Peers
    BY Zenon, <1>3, <1>6 DEF Ignore, NoLinks
  <2> QED
    BY Zenon, <1>1, <1>3, <2>1, QuietTypes DEF NoVerify
<1>7. CASE m.kind = "Status" /\ HandleStatus(p, m)
  <2>1. m.tip \in Blocks
    BY Zenon, <1>2, <1>7 DEF MessageOK
  <2>2. BookOK(book')
    BY Zenon, <1>2, <1>3, <1>7, <2>1, StatusBook
  <2>3. NoVerify /\ conn' \subseteq Peers
    BY Zenon, <1>3, <1>7 DEF HandleStatus, NoLinks
  <2> QED
    BY Zenon, <1>1, <1>3, <2>2, <2>3, QuietTypes DEF NoVerify
<1>8. CASE m.kind = "NewBlock" /\ HandleNewBlock(p, m)
  <2>1. m.block \in Blocks
    BY Zenon, <1>2, <1>8 DEF MessageOK
  <2>2. <<m.block>> \in Seq(Blocks) /\ <<m.block>> # <<>>
    BY Zenon, <2>1, SingleBlock
  <2>3. "Announced" \in Modes
    BY DEF Modes
  <2>4. SubmitVerify(p, "Announced", <<m.block>>) /\ BookOK(book') /\ conn' = conn
    BY Zenon, <1>3, <1>8 DEF HandleNewBlock, NoLinks
  <2> QED
    BY Zenon, <1>1, <1>2, <2>2, <2>3, <2>4, SubmitTypes
<1>9. CASE IsReply(m) /\ HandleReply(p, m)
  BY Zenon, <1>1, <1>2, <1>9, ReplyTypes
<1> QED
  BY Zenon, <1>4, <1>5, <1>6, <1>7, <1>8, <1>9

(* The heights a report names.                                             *)
LEMMA ReportedHeights ==
    ASSUME NEW out \in Outcomes, NEW tags
    PROVE  LET S == {o[1] : o \in {q \in Range(out) : q[2] \in tags}}
           IN  S # {} => Max(S) \in Nat
<1> DEFINE S == {o[1] : o \in {q \in Range(out) : q[2] \in tags}}
           I == {i \in 1..Len(out) : out[i][2] \in tags}
           rank == [i \in I |-> out[i][1]]
<1>1. DOMAIN out = 1..Len(out) /\ Len(out) \in Nat /\ \A i \in 1..Len(out) : out[i] \in Nat \X ImportOutcome
  BY LenProperties, ElementOfSeq DEF Outcomes
<1>2. Range(out) = {out[i] : i \in 1..Len(out)}
  BY Zenon, <1>1 DEF Range
<1>3. S = {out[i][1] : i \in I}
  BY Zenon, <1>2
<1>4. \A i \in I : out[i][1] \in Nat
  BY <1>1
<1>5. IsFiniteSet(I)
  <2>1. IsFiniteSet(1..Len(out))
    BY <1>1, FS_Interval
  <2>2. I \in SUBSET (1..Len(out))
    BY Zenon
  <2> QED
    BY Zenon, <2>1, <2>2, FS_Subset
<1> HIDE DEF I
<1>6. rank \in [I -> Nat] /\ \A i \in I : rank[i] = out[i][1]
  BY <1>4
<1>7. S = {rank[i] : i \in I}
  <2> HIDE DEF rank, S
  <2> QED
    BY Zenon, <1>3, <1>6
<1>8. S # {} => I # {}
  BY Zenon, <1>3
<1> HIDE DEF rank, S
<1>9. ASSUME S # {} PROVE Max(S) \in Nat
  <2>1. I # {} /\ rank \in [I -> Nat]
    BY Zenon, <1>6, <1>8, <1>9
  <2> QED
    BY <1>5, <1>7, <2>1, MaxOfImage
<1> QED
  BY Zenon, <1>9 DEF S

LEMMA CreditedOK ==
    ASSUME NEW e \in Entry, NEW r \in Report
    PROVE  Credited(e, r) \in Entry
<1> DEFINE stored == {o[1] : o \in {q \in Range(r.outcome) : q[2] \in {"New", "SideBranch"}}}
           top == IF stored = {} THEN 0 ELSE Max(stored)
           grown == r.mode # "Announced" /\ top > e.verified
           new == \E o \in Range(r.outcome) : o[2] = "New"
           s == IF new THEN 0 ELSE e.strikes
           n == IF new \/ grown THEN 0 ELSE e.replies
           v == IF grown THEN top ELSE e.verified
<1>1. r.outcome \in Outcomes
  BY DEF Report
<1>2. stored # {} => Max(stored) \in Nat
  BY Zenon, <1>1, ReportedHeights
<1>3. Credited(e, r) = [e EXCEPT !.strikes = s, !.replies = n, !.verified = v]
  BY Zenon DEF Credited
<1>4. e.strikes \in Nat /\ e.replies \in Nat /\ e.verified \in Nat
  BY Zenon, EntryFields
<1> HIDE DEF stored, new
<1>5. top \in Nat
  BY <1>2
<1> HIDE DEF top, grown
<1>6. s \in Nat /\ n \in Nat /\ v \in Nat
  BY <1>4, <1>5
<1> HIDE DEF s, n, v
<1> QED
  BY <1>3, <1>6 DEF Entry

LEMMA CursorsOK ==
    ASSUME NEW e \in Entry, NEW n \in Nat, NEW k \in Nat
    PROVE  /\ [e EXCEPT !.next = n, !.step = k] \in Entry
           /\ NoCursor(e) \in Entry
           /\ AdvanceOrDone([e EXCEPT !.step = 0], n) \in Entry
<1>1. [e EXCEPT !.next = n, !.step = k] \in Entry /\ NoCursor(e) \in Entry
  BY DEF Entry, NoCursor
<1> DEFINE f == [e EXCEPT !.step = 0]
           h == IF f.tip # None /\ n < Height(f.tip) THEN n + 1 ELSE 0
<1>2. f \in Entry
  BY DEF Entry
<1>3. h \in Nat
  <2> HIDE DEF f
  <2> QED
    OBVIOUS
<1>4. AdvanceOrDone(f, n) = [f EXCEPT !.next = h]
  BY Zenon DEF AdvanceOrDone
<1> HIDE DEF f, h
<1>5. AdvanceOrDone(f, n) \in Entry
  BY Zenon, <1>2, <1>3, <1>4, EntryEdits
<1> QED
  BY Zenon, <1>1, <1>5 DEF f

LEMMA WalkBack ==
    ASSUME NEW e \in Entry, NEW h \in Nat
    PROVE  /\ Max({h - Max({e.step, 1}), 1}) \in Nat
           /\ Min({2 * Max({e.step, 1}), BacktrackCap}) \in Nat
           /\ Max({h - 1, 1}) \in Nat
<1> DEFINE w == Max({e.step, 1})
<1>1. e.step \in Nat
  BY Zenon, EntryFields
<1>2. w \in Nat
  <2>1. e.step \in Int /\ 1 \in Int
    BY <1>1
  <2>2. w \in {e.step, 1}
    BY Zenon, <2>1, MaxOfTwo
  <2> QED
    BY <1>1, <2>2
<1> HIDE DEF w
<1>3. ASSUME NEW x \in Int PROVE Max({x, 1}) \in Nat
  <2>1. Max({x, 1}) \in {x, 1} /\ Max({x, 1}) >= 1
    BY 1 \in Int, MaxOfTwo
  <2> QED
    BY <2>1
<1>4. h - w \in Int /\ h - 1 \in Int /\ 2 * w \in Nat /\ BacktrackCap \in Nat
  BY <1>2, SyncAssumption
<1>5. Min({2 * w, BacktrackCap}) \in Nat
  BY Zenon, <1>4, MinOfTwo
<1> QED
  BY Zenon, <1>3, <1>4, <1>5 DEF w

(* apply_verify_report on the books.                                       *)
LEMMA ReportBook ==
    ASSUME BookOK(book), resume \in Nat, NEW r \in Report, ApplyVerifyReport(r)
    PROVE  BookOK(book') /\ resume' \in Nat
<1> DEFINE p == r.peer
           b == Credited(book[p], r)
           ok == {o[1] : o \in {q \in Range(r.outcome) : q[2] \in Accepted}}
           h == r.outcome[1][1]
           walk == Max({b.step, 1})
<1>1. p \in Peers /\ r.outcome \in Outcomes /\ r.outcome # <<>>
  BY DEF Report
<1>2. b \in Entry
  <2>1. book[p] \in Entry
    BY <1>1 DEF BookOK
  <2> QED
    BY Zenon, <2>1, CreditedOK
<1>3. ok # {} => Max(ok) \in Nat
  BY Zenon, <1>1, ReportedHeights
<1>4. h \in Nat
  <2>1. r.outcome[1] \in Nat \X ImportOutcome
    BY <1>1, EmptySeq, LenProperties, ElementOfSeq DEF Outcomes
  <2> QED
    BY <2>1
<1>5. /\ \/ book' = [book EXCEPT ![p] = b]
         \/ book' = [book EXCEPT ![p] = NoCursor(b)]
         \/ ok # {} /\ book' = [book EXCEPT ![p] = AdvanceOrDone([b EXCEPT !.step = 0], Max(ok))]
         \/ book' = [book EXCEPT ![p] = [b EXCEPT !.next = Max({h - walk, 1}),
                                                  !.step = Min({2 * walk, BacktrackCap})]]
         \/ book' = [book EXCEPT ![p] = [b EXCEPT !.next = Max({h - 1, 1}), !.step = 1]]
      /\ resume' = resume \/ (ok # {} /\ resume' = Max(ok) + 1)
  BY Zenon DEF ApplyVerifyReport, Rebook
<1> HIDE DEF b, ok, h, p
<1>6. Max({h - walk, 1}) \in Nat /\ Min({2 * walk, BacktrackCap}) \in Nat /\ Max({h - 1, 1}) \in Nat
  BY Zenon, <1>2, <1>4, WalkBack
<1> HIDE DEF walk
<1>7. resume' \in Nat
  BY <1>3, <1>5
<1>8. \E e \in Entry : book' = [book EXCEPT ![p] = e]
  <2>1. NoCursor(b) \in Entry
    BY Zenon, <1>2, <1>4, CursorsOK
  <2>2. ok # {} => AdvanceOrDone([b EXCEPT !.step = 0], Max(ok)) \in Entry
    BY Zenon, <1>2, <1>3, <1>4, CursorsOK
  <2>3. [b EXCEPT !.next = Max({h - walk, 1}), !.step = Min({2 * walk, BacktrackCap})] \in Entry
    BY Zenon, <1>2, <1>6, CursorsOK
  <2>4. [b EXCEPT !.next = Max({h - 1, 1}), !.step = 1] \in Entry
    BY <1>2, <1>6, 1 \in Nat, CursorsOK
  <2> QED
    BY Zenon, <1>2, <1>5, <2>1, <2>2, <2>3, <2>4
<1>9. BookOK(book')
  <2>1. PICK e \in Entry : book' = [book EXCEPT ![p] = e]
    BY Zenon, <1>8
  <2>2. BookOK([book EXCEPT ![p] = e])
    BY Zenon, BookEdit
  <2> QED
    BY Zenon, <2>1, <2>2
<1> QED
  BY Zenon, <1>7, <1>9

LEMMA CollectTypes == Types /\ Collect => Types'
<1> SUFFICES ASSUME Types, Collect PROVE Types'
  OBVIOUS
<1> DEFINE r == Head(reports)
<1>1. /\ reports # <<>> /\ verifying' = (verifying /\ r.mode = "Announced")
      /\ ApplyVerifyReport(r) /\ reports' = Tail(reports)
      /\ UNCHANGED <<known, head, broken, jobs, job, alive>>
  BY DEF Collect, chain
<1>2. BookOK(book) /\ resume \in Nat /\ conn \subseteq Peers /\ reports \in Seq(Report)
  BY Zenon DEF Types, Books, VerifierOK
<1>3. r \in Report /\ Tail(reports) \in Seq(Report)
  BY <1>1, <1>2, HeadTailProperties
<1> HIDE DEF r
<1>4. BookOK(book') /\ resume' \in Nat
  BY Zenon, <1>1, <1>2, <1>3, ReportBook
<1>5. conn' = conn \/ \E S : Cut(S)
  BY Zenon, <1>1 DEF ApplyVerifyReport, Punish
<1>6. conn' \subseteq Peers
  BY Zenon, <1>2, <1>5, CutConn
<1>7. verifying' \in BOOLEAN
  BY Zenon, <1>1
<1>8. VerifierOK'
  BY Zenon, <1>1, <1>3, <1>7 DEF Types, VerifierOK
<1>9. Closed(known', head') /\ broken' \in BOOLEAN
  BY Zenon, <1>1 DEF Types, Books
<1> QED
  BY Zenon, <1>4, <1>6, <1>8, <1>9 DEF Types, Books

LEMMA RequestTypes == Types /\ RequestMissing => Types'
<1> SUFFICES ASSUME Types, RequestMissing PROVE Types'
  OBVIOUS
<1>1. /\ book' = Retained \/ book' = Struck(Retained)
      /\ conn' = conn \/ conn' = conn \ StrikeOut(Struck(Retained)).cut
  BY Zenon DEF RequestMissing
<1>2. BookOK(book) /\ resume \in Nat /\ conn \subseteq Peers
  BY Zenon DEF Types, Books
<1>3. BookOK(book')
  BY Zenon, <1>1, <1>2, RetainedOK
<1>4. conn' \subseteq Peers
  BY <1>1, <1>2
<1>5. UNCHANGED <<resume, known, head, broken, jobs, job, reports, alive, verifying>>
  BY Zenon DEF RequestMissing, chain, verifier
<1> QED
  BY Zenon, <1>2, <1>3, <1>4, <1>5, QuietTypes

LEMMA CollectDoneTypes == Types /\ CollectDone => Types'
<1> SUFFICES ASSUME Types, CollectDone PROVE Types'
  OBVIOUS
<1>1. /\ UNCHANGED <<known, head, broken, book, resume, jobs, job, reports, conn>>
      /\ IF verifying /\ ~alive THEN verifying' = FALSE /\ alive' = TRUE
         ELSE UNCHANGED <<verifying, alive>>
  BY Zenon DEF CollectDone, chain, net
<1>2. VerifierOK'
  <2>1. CASE verifying /\ ~alive
    <3>1. verifying' \in BOOLEAN /\ alive' \in BOOLEAN /\ alive'
      BY Zenon, <1>1, <2>1
    <3> QED
      BY Zenon, <1>1, <3>1 DEF Types, VerifierOK
  <2>2. CASE ~(verifying /\ ~alive)
    BY Zenon, <1>1, <2>2 DEF Types, VerifierOK
  <2> QED
    BY Zenon, <2>1, <2>2
<1>3. Books'
  BY Zenon, <1>1 DEF Types, Books
<1> QED
  BY Zenon, <1>2, <1>3 DEF Types

(* Both forms of an import on the verifier thread.                         *)
LEMMA TakesJob ==
    ASSUME VerifierOK, jobs # <<>>
    PROVE  /\ Head(jobs) \in QueuedJob /\ Tail(jobs) \in Seq(QueuedJob)
           /\ LET j == Head(jobs)
              IN  [peer |-> j.peer, mode |-> j.mode, blocks |-> j.blocks, outcome |-> <<>>] \in Job
<1>1. Head(jobs) \in QueuedJob /\ Tail(jobs) \in Seq(QueuedJob)
  BY HeadTailProperties DEF VerifierOK
<1> DEFINE j == Head(jobs)
<1> HIDE DEF j
<1>2. j \in QueuedJob /\ <<>> \in Seq(Nat \X ImportOutcome)
  BY <1>1, EmptySeq DEF j
<1>3. [peer |-> j.peer, mode |-> j.mode, blocks |-> j.blocks, outcome |-> <<>>] \in Job
  BY <1>2 DEF Job, QueuedJob, Modes
<1> QED
  BY Zenon, <1>1, <1>3 DEF j

LEMMA ImportTypes ==
    ASSUME Types, VerifierTakes \/ VerifierImports
    PROVE  /\ Types' /\ Height(head') >= Height(head) /\ job' \in Job
           /\ UNCHANGED <<book, inflight, verifying, reports, alive, pc, behind>>
<1>1. Books /\ VerifierOK
  BY Zenon DEF Types
<1>2. PICK j \in Job, rest \in Seq(QueuedJob) : alive /\ Importing(j, rest)
  <2>1. CASE VerifierTakes
    BY Zenon, <1>1, <2>1, TakesJob DEF VerifierTakes
  <2>2. CASE VerifierImports
    BY Zenon, <1>1, <2>2 DEF VerifierImports, VerifierOK
  <2> QED
    BY Zenon, <2>1, <2>2
<1>3. /\ Closed(known', head') /\ broken' \in BOOLEAN /\ VerifierOK' /\ job' \in Job
      /\ Height(head') >= Height(head)
  BY Zenon, <1>1, <1>2, ImportingOK
<1>4. UNCHANGED <<book, inflight, verifying, reports, alive, pc, behind, resume, conn>>
  BY Zenon, <1>2 DEF Importing, worker, net
<1> QED
  BY Zenon, <1>1, <1>3, <1>4 DEF Types, Books

LEMMA ReportsTypes == Types /\ VerifierReports => Types'
<1> SUFFICES ASSUME Types, VerifierReports PROVE Types'
  OBVIOUS
<1> DEFINE r == [peer |-> job.peer, mode |-> job.mode, outcome |-> job.outcome]
<1>1. PICK fails \in MayFail : broken' = (broken \/ fails)
  BY Zenon DEF VerifierReports
<1>2. /\ alive /\ job # None /\ reports' = Append(reports, r) /\ job' = None
      /\ UNCHANGED <<known, head, book, resume, verifying, jobs, alive, conn>>
  BY Zenon DEF VerifierReports, worker, net
<1>3. job \in Job /\ job.outcome # <<>> /\ reports \in Seq(Report)
  BY Zenon, <1>2 DEF Types, VerifierOK
<1>4. r \in Report
  BY <1>3 DEF Job, Report, Modes, Outcomes
<1> HIDE DEF r
<1>5. reports' \in Seq(Report)
  BY <1>2, <1>3, <1>4, AppendProperties
<1>6. VerifierOK'
  BY Zenon, <1>2, <1>5 DEF Types, VerifierOK
<1>7. broken' \in BOOLEAN
  BY Zenon, <1>1
<1> QED
  BY Zenon, <1>2, <1>6, <1>7 DEF Types, Books

LEMMA RequestNothingTypes == Types /\ RequestNothing => Types'
  BY Zenon, QuietTypes DEF Types, Books, RequestNothing, chain, worker, verifier, net

LEMMA DiesTypes == Types /\ (VerifierDies \/ VerifierPanics) => Types'
<1> SUFFICES ASSUME Types, VerifierDies \/ VerifierPanics PROVE Types'
  OBVIOUS
<1>1. /\ alive' = FALSE /\ job' = None /\ jobs' = <<>>
      /\ UNCHANGED <<known, head, broken, book, resume, verifying, reports, conn>>
  BY Zenon DEF VerifierDies, VerifierPanics, chain, worker, net
<1>2. jobs' \in Seq(QueuedJob) /\ alive' \in BOOLEAN
  BY <1>1, EmptySeq
<1>3. VerifierOK'
  BY Zenon, <1>1, <1>2 DEF Types, VerifierOK
<1> QED
  BY Zenon, <1>1, <1>3 DEF Types, Books

LEMMA TypesStep == Inv /\ Types /\ [Next]_vars => Types'
<1> SUFFICES ASSUME Inv, Types, [Next]_vars PROVE Types'
  OBVIOUS
<1>1. BookOK(book) /\ resume \in Nat /\ conn \subseteq Peers
  BY Zenon DEF Types, Books
<1>2. ASSUME UNCHANGED <<book, conn, resume, known, head, broken, jobs, job, reports, alive, verifying>>
      PROVE  Types'
  BY Zenon, <1>2 DEF Types, Books, VerifierOK
<1>3. CASE BeginPass \/ Expires
  BY Zenon, <1>2, <1>3 DEF BeginPass, Expires, chain, worker, verifier, net
<1>4. ASSUME NEW p \in Peers, Announce(p) \/ Gossip(p) \/ PeerAnswers(p) PROVE Types'
  BY Zenon, <1>2, <1>4 DEF Announce, Gossip, PeerAnswers, Arrives, chain, worker, verifier
<1>5. ASSUME NEW p \in Peers, LinkageExpires(p) \/ BanExpires(p) PROVE Types'
  BY Zenon, <1>2, <1>5 DEF LinkageExpires, BanExpires, chain, worker, verifier, net
<1>6. ASSUME NEW p \in Peers, Connect(p) \/ Drop(p) PROVE Types'
  <2>1. /\ UNCHANGED <<book, resume, known, head, broken, jobs, job, reports, alive, verifying>>
        /\ conn' = conn \cup {p} \/ Cut({p})
    BY Zenon, <1>6 DEF Connect, Drop, chain, worker, verifier
  <2>2. conn' \subseteq Peers
    BY <1>1, <1>6, <2>1 DEF Cut
  <2> QED
    BY Zenon, <1>1, <2>1, <2>2, QuietTypes
<1>7. ASSUME NEW p \in Peers, StatusExpires(p) PROVE Types'
  <2> DEFINE e == [book[p] EXCEPT !.fresh = FALSE]
  <2>1. /\ UNCHANGED <<conn, resume, known, head, broken, jobs, job, reports, alive, verifying>>
        /\ book' = [book EXCEPT ![p].fresh = FALSE]
    BY Zenon, <1>7 DEF StatusExpires, chain, worker, verifier, net
  <2>2. book[p] \in Entry /\ FALSE \in BOOLEAN
    BY <1>1 DEF BookOK
  <2>3. e \in Entry
    BY <2>2 DEF Entry
  <2>4. book' = [book EXCEPT ![p] = e]
    BY <2>1
  <2> HIDE DEF e
  <2>5. BookOK([book EXCEPT ![p] = e])
    BY Zenon, <1>1, <2>3, BookEdit
  <2>6. BookOK(book')
    BY Zenon, <2>4, <2>5
  <2> QED
    BY Zenon, <1>1, <2>1, <2>6, QuietTypes
<1>8. CASE UNCHANGED vars
  BY Zenon, <1>2, <1>8 DEF vars, chain, worker, verifier, net
<1> QED
  BY Zenon, <1>3, <1>4, <1>5, <1>6, <1>7, <1>8, HandleTypes, CollectTypes, CollectDoneTypes,
     RequestTypes, RequestNothingTypes, ImportTypes, ReportsTypes, DiesTypes DEF Next, Worker, Verifier, Environment

Has(s) == Batches(s) # {}
One(s) == \A i, j \in Batches(s) : i = j
OnBatch(j) == j # None /\ j.mode # "Announced"

Some(q, j, r) == Has(q) \/ Has(r) \/ OnBatch(j)
Single(q, j, r) ==
    /\ One(q) /\ One(r) /\ ~(Has(q) /\ Has(r))
    /\ OnBatch(j) => ~Has(q) /\ ~Has(r)

(* One batch is somewhere exactly while one is marked as being verified,   *)
(* and then no request is in flight whose answer would be another one.     *)
BatchInv ==
    /\ Single(jobs, job, reports)
    /\ Some(jobs, job, reports) => verifying
    /\ verifying => Some(jobs, job, reports) \/ ~alive
    /\ verifying => inflight = None

LEMMA NoBatches == ~Has(<<>>) /\ One(<<>>)
<1>1. Batches(<<>>) = {}
  BY DEF Batches
<1> QED
  BY Zenon, <1>1 DEF Has, One

LEMMA AppendBatch ==
    ASSUME NEW S, NEW s \in Seq(S), NEW x \in S
    PROVE  /\ Has(Append(s, x)) <=> Has(s) \/ x.mode # "Announced"
           /\ One(s) /\ x.mode = "Announced" => One(Append(s, x))
           /\ ~Has(s) => One(Append(s, x))
<1> DEFINE t == Append(s, x)
<1>1. /\ Len(s) \in Nat /\ Len(t) = Len(s) + 1
      /\ \A i \in 1..Len(s) : t[i] = s[i]
      /\ t[Len(s) + 1] = x
  BY AppendProperties, LenProperties
<1> HIDE DEF t
<1>2. \A i : i \in 1..Len(t) <=> i \in 1..Len(s) \/ i = Len(s) + 1
  BY <1>1
<1>3. \A i : i \in Batches(t) <=> i \in Batches(s) \/ (i = Len(s) + 1 /\ x.mode # "Announced")
  BY Zenon, <1>1, <1>2 DEF Batches
<1>4. Has(t) <=> Has(s) \/ x.mode # "Announced"
  BY Zenon, <1>3 DEF Has
<1>5. ASSUME One(s), x.mode = "Announced" PROVE One(t)
  BY Zenon, <1>3, <1>5 DEF One
<1>6. ASSUME ~Has(s) PROVE One(t)
  <2>1. \A i \in Batches(t) : i = Len(s) + 1
    BY Zenon, <1>3, <1>6 DEF Has
  <2> QED
    BY Zenon, <2>1 DEF One
<1> QED
  BY Zenon, <1>4, <1>5, <1>6 DEF t

LEMMA TailBatch ==
    ASSUME NEW S, NEW s \in Seq(S), s # <<>>
    PROVE  /\ Has(s) <=> Has(Tail(s)) \/ Head(s).mode # "Announced"
           /\ One(s) => One(Tail(s))
           /\ One(s) /\ Head(s).mode # "Announced" => ~Has(Tail(s))
<1> DEFINE t == Tail(s)
<1>1. /\ Len(t) = Len(s) - 1 /\ Len(s) \in Nat \ {0} /\ Head(s) = s[1]
      /\ \A i \in 1..Len(t) : t[i] = s[i + 1]
  BY HeadTailProperties, EmptySeq, LenProperties
<1> HIDE DEF t
<1>2. /\ \A i \in 1..Len(t) : i + 1 \in 1..Len(s) /\ i + 1 # 1
      /\ \A i \in 1..Len(s) : i = 1 \/ (i - 1 \in 1..Len(t) /\ (i - 1) + 1 = i)
      /\ 1 \in 1..Len(s)
      /\ \A i, j \in 1..Len(t) : i + 1 = j + 1 => i = j
  BY <1>1
<1>3. \A i \in Batches(t) : i + 1 \in Batches(s) /\ i + 1 # 1 /\ i \in 1..Len(t)
  BY Zenon, <1>1, <1>2 DEF Batches
<1>4. 1 \in Batches(s) <=> Head(s).mode # "Announced"
  BY Zenon, <1>1, <1>2 DEF Batches
<1>5. \A i \in Batches(s) : i = 1 \/ i - 1 \in Batches(t)
  BY Zenon, <1>1, <1>2 DEF Batches
<1>6. Has(s) <=> Has(t) \/ Head(s).mode # "Announced"
  BY Zenon, <1>3, <1>4, <1>5 DEF Has
<1>7. ASSUME One(s) PROVE One(t)
  <2> SUFFICES ASSUME NEW i \in Batches(t), NEW j \in Batches(t) PROVE i = j
    BY Zenon DEF One
  <2>1. i + 1 = j + 1 /\ i \in 1..Len(t) /\ j \in 1..Len(t)
    BY Zenon, <1>3, <1>7 DEF One
  <2> QED
    BY Zenon, <1>2, <2>1
<1>8. One(s) /\ Head(s).mode # "Announced" => ~Has(t)
  BY Zenon, <1>3, <1>4 DEF Has, One
<1> QED
  BY Zenon, <1>6, <1>7, <1>8 DEF t

LEMMA WorkIs ==
    /\ Single(jobs, job, reports) => \A u, v \in CatchUpWork : u = v
    /\ CatchUpWork # {} <=> Some(jobs, job, reports)
<1> DEFINE Q == {<<"queued", i>> : i \in Batches(jobs)}
           R == {<<"reported", i>> : i \in Batches(reports)}
           V == IF OnBatch(job) THEN {<<"running", 1>>} ELSE {}
<1>1. CatchUpWork = Q \cup R \cup V
  BY Zenon DEF CatchUpWork, OnBatch
<1>2. Q # {} <=> Has(jobs)
  BY Zenon DEF Has
<1>3. R # {} <=> Has(reports)
  BY Zenon DEF Has
<1>4. V # {} <=> OnBatch(job)
  BY Zenon
<1>5. One(jobs) => \A u, v \in Q : u = v
  BY Zenon DEF One
<1>6. One(reports) => \A u, v \in R : u = v
  BY Zenon DEF One
<1>7. \A u, v \in V : u = v
  BY Zenon
<1> HIDE DEF Q, R, V
<1>8. CatchUpWork # {} <=> Some(jobs, job, reports)
  BY Zenon, <1>1, <1>2, <1>3, <1>4 DEF Some
<1>9. ASSUME Single(jobs, job, reports), NEW u \in CatchUpWork, NEW v \in CatchUpWork PROVE u = v
  BY Zenon, <1>1, <1>2, <1>3, <1>4, <1>5, <1>6, <1>7, <1>9 DEF Single
<1> QED
  BY Zenon, <1>8, <1>9

(* A block announced by gossip is no batch.                                *)
LEMMA AnnouncedBatch ==
    ASSUME BatchInv, VerifierOK, VerifierOK', NEW p \in Peers, NEW blocks \in Seq(Blocks),
           SubmitVerify(p, "Announced", blocks), UNCHANGED <<job, alive, inflight>>
    PROVE  BatchInv'
<1>1. jobs \in Seq(QueuedJob) /\ reports \in Seq(Report) /\ "Announced" \in Modes
  BY Zenon DEF VerifierOK, Modes
<1>2. CASE alive
  <2> DEFINE q == [peer |-> p, mode |-> "Announced", blocks |-> blocks]
  <2>1. (jobs' = Append(jobs, q) \/ jobs' = jobs) /\ verifying' = verifying /\ reports' = reports
    BY Zenon, <1>2 DEF SubmitVerify
  <2>2. q \in QueuedJob /\ q.mode = "Announced"
    BY <1>1 DEF QueuedJob
  <2> HIDE DEF q
  <2>3. (Has(jobs') <=> Has(jobs)) /\ (One(jobs) => One(jobs'))
    BY Zenon, <1>1, <2>1, <2>2, AppendBatch
  <2> QED
    BY Zenon, <2>1, <2>3 DEF BatchInv, Single, Some
<1>3. CASE ~alive
  <2>1. PICK out : /\ reports' = Append(reports, [peer |-> p, mode |-> "Announced", outcome |-> out])
                   /\ verifying' = ("Announced" # "Announced" \/ verifying) /\ jobs' = jobs
    BY Zenon, <1>3 DEF SubmitVerify
  <2> DEFINE r == [peer |-> p, mode |-> "Announced", outcome |-> out]
  <2>2. r.mode = "Announced" /\ (verifying' <=> verifying)
    BY Zenon, <2>1
  <2> HIDE DEF r
  <2>3. reports' = Append(reports, r)
    BY Zenon, <2>1 DEF r
  <2>4. reports \in Seq(Report \cup {r}) /\ r \in Report \cup {r}
    BY <1>1, SeqMonotonic
  <2>5. (Has(reports') <=> Has(reports)) /\ (One(reports) => One(reports'))
    BY Zenon, <2>2, <2>3, <2>4, AppendBatch
  <2> QED
    BY Zenon, <2>1, <2>2, <2>5 DEF BatchInv, Single, Some
<1> QED
  BY Zenon, <1>2, <1>3

(* The answer to the request in flight is the only batch there is.         *)
LEMMA AnsweredBatch ==
    ASSUME BatchInv, VerifierOK, NEW p \in Peers, NEW mode \in Modes \ {"Announced"},
           NEW blocks \in Seq(Blocks), inflight # None, inflight' = None,
           SubmitVerify(p, mode, blocks), UNCHANGED <<job, alive>>
    PROVE  BatchInv'
<1>1. jobs \in Seq(QueuedJob) /\ reports \in Seq(Report) /\ mode # "Announced" /\ mode \in Modes
  BY Zenon DEF VerifierOK
<1>2. ~verifying /\ ~Has(jobs) /\ ~Has(reports) /\ ~OnBatch(job)
  BY Zenon DEF BatchInv, Some
<1>3. CASE alive
  <2> DEFINE q == [peer |-> p, mode |-> mode, blocks |-> blocks]
             room == Len(jobs) < QueueDepth
  <2>1. /\ jobs' = (IF room THEN Append(jobs, q) ELSE jobs) /\ reports' = reports
        /\ verifying' = room
    BY Zenon, <1>1, <1>3 DEF SubmitVerify
  <2>2. q \in QueuedJob /\ q.mode # "Announced"
    BY <1>1 DEF QueuedJob
  <2> HIDE DEF q, room
  <2>3. Has(Append(jobs, q)) /\ One(Append(jobs, q))
    BY Zenon, <1>1, <1>2, <2>2, AppendBatch
  <2>4. CASE room
    BY Zenon, <1>2, <2>1, <2>3, <2>4 DEF BatchInv, Single, Some
  <2>5. CASE ~room
    BY Zenon, <1>2, <2>1, <2>5 DEF BatchInv, Single, Some
  <2> QED
    BY Zenon, <2>4, <2>5
<1>4. CASE ~alive
  <2>1. PICK out : /\ reports' = Append(reports, [peer |-> p, mode |-> mode, outcome |-> out])
                   /\ verifying' = (mode # "Announced" \/ verifying) /\ jobs' = jobs
    BY Zenon, <1>4 DEF SubmitVerify
  <2> DEFINE r == [peer |-> p, mode |-> mode, outcome |-> out]
  <2>2. r.mode # "Announced" /\ verifying'
    BY Zenon, <1>1, <2>1
  <2> HIDE DEF r
  <2>3. reports' = Append(reports, r)
    BY Zenon, <2>1 DEF r
  <2>4. reports \in Seq(Report \cup {r}) /\ r \in Report \cup {r}
    BY <1>1, SeqMonotonic
  <2>5. Has(reports') /\ One(reports')
    BY Zenon, <1>2, <2>2, <2>3, <2>4, AppendBatch
  <2> QED
    BY Zenon, <1>2, <2>1, <2>2, <2>5 DEF BatchInv, Single, Some
<1> QED
  BY Zenon, <1>3, <1>4

LEMMA QuietBatch ==
    ASSUME BatchInv, UNCHANGED <<jobs, job, reports, alive, verifying, inflight>>
    PROVE  BatchInv'
  BY Zenon DEF BatchInv

LEMMA HandleBatch ==
    ASSUME Inv, Types, Types', BatchInv, Handle
    PROVE  BatchInv'
<1> DEFINE m == Head(inbox)
           p == m.from
<1>1. inbox # <<>> /\ UNCHANGED <<job, alive>> /\ VerifierOK /\ VerifierOK'
  BY Zenon DEF Handle, Types
<1>2. MessageOK(m) /\ p \in Peers
  BY <1>1, InboxTail DEF Inv, MessageOK
<1>3. \/ NoVerify /\ UNCHANGED inflight
      \/ m.kind = "NewBlock" /\ HandleNewBlock(p, m)
      \/ HandleReply(p, m)
  BY Zenon DEF Handle, HandleHello, HandleStatus, Ignore
<1> HIDE DEF m, p
<1>4. CASE NoVerify /\ UNCHANGED inflight
  BY Zenon, <1>1, <1>4, QuietBatch DEF NoVerify
<1>5. CASE m.kind = "NewBlock" /\ HandleNewBlock(p, m)
  <2>1. m.block \in Blocks
    BY Zenon, <1>2, <1>5 DEF MessageOK
  <2>2. <<m.block>> \in Seq(Blocks)
    BY Zenon, <2>1, SingleBlock
  <2>3. SubmitVerify(p, "Announced", <<m.block>>) /\ UNCHANGED inflight
    BY Zenon, <1>5 DEF HandleNewBlock
  <2> QED
    BY Zenon, <1>1, <1>2, <2>2, <2>3, AnnouncedBatch
<1>6. CASE HandleReply(p, m)
  <2>1. \/ NoVerify
        \/ /\ m.kind = "BlockResponse" /\ ~Empty(m)
           /\ SubmitVerify(p, "Backtrack", <<m.block>>)
        \/ /\ m.kind = "BlocksResponse" /\ ~Empty(m)
           /\ SubmitVerify(p, "Batch", m.blocks)
    BY Zenon, <1>6 DEF HandleReply, HandleHeaders
  <2>2. IF ForLinkage(p, m) THEN inflight' = inflight ELSE inflight' = None /\ ForFlight(p, m)
    BY Zenon, <1>6 DEF HandleReply
  <2>3. inflight' = inflight \/ inflight' = None
    BY Zenon, <2>2
  <2>4. CASE NoVerify
    BY Zenon, <1>1, <2>3, <2>4 DEF BatchInv, NoVerify
  <2>5. ASSUME m.kind # "Headers" PROVE inflight # None /\ inflight' = None
    BY Zenon, <2>2, <2>5 DEF ForLinkage, MatchesLinkage, ForFlight
  <2>6. CASE /\ m.kind = "BlockResponse" /\ ~Empty(m)
             /\ SubmitVerify(p, "Backtrack", <<m.block>>)
    <3>1. m.kind # "Headers" /\ "Backtrack" \in Modes \ {"Announced"}
      BY <2>6 DEF Modes
    <3>2. m.block \in Blocks
      BY <1>2, <2>6 DEF MessageOK, Empty
    <3>3. <<m.block>> \in Seq(Blocks)
      BY Zenon, <3>2, SingleBlock
    <3>4. inflight # None /\ inflight' = None
      BY Zenon, <2>5, <3>1
    <3> QED
      BY Zenon, <1>1, <1>2, <2>6, <3>1, <3>3, <3>4, AnsweredBatch
  <2>7. CASE /\ m.kind = "BlocksResponse" /\ ~Empty(m)
             /\ SubmitVerify(p, "Batch", m.blocks)
    <3>1. m.kind # "Headers" /\ "Batch" \in Modes \ {"Announced"}
      BY <2>7 DEF Modes
    <3>2. m.blocks \in Seq(Blocks)
      BY <1>2, <2>7 DEF MessageOK
    <3>3. inflight # None /\ inflight' = None
      BY Zenon, <2>5, <3>1
    <3> QED
      BY Zenon, <1>1, <1>2, <2>7, <3>1, <3>2, <3>3, AnsweredBatch
  <2> QED
    BY Zenon, <2>1, <2>4, <2>6, <2>7
<1> QED
  BY Zenon, <1>3, <1>4, <1>5, <1>6

LEMMA CollectBatch ==
    ASSUME Types, BatchInv, Collect
    PROVE  BatchInv'
<1> DEFINE r == Head(reports)
<1>1. /\ reports # <<>> /\ verifying' = (verifying /\ r.mode = "Announced")
      /\ ApplyVerifyReport(r) /\ reports' = Tail(reports)
      /\ UNCHANGED <<jobs, job, alive>>
  BY Zenon DEF Collect
<1>2. reports \in Seq(Report)
  BY Zenon DEF Types, VerifierOK
<1>3. /\ Has(reports) <=> Has(reports') \/ r.mode # "Announced"
      /\ One(reports) => One(reports')
      /\ One(reports) /\ r.mode # "Announced" => ~Has(reports')
  BY Zenon, <1>1, <1>2, TailBatch
<1>4. r.mode = "Announced" => inflight' = inflight
  <2> SUFFICES ASSUME r.mode = "Announced" PROVE inflight' = inflight
    BY Zenon
  <2>1. "Announced" # "Batch"
    OBVIOUS
  <2> HIDE DEF r
  <2> QED
    BY Zenon, <1>1, <2>1 DEF ApplyVerifyReport
<1> HIDE DEF r
<1>5. CASE r.mode = "Announced"
  <2>1. (verifying' <=> verifying) /\ (Has(reports') <=> Has(reports)) /\ inflight' = inflight
    BY Zenon, <1>1, <1>3, <1>4, <1>5
  <2> QED
    BY Zenon, <1>1, <1>3, <2>1 DEF BatchInv, Single, Some
<1>6. CASE r.mode # "Announced"
  <2>1. ~verifying' /\ Has(reports)
    BY Zenon, <1>1, <1>3, <1>6
  <2>2. ~Has(jobs) /\ ~OnBatch(job) /\ ~Has(reports') /\ One(jobs) /\ One(reports')
    BY Zenon, <1>3, <1>6, <2>1 DEF BatchInv, Single
  <2> QED
    BY Zenon, <1>1, <2>1, <2>2 DEF BatchInv, Single, Some
<1> QED
  BY Zenon, <1>5, <1>6

LEMMA CollectDoneBatch ==
    ASSUME Types, BatchInv, CollectDone
    PROVE  BatchInv'
<1>1. /\ UNCHANGED <<inflight, jobs, job, reports>> /\ reports = <<>>
      /\ IF verifying /\ ~alive THEN verifying' = FALSE /\ alive' = TRUE
         ELSE UNCHANGED <<verifying, alive>>
  BY Zenon DEF CollectDone
<1>2. CASE verifying /\ ~alive
  <2>1. job = None /\ jobs = <<>>
    BY Zenon, <1>2 DEF Types, VerifierOK
  <2>2. ~Some(jobs, job, reports)
    BY Zenon, <1>1, <2>1, NoBatches DEF Some, OnBatch
  <2> QED
    BY Zenon, <1>1, <1>2, <2>2 DEF BatchInv
<1>3. CASE ~(verifying /\ ~alive)
  BY Zenon, <1>1, <1>3, QuietBatch
<1> QED
  BY Zenon, <1>2, <1>3

LEMMA RequestBatch ==
    ASSUME BatchInv, RequestMissing
    PROVE  BatchInv'
<1>1. UNCHANGED <<verifying, jobs, job, reports, alive>>
  BY Zenon DEF RequestMissing, verifier
<1>2. Busy => inflight' = inflight
  BY Zenon DEF RequestMissing
<1> QED
  BY Zenon, <1>1, <1>2 DEF BatchInv, Busy

LEMMA ImportBatch ==
    ASSUME Types, BatchInv, VerifierTakes \/ VerifierImports
    PROVE  BatchInv'
<1>1. Books /\ VerifierOK
  BY Zenon DEF Types
<1>2. job' \in Job /\ UNCHANGED <<inflight, verifying, reports, alive>>
  BY Zenon, ImportTypes
<1>3. job' # None
  BY Zenon, <1>2, NoneAssumption
<1>4. CASE VerifierTakes
  <2> DEFINE h == Head(jobs)
             j == [peer |-> h.peer, mode |-> h.mode, blocks |-> h.blocks, outcome |-> <<>>]
  <2>1. alive /\ job = None /\ jobs # <<>> /\ Importing(j, Tail(jobs))
    BY Zenon, <1>4 DEF VerifierTakes
  <2>2. j \in Job /\ Tail(jobs) \in Seq(QueuedJob) /\ j.mode = h.mode
    BY Zenon, <1>1, <2>1, TakesJob
  <2> HIDE DEF j
  <2>3. job'.mode = j.mode
    BY Zenon, <1>1, <2>1, <2>2, ImportingOK
  <2>4. jobs' = Tail(jobs) /\ jobs \in Seq(QueuedJob)
    BY Zenon, <1>1, <2>1 DEF Importing, VerifierOK
  <2>5. /\ Has(jobs) <=> Has(jobs') \/ h.mode # "Announced"
        /\ One(jobs) => One(jobs')
        /\ One(jobs) /\ h.mode # "Announced" => ~Has(jobs')
    BY Zenon, <2>1, <2>4, TailBatch
  <2> HIDE DEF h
  <2>6. OnBatch(job') <=> h.mode # "Announced"
    BY Zenon, <1>3, <2>2, <2>3 DEF OnBatch
  <2>7. ~OnBatch(job)
    BY Zenon, <2>1 DEF OnBatch
  <2>8. Single(jobs', job', reports') /\ (Some(jobs', job', reports') <=> Some(jobs, job, reports))
    BY Zenon, <1>2, <2>5, <2>6, <2>7 DEF BatchInv, Single, Some
  <2> QED
    BY Zenon, <1>2, <2>8 DEF BatchInv
<1>5. CASE VerifierImports
  <2>1. alive /\ job # None /\ Importing(job, jobs) /\ job \in Job /\ jobs \in Seq(QueuedJob)
    BY Zenon, <1>1, <1>5 DEF VerifierImports, VerifierOK
  <2>2. job'.mode = job.mode /\ jobs' = jobs
    BY Zenon, <1>1, <2>1, ImportingOK DEF Importing
  <2>3. OnBatch(job') <=> OnBatch(job)
    BY Zenon, <1>3, <2>1, <2>2 DEF OnBatch
  <2> QED
    BY Zenon, <1>2, <2>2, <2>3 DEF BatchInv, Single, Some
<1> QED
  BY Zenon, <1>4, <1>5

LEMMA ReportsBatch ==
    ASSUME Types, BatchInv, VerifierReports
    PROVE  BatchInv'
<1> DEFINE r == [peer |-> job.peer, mode |-> job.mode, outcome |-> job.outcome]
<1>1. /\ alive /\ job # None /\ reports' = Append(reports, r) /\ job' = None
      /\ UNCHANGED <<verifying, jobs, alive, inflight>>
  BY Zenon DEF VerifierReports, worker
<1>2. reports \in Seq(Report)
  BY Zenon DEF Types, VerifierOK
<1>3. r.mode = job.mode
  BY Zenon
<1> HIDE DEF r
<1>4. reports \in Seq(Report \cup {r}) /\ r \in Report \cup {r}
  BY <1>2, SeqMonotonic
<1>5. /\ Has(reports') <=> Has(reports) \/ r.mode # "Announced"
      /\ One(reports) /\ r.mode = "Announced" => One(reports')
      /\ ~Has(reports) => One(reports')
  BY Zenon, <1>1, <1>4, AppendBatch
<1>6. (OnBatch(job) <=> r.mode # "Announced") /\ ~OnBatch(job')
  BY Zenon, <1>1, <1>3 DEF OnBatch
<1>7. Single(jobs', job', reports') /\ (Some(jobs', job', reports') <=> Some(jobs, job, reports))
  BY Zenon, <1>1, <1>5, <1>6 DEF BatchInv, Single, Some
<1> QED
  BY Zenon, <1>1, <1>7 DEF BatchInv

LEMMA DiesBatch ==
    ASSUME BatchInv, VerifierDies \/ VerifierPanics
    PROVE  BatchInv'
<1>1. /\ alive' = FALSE /\ job' = None /\ jobs' = <<>>
      /\ UNCHANGED <<verifying, reports, inflight>>
  BY Zenon DEF VerifierDies, VerifierPanics, worker
<1>2. ~Has(jobs') /\ One(jobs') /\ ~OnBatch(job') /\ ~alive'
  BY Zenon, <1>1, NoBatches DEF OnBatch
<1> QED
  BY Zenon, <1>1, <1>2 DEF BatchInv, Single, Some

LEMMA BatchStep == Inv /\ Types /\ Types' /\ BatchInv /\ [Next]_vars => BatchInv'
<1> SUFFICES ASSUME Inv, Types, Types', BatchInv, [Next]_vars PROVE BatchInv'
  OBVIOUS
<1>1. CASE BeginPass \/ RequestNothing
  BY Zenon, <1>1, QuietBatch DEF BeginPass, RequestNothing, worker, verifier
<1>2. CASE Expires
  <2>1. inflight # None /\ UNCHANGED <<jobs, job, reports, alive, verifying>>
    BY Zenon, <1>2 DEF Expires, verifier
  <2> QED
    BY Zenon, <2>1 DEF BatchInv
<1>3. ASSUME NEW p \in Peers, Announce(p) \/ Gossip(p) \/ PeerAnswers(p) PROVE BatchInv'
  BY Zenon, <1>3, QuietBatch DEF Announce, Gossip, PeerAnswers, Arrives, worker, verifier
<1>4. ASSUME NEW p \in Peers, LinkageExpires(p) \/ BanExpires(p) \/ StatusExpires(p) PROVE BatchInv'
  BY Zenon, <1>4, QuietBatch DEF LinkageExpires, BanExpires, StatusExpires, worker, verifier
<1>5. ASSUME NEW p \in Peers, Connect(p) \/ Drop(p) PROVE BatchInv'
  BY Zenon, <1>5, QuietBatch DEF Connect, Drop, worker, verifier
<1>6. CASE UNCHANGED vars
  BY Zenon, <1>6, QuietBatch DEF vars, worker, verifier
<1> QED
  BY Zenon, <1>1, <1>2, <1>3, <1>4, <1>5, <1>6, HandleBatch, CollectBatch, CollectDoneBatch,
     RequestBatch, ImportBatch, ReportsBatch, DiesBatch DEF Next, Worker, Verifier, Environment

GateInv == behind \in Int /\ GateFailsClosed

LEMMA HeightNat == \A b \in All : Height(b) \in Nat
  BY ChainType, LenProperties DEF Height

LEMMA AncestryDown ==
    ASSUME NEW h \in All, NEW b \in Ancestry(h), b # Genesis
    PROVE  Prev[b] \in Ancestry(h)
<1>1. b \in All /\ Ancestry(b) \subseteq Ancestry(h)
  BY Zenon, AncestorFacts
<1>2. b \in Blocks /\ Prev[b] \in All
  BY <1>1, TreeAssumption DEF All
<1>3. Ancestry(b) = Ancestry(Prev[b]) \cup {b} /\ Prev[b] \in Ancestry(Prev[b])
  BY Zenon, <1>2, PrevAncestry, AncestryIs
<1> QED
  BY <1>1, <1>3

(* The published deficit covers every authenticated claim.                 *)
LEMMA DeficitCovers ==
    ASSUME NEW bk, BookOK(bk), head \in All
    PROVE  /\ BehindBlocks(bk) \in Int
           /\ \A p \in Peers : bk[p].auth /\ bk[p].tip # None
                  => BehindBlocks(bk) >= Height(bk[p].tip) - Height(head)
<1> DEFINE auth == {p \in Peers : bk[p].auth}
           seen == {q \in auth : bk[q].tip # None}
           tops == {Height(bk[p].tip) : p \in seen}
           I == {b \in Blocks : \E p \in seen : bk[p].tip = b}
           rank == [b \in I |-> Height(b)]
           none == IF auth # {} THEN Unknown ELSE 0
<1>1. BehindBlocks(bk) = IF tops # {} THEN Max({0, Max(tops) - LocalHeight}) ELSE none
  BY Zenon DEF BehindBlocks
<1>2. none \in Int
  BY DEF Unknown
<1>3. /\ Height(head) \in Nat /\ LocalHeight \in Nat /\ LocalHeight <= Height(head)
      /\ \A b \in Blocks : Height(b) \in Nat
  <2>1. Height(head) \in Nat /\ \A b \in Blocks : Height(b) \in Nat
    BY HeightNat DEF All
  <2> DEFINE k == Height(head)
  <2>2. LocalHeight = k \/ LocalHeight = 0
    BY Zenon DEF LocalHeight
  <2>3. k \in Nat
    BY Zenon, <2>1
  <2> HIDE DEF k
  <2>4. LocalHeight \in Nat /\ LocalHeight <= k
    BY <2>2, <2>3
  <2> QED
    BY Zenon, <2>1, <2>4 DEF k
<1>4. \A p \in seen : bk[p].tip \in Blocks
  BY DEF BookOK, Entry
<1>5. tops = {rank[b] : b \in I}
  BY <1>4
<1>6. IsFiniteSet(I)
  BY FS_Subset, TreeAssumption
<1>7. rank \in [I -> Nat]
  BY <1>3
<1>8. tops # {} => I # {}
  BY <1>5
<1>9. \A p \in Peers : bk[p].auth /\ bk[p].tip # None => Height(bk[p].tip) \in tops /\ Height(bk[p].tip) \in Nat
  BY <1>3, <1>4
<1> HIDE DEF none, rank, I, tops, seen, auth
<1>10. CASE tops = {}
  BY Zenon, <1>1, <1>2, <1>9, <1>10
<1>11. CASE tops # {}
  <2>1. Max(tops) \in Nat /\ \A y \in tops : Max(tops) >= y
    BY Zenon, <1>5, <1>6, <1>7, <1>8, <1>11, MaxOfImage
  <2> DEFINE m == Max(tops)
             h == LocalHeight
             k == Height(head)
             d == Max({0, m - h})
  <2> HIDE DEF m
  <2>2. m \in Nat /\ h \in Nat /\ k \in Nat /\ h <= k /\ m - h \in Int /\ 0 \in Int
    BY <1>3, <2>1 DEF m
  <2>3. d \in {0, m - h} /\ d >= m - h
    BY Zenon, <2>2, MaxOfTwo
  <2>4. BehindBlocks(bk) = d
    BY Zenon, <1>1, <1>11 DEF m
  <2>5. \A y \in tops : m >= y
    BY Zenon, <2>1 DEF m
  <2> HIDE DEF d, h, k
  <2>6. d \in Int
    BY <2>2, <2>3
  <2>7. ASSUME NEW p \in Peers, bk[p].auth, bk[p].tip # None
        PROVE  d >= Height(bk[p].tip) - k
    <3> DEFINE y == Height(bk[p].tip)
    <3>1. y \in Nat /\ m >= y
      BY Zenon, <1>9, <2>5, <2>7
    <3> HIDE DEF y
    <3>2. d >= y - k
      BY <2>2, <2>3, <2>6, <3>1
    <3> QED
      BY Zenon, <3>2 DEF y
  <2> QED
    BY Zenon, <2>4, <2>6, <2>7 DEF k
<1> QED
  BY Zenon, <1>10, <1>11

(* A head that does not fall keeps the gate closed.                        *)
LEMMA QuietGate ==
    ASSUME Types, GateInv, head' \in All, Height(head') >= Height(head),
           UNCHANGED <<book, behind, pc>>
    PROVE  GateInv'
<1>1. BookOK(book) /\ head \in All
  BY Zenon DEF Types, Books, Closed
<1>2. Height(head) \in Nat /\ Height(head') \in Nat /\ behind \in Int
  BY Zenon, <1>1, HeightNat DEF GateInv
<1> SUFFICES ASSUME pc = "idle", NEW p \in Peers, book[p].auth, book[p].tip # None,
                    Height(book[p].tip) > Height(head')
             PROVE  behind >= Height(book[p].tip) - Height(head')
  BY Zenon, <1>2 DEF GateInv, GateFailsClosed
<1>3. Height(book[p].tip) \in Nat
  <2>1. book[p].tip \in Blocks
    BY <1>1 DEF BookOK, Entry
  <2> QED
    BY <2>1, HeightNat DEF All
<1> DEFINE y == Height(book[p].tip)
           h == Height(head)
           k == Height(head')
<1>4. y > h => behind >= y - h
  BY Zenon DEF GateInv, GateFailsClosed
<1>5. y \in Nat /\ h \in Nat /\ k \in Nat /\ y > k /\ k >= h
  BY Zenon, <1>2, <1>3
<1> HIDE DEF y, h, k
<1>6. behind >= y - k
  BY <1>2, <1>4, <1>5
<1> QED
  BY Zenon, <1>6 DEF y, k

LEMMA GateStep == Types /\ Types' /\ GateInv /\ [Next]_vars => GateInv'
<1> SUFFICES ASSUME Types, Types', GateInv, [Next]_vars PROVE GateInv'
  OBVIOUS
<1>1. BookOK(book) /\ BookOK(book') /\ head \in All /\ head' \in All
  BY Zenon DEF Types, Books, Closed
<1>2. ASSUME UNCHANGED <<head, book, behind, pc>> PROVE GateInv'
  <2>1. Height(head') >= Height(head)
    BY <1>1, <1>2, HeightNat
  <2> QED
    BY Zenon, <1>1, <1>2, <2>1, QuietGate
<1>3. ASSUME pc' # "idle", UNCHANGED behind PROVE GateInv'
  BY Zenon, <1>3 DEF GateInv, GateFailsClosed
<1>4. CASE RequestMissing \/ RequestNothing
  <2>1. behind' = BehindBlocks(book') /\ UNCHANGED head
    BY Zenon, <1>4 DEF RequestMissing, RequestNothing, BehindBlocks, LocalHeight, chain, worker
  <2>2. /\ BehindBlocks(book') \in Int
        /\ \A p \in Peers : book'[p].auth /\ book'[p].tip # None
               => BehindBlocks(book') >= Height(book'[p].tip) - Height(head)
    BY Zenon, <1>1, DeficitCovers
  <2> QED
    BY Zenon, <2>1, <2>2 DEF GateInv, GateFailsClosed
<1>5. CASE VerifierTakes \/ VerifierImports
  BY Zenon, <1>1, <1>5, ImportTypes, QuietGate
<1>6. "drain" # "idle" /\ "request" # "idle"
  OBVIOUS
<1>7. CASE BeginPass \/ CollectDone
  BY Zenon, <1>3, <1>6, <1>7 DEF BeginPass, CollectDone
<1>8. CASE Handle \/ Collect
  <2>1. pc = "drain" /\ UNCHANGED <<pc, behind>>
    BY Zenon, <1>8 DEF Handle, Collect
  <2> QED
    BY Zenon, <1>3, <1>6, <2>1
<1>9. CASE VerifierReports \/ VerifierDies \/ VerifierPanics
  BY Zenon, <1>2, <1>9 DEF VerifierReports, VerifierDies, VerifierPanics, chain, worker
<1>10. CASE Expires \/ (\E p \in Peers : LinkageExpires(p) \/ StatusExpires(p))
  BY Zenon, <1>3, <1>6, <1>10 DEF Expires, LinkageExpires, StatusExpires
<1>11. ASSUME NEW p \in Peers, \/ Announce(p) \/ Gossip(p) \/ PeerAnswers(p)
                               \/ Connect(p) \/ BanExpires(p) \/ Drop(p)
       PROVE  GateInv'
  BY Zenon, <1>2, <1>11 DEF Announce, Gossip, PeerAnswers, Arrives, Connect, BanExpires, Drop,
     chain, worker
<1>12. CASE UNCHANGED vars
  BY Zenon, <1>2, <1>12 DEF vars, chain, worker
<1> QED
  BY Zenon, <1>4, <1>5, <1>7, <1>8, <1>9, <1>10, <1>11, <1>12
     DEF Next, Worker, Verifier, Environment

-----------------------------------------------------------------------------
SyncInv == Inv /\ Types /\ BatchInv /\ GateInv

LEMMA InitSync == Init => SyncInv
<1> SUFFICES ASSUME Init PROVE SyncInv
  OBVIOUS
<1>1. head \in All
  BY SyncAssumption DEF Init, All
<1>2. Closed(known, head)
  <2>1. known = Ancestry(head)
    BY Zenon DEF Init
  <2>2. known \subseteq All /\ head \in known
    BY Zenon, <1>1, <2>1, AncestryIs
  <2>3. ASSUME NEW b \in known, b # Genesis PROVE Prev[b] \in known
    BY Zenon, <1>1, <2>1, <2>3, AncestryDown
  <2> QED
    BY Zenon, <2>2, <2>3 DEF Closed
<1>3. BookOK(book)
  BY NoBookOK DEF Init, BookOK
<1>4. Books
  BY <1>2, <1>3 DEF Books, Init
<1>5. <<>> \in Seq(QueuedJob) /\ <<>> \in Seq(Report)
  BY EmptySeq
<1>6. VerifierOK
  BY Zenon, <1>5 DEF VerifierOK, Init
<1>7. BatchInv
  BY Zenon, NoBatches DEF Init, BatchInv, Single, Some, OnBatch
<1>8. GateInv
  <2>1. \A p \in Peers : ~book[p].auth
    BY DEF Init, NoBook
  <2>2. behind \in Int
    BY DEF Init
  <2> QED
    BY Zenon, <2>1, <2>2 DEF GateInv, GateFailsClosed
<1> QED
  BY Zenon, <1>4, <1>6, <1>7, <1>8, InitInv DEF SyncInv, Types

LEMMA SyncStep == SyncInv /\ [Next]_vars => SyncInv'
<1> SUFFICES ASSUME SyncInv, [Next]_vars PROVE SyncInv'
  OBVIOUS
<1>1. Inv /\ Types /\ Books /\ BatchInv /\ GateInv
  BY Zenon DEF SyncInv, Types
<1>2. Types'
  BY Zenon, <1>1, TypesStep
<1>3. Inv'
  BY Zenon, <1>1, NextStep
<1> QED
  BY Zenon, <1>1, <1>2, <1>3, BatchStep, GateStep DEF SyncInv

(* For every block tree and any peers, answers, lost links and verifier    *)
(* deaths: the pending linkage is the chain of its last header, and a      *)
(* complete one is exactly the ancestry of the newest pin, so that         *)
(* assume-valid skips no other block's seal.                               *)
THEOREM LinkageIsSound == Spec => []LinkageSound
<1>1. SyncInv => LinkageSound
  <2> SUFFICES ASSUME SyncInv PROVE LinkageSound
    OBVIOUS
  <2>1. IsPath(cp.pending) /\ ProofSound(cp)
    BY Zenon DEF SyncInv, Inv, PinsOK
  <2>2. Len(cp.pending) \in Nat
    BY <2>1, LenProperties DEF IsPath
  <2>3. ASSUME NEW i \in 1..Len(cp.pending)
        PROVE  cp.pending[i] = BlockAt(cp.pending[Len(cp.pending)], i - 1)
    <3>1. Len(cp.pending) \in 1..Len(cp.pending)
      BY <2>2, <2>3
    <3> QED
      BY <2>1, <3>1, PathIsChain
  <2> QED
    BY <2>1, <2>3 DEF LinkageSound, ProofSound
<1> QED
  BY <1>1, InitSync, SyncStep, PTL DEF Spec

(* For every block tree, any number of peers and any interleaving of the   *)
(* worker with the verifier thread: what collect_verify_reports and        *)
(* request_missing rely on.  The queue, the verifier and the report        *)
(* channel hold at most one catch-up batch between them, `verifying` is    *)
(* set exactly while there is one or the thread died with it, and the      *)
(* indexed blocks stay a tree that holds the head.                         *)
THEOREM OneBatchInTheVerifier == Spec => []OneBatchAtATime
<1>1. SyncInv => OneBatchAtATime
  <2> SUFFICES ASSUME SyncInv PROVE OneBatchAtATime
    OBVIOUS
  <2>1. Closed(known, head) /\ BatchInv /\ PinsOK(cp)
    BY Zenon DEF SyncInv, Inv, Types, Books
  <2>2. CheckpointType(cp)
    BY <2>1 DEF PinsOK, PinRecord, CheckpointType, All
  <2>3. /\ \A u, v \in CatchUpWork : u = v
        /\ CatchUpWork # {} => verifying
        /\ verifying => CatchUpWork # {} \/ ~alive
    BY Zenon, <2>1, WorkIs DEF BatchInv
  <2> QED
    BY Zenon, <2>1, <2>2, <2>3 DEF OneBatchAtATime, Closed, All
<1> QED
  BY <1>1, InitSync, SyncStep, PTL DEF Spec

(* The mining gate fails closed, for any number of peers: when a pass of   *)
(* the worker has ended, the deficit it published is at least what any     *)
(* authenticated peer claims above our head, also while the verifier       *)
(* imports blocks after the pass.                                          *)
THEOREM GateIsClosed == Spec => []GateFailsClosed
<1>1. SyncInv => GateFailsClosed
  BY Zenon DEF SyncInv, GateInv
<1> QED
  BY <1>1, InitSync, SyncStep, PTL DEF Spec
=============================================================================
