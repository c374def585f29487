----------------------------- MODULE SyncWorker -----------------------------
(***************************************************************************)
(* The P2P worker and its verifier thread: rpc/src/p2p.rs.                 *)
(*                                                                         *)
(* One node catches up with a set of remote peers.  The worker thread      *)
(* loops: drain the inbox, collect verification reports, ask for what is   *)
(* missing, publish telemetry.  The verifier thread imports the blocks of  *)
(* one job after another and reports back.  The peers answer from their    *)
(* own chains with the same serving code, late or never unless they are    *)
(* prompt.  Time is not counted: a deadline passes by an action of its     *)
(* own.                                                                    *)
(***************************************************************************)
EXTENDS Checkpoints, FiniteSetsExt

CONSTANTS
    None,               \* no value
    Peers,              \* remote addresses
    Tip,                \* Tip[p]: the head of the chain p serves
    Prompt,             \* peers that answer every request before its deadline
    Mute,               \* peers whose storage failed: they announce but serve no block
    Homes,              \* heads the worker may start from
    Pinned,             \* configured checkpoints
    Invalid,            \* blocks that fail validation
    Batch,              \* SYNC_BATCH
    HeadersBatch,       \* HEADERS_BATCH
    LocatorCap,         \* LOCATOR_CAP
    BacktrackCap,       \* BACKTRACK_CAP
    MaxStrikes,         \* STATUS_MAX_STRIKES
    StrikeDisconnect,   \* STRIKE_DISCONNECT
    MaxReplies,         \* the replies without progress a peer is allowed (256)
    QueueDepth,         \* VERIFY_QUEUE_DEPTH
    MaxAsked,           \* bound: requests a slow peer keeps
    MaxFaults           \* bound: lost links, verifier deaths, failed writes to the block log

ASSUME SyncAssumption ==
    /\ Tip \in [Peers -> Blocks]
    /\ Prompt \subseteq Peers /\ Mute \subseteq Peers
    /\ Homes \subseteq Blocks \cup {Genesis}
    /\ Pinned \subseteq Blocks /\ Invalid \subseteq Blocks
    /\ Batch \in Nat \ {0} /\ HeadersBatch \in Nat \ {0} /\ LocatorCap \in Nat \ {0, 1}
    /\ BacktrackCap \in Nat \ {0} /\ MaxReplies \in Nat /\ QueueDepth \in Nat \ {0}
    /\ MaxStrikes \in Nat \ {0} /\ StrikeDisconnect \in Nat /\ StrikeDisconnect > MaxStrikes
    /\ MaxAsked \in Nat \ {0} /\ MaxFaults \in Nat

\* A job of the verifier and what it has recorded of its blocks so far
ImportOutcome == {"New", "SideBranch", "Known", "Invalid", "Rejected"}
Job == [peer : Peers, mode : {"Announced", "Batch", "Backtrack"}, blocks : Seq(Blocks),
        outcome : Seq(Nat \X ImportOutcome)]

ASSUME NoneAssumption == None \notin Job

VARIABLES
    known,      \* block hashes the chain has indexed
    head,       \* active head
    cp,         \* pins and linkage proof
    broken,     \* durable_broken
    poisoned,   \* a thread panicked holding the node lock: every lock() fails
    conn,       \* connected peers (transport)
    gen,        \* which of its links a peer is on: what a Hello is bound to
    quarantine, \* addresses marked incompatible, never dialled again
    score,      \* misbehavior points per peer; a ban is at BanScore
    book,       \* per-peer bookkeeping of SyncState
    inflight,   \* the block or header request in flight
    linkage,    \* linkage_requests
    resume,     \* resume_from (0: none)
    verifying,  \* whether a catch-up job is being verified
    jobs,       \* queue of the verifier
    job,        \* the job the verifier is on
    reports,    \* report channel
    alive,      \* the verifier thread runs
    inbox,      \* messages received, in order
    seeds,      \* the addresses this node dials
    legacy,     \* the peers below HEADERS_MIN_PROTOCOL
    told,       \* peers that have gossiped their tip
    pc,         \* where the worker's loop is
    asked,      \* requests a peer has not answered
    behind,     \* SyncShared.behind_blocks
    faults      \* faults so far

chain == <<known, head, cp, broken, poisoned>>
worker == <<book, inflight, linkage, resume, verifying>>
verifier == <<jobs, job, reports, alive>>
net == <<seeds, legacy, conn, gen, quarantine, score, inbox, asked>>
vars == <<chain, worker, verifier, net, told, pc, behind, faults>>

Unknown == -1       \* u64::MAX behind: no height advertised yet
BanScore == 100

InvalidBlockPenalty == 50
UnsubstantiatedClaimPenalty == 20

\* What SyncState holds for an address it knows nothing about
NoBook == [auth |-> FALSE, tip |-> None, fresh |-> FALSE, headers |-> FALSE,
           next |-> 0, step |-> 0, strikes |-> 0, replies |-> 0, verified |-> 0]

Init ==
    /\ head \in Homes /\ known = Ancestry(head) /\ broken = FALSE /\ poisoned = FALSE
    /\ \E pins \in {{}, Pinned} : cp = AddCheckpoints(NoPins, head, pins)
    /\ seeds \in SUBSET Peers /\ legacy \in SUBSET Peers
    /\ conn = {} /\ gen = [p \in Peers |-> 0] /\ quarantine = {}
    /\ score = [p \in Peers |-> 0]
    /\ book = [p \in Peers |-> NoBook]
    /\ inflight = None /\ linkage = [p \in Peers |-> None]
    /\ resume = 0 /\ verifying = FALSE
    /\ jobs = <<>> /\ job = None /\ reports = <<>> /\ alive = TRUE
    /\ inbox = <<>> /\ told \in SUBSET Peers /\ pc = "idle"
    /\ asked = [p \in Peers |-> <<>>]
    /\ behind = 0 /\ faults \in 0 .. MaxFaults

----------------------------------------------------------------------------
(* What a node serves from its active chain                                *)

\* GetBlocks: consecutive blocks from `start`, capped
ServeBlocks(tip, start) ==
    SubSeq(Chain[tip], start, Min({Height(tip), start + Batch - 1}))

\* locator_heights: the tip, then 1, 2, 4, .. below it, then genesis
LocatorHeights(tip) ==
    LET below(i) == IF i = 1 THEN 0 ELSE 2 ^ (i - 2)
        n == Cardinality({i \in 1 .. LocatorCap - 1 : below(i) < tip})
    IN  Append([i \in 1 .. n |-> tip - below(i)], 0)

BuildLocator(h) ==
    LET hs == LocatorHeights(Height(h))
    IN  [i \in 1 .. Len(hs) |-> BlockAt(h, hs[i])]

\* headers_from_fork_point: past the first locator entry on our active chain
HeadersFromForkPoint(tip, locator, stop) ==
    LET common == {i \in 1 .. Len(locator) : locator[i] \in Ancestry(tip)}
        fork == IF common = {} THEN 0
                ELSE Height(locator[Min(common)])
        upto == Min({Height(tip), fork + HeadersBatch})
        last == IF stop \in Range(SubSeq(Chain[tip], fork + 1, upto))
                THEN Height(stop) ELSE upto
    IN  SubSeq(Chain[tip], fork + 1, last)

\* headers_fork_point: the height of the known parent of a linked run
AttachesAt(headers) ==
    /\ headers # <<>> /\ ~poisoned
    /\ Prev[headers[1]] \in known
    /\ \A i \in 2 .. Len(headers) : Prev[headers[i]] = headers[i - 1]

\* SyncRequest::matches
Linked(bs) == \A i \in 2 .. Len(bs) : Prev[bs[i]] = bs[i - 1]

MatchesTipOnly(req, m) ==
    \/ req.kind = "GetBlock" /\ m.kind = "BlockResponse"
    \/ req.kind = "GetBlocks" /\ m.kind = "BlocksResponse"
    \/ /\ req.kind = "GetHeaders" /\ m.kind = "Headers"
       /\ m.blocks # <<>> => Prev[m.blocks[1]] = req.locator[1]

Matches(req, m) ==
    \/ /\ req.kind = "GetBlock" /\ m.kind = "BlockResponse"
       /\ m.block # None => Height(m.block) = req.height
    \/ /\ req.kind = "GetBlocks" /\ m.kind = "BlocksResponse"
       /\ Len(m.blocks) <= Batch /\ Linked(m.blocks)
       /\ m.blocks # <<>> => Height(m.blocks[1]) = req.height
    \/ /\ req.kind = "GetHeaders" /\ m.kind = "Headers"
       /\ Len(m.blocks) <= HeadersBatch
       /\ m.blocks # <<>> => Prev[m.blocks[1]] \in Range(req.locator)

MatchesLinkage(start, m) ==
    /\ m.kind = "Headers" /\ m.blocks # <<>>
    /\ Len(m.blocks) <= HeadersBatch
    /\ Height(m.blocks[1]) = start

----------------------------------------------------------------------------
(* Transport effects shared by the handlers                                *)

\* disconnect: the link, what was queued on it, and what the peer was asked
Cut(S) ==
    /\ conn' = conn \ S
    /\ asked' = [p \in Peers |-> IF p \in S THEN <<>> ELSE asked[p]]

\* penalize_peer: points, and a banned address loses its link
Penalized(p, points) == [score EXCEPT ![p] = Min({BanScore, @ + points})]

Banned(p) == score[p] >= BanScore

\* penalize_peer followed by an optional disconnect
Punish(p, points, hangUp) ==
    /\ score' = Penalized(p, points)
    /\ Cut(IF hangUp \/ score'[p] >= BanScore THEN {p} ELSE {})

\* tcp.send: a link we hold takes the frame; what a peer that does not
\* answer leaves unread beyond the bound is forgotten
Send(q, p, req) ==
    IF p \in Prompt \/ Len(q[p]) < MaxAsked THEN [q EXCEPT ![p] = Append(@, req)] ELSE q

----------------------------------------------------------------------------
(* Import, on the verifier thread                                          *)

\* import_and_persist of block b on a chain state c; `fails`: the append to
\* the block log fails, which latches durable_broken.  After that, or behind
\* a poisoned lock, nothing is imported.
ImportAndPersist(c, b, fails) ==
    LET open == ~c.broken /\ ~poisoned
        attaches == b \notin c.known /\ Prev[b] \in c.known
        enters == open /\ attaches /\ b \notin Invalid /\ PassesPins(cp, b)
        wins == Height(b) > Height(c.head) \/ (Height(b) = Height(c.head) /\ b < c.head)
        outcome == CASE enters -> IF fails THEN "Rejected" ELSE IF wins THEN "New" ELSE "SideBranch"
                     [] open /\ b \in c.known -> "Known"
                     [] open /\ attaches /\ ~enters -> "Invalid"
                     [] OTHER -> "Rejected"
    IN  [known |-> IF enters THEN c.known \cup {b} ELSE c.known,
         head |-> IF enters /\ wins THEN b ELSE c.head,
         broken |-> c.broken \/ (enters /\ fails),
         outcome |-> Append(c.outcome, <<Height(b), outcome>>)]

Stopped(outcome) == outcome # <<>> /\ outcome[Len(outcome)][2] \in {"Rejected", "Invalid"}

\* A write to the block log fails or not
MayFail == IF faults < MaxFaults THEN BOOLEAN ELSE {FALSE}

CountFault(fails) == faults' = IF fails THEN faults + 1 ELSE faults

Importing(j, rest) ==
    /\ j.blocks # <<>> /\ ~Stopped(j.outcome)
    /\ \E fails \in MayFail :
         LET c == ImportAndPersist([known |-> known, head |-> head, broken |-> broken,
                                    outcome |-> j.outcome], Head(j.blocks), fails)
         IN  /\ known' = c.known /\ head' = c.head /\ broken' = c.broken
             /\ job' = [j EXCEPT !.blocks = Tail(@), !.outcome = c.outcome]
             /\ CountFault(c.broken # broken)
    /\ jobs' = rest
    /\ UNCHANGED <<cp, poisoned, worker, reports, alive, net, told, pc, behind>>

\* The verifier thread takes a job, imports its blocks one by one under the
\* node lock ..
VerifierTakes ==
    /\ alive /\ job = None /\ jobs # <<>>
    /\ LET j == Head(jobs)
       IN  Importing([peer |-> j.peer, mode |-> j.mode, blocks |-> j.blocks, outcome |-> <<>>],
                     Tail(jobs))

VerifierImports ==
    /\ alive /\ job # None
    /\ Importing(job, jobs)

\* .. and, after one fsync, reports.
VerifierReports ==
    /\ alive /\ job # None
    /\ job.blocks = <<>> \/ Stopped(job.outcome)
    /\ \E fails \in MayFail : broken' = (broken \/ fails) /\ CountFault(fails)
    /\ reports' = Append(reports, [peer |-> job.peer, mode |-> job.mode,
                                   outcome |-> job.outcome])
    /\ job' = None
    /\ UNCHANGED <<known, head, cp, poisoned, worker, jobs, alive, net, told, pc, behind>>

\* The thread ends outside the node lock: its job and its queue are lost.
VerifierDies ==
    /\ alive /\ faults < MaxFaults
    /\ alive' = FALSE /\ job' = None /\ jobs' = <<>>
    /\ faults' = faults + 1
    /\ UNCHANGED <<chain, worker, reports, net, told, pc, behind>>

\* The thread panics inside import_block, where a build that unwinds poisons
\* the node lock for good.  (The release profile aborts: the process ends.)
VerifierPanics ==
    /\ alive /\ ~broken /\ ~poisoned /\ faults < MaxFaults
    /\ LET next == IF job # None THEN job.blocks ELSE IF jobs # <<>> THEN Head(jobs).blocks ELSE <<>>
       IN  next # <<>> /\ Head(next) \notin known
    /\ job # None => ~Stopped(job.outcome)
    /\ alive' = FALSE /\ job' = None /\ jobs' = <<>>
    /\ poisoned' = TRUE
    /\ faults' = faults + 1
    /\ UNCHANGED <<known, head, cp, broken, worker, reports, net, told, pc, behind>>

\* run_verify_job on the worker's own thread: the chain after its blocks,
\* where the append of the block at position `failing` fails (0: none)
RunVerifyJob(blocks, failing) ==
    LET after[n \in 0 .. Len(blocks)] ==
            IF n = 0
            THEN [known |-> known, head |-> head, broken |-> broken, outcome |-> <<>>]
            ELSE IF Stopped(after[n - 1].outcome) THEN after[n - 1]
            ELSE ImportAndPersist(after[n - 1], blocks[n], n = failing)
    IN  after[Len(blocks)]

\* What may fail of it: one append, the closing fsync (Len(blocks) + 1), or
\* nothing
Failures(blocks) == IF faults < MaxFaults THEN 0 .. Len(blocks) + 1 ELSE {0}

\* submit_verify: queue the job; a full queue drops it; a dead verifier
\* means the job runs here and now.
SubmitVerify(p, mode, blocks) ==
    IF alive
    THEN LET room == Len(jobs) < QueueDepth
         IN  /\ jobs' = IF room THEN Append(jobs, [peer |-> p, mode |-> mode, blocks |-> blocks])
                        ELSE jobs
             /\ verifying' = IF mode = "Announced" THEN verifying ELSE room
             /\ UNCHANGED <<known, head, broken, reports, faults>>
    ELSE \E failing \in Failures(blocks) :
         LET c == RunVerifyJob(blocks, failing)
         IN  /\ known' = c.known /\ head' = c.head
             /\ broken' = (c.broken \/ failing > Len(blocks)) /\ CountFault(failing > 0)
             /\ reports' = Append(reports, [peer |-> p, mode |-> mode, outcome |-> c.outcome])
             /\ verifying' = (mode # "Announced" \/ verifying)
             /\ UNCHANGED jobs

----------------------------------------------------------------------------
(* The worker: one message of the drained inbox                            *)

NoVerify == UNCHANGED <<known, head, broken, jobs, reports, verifying, faults>>
NoLinks == UNCHANGED <<conn, score, asked, quarantine>>

\* A Hello is checked against the channel the peer is on now; one that does
\* not verify quarantines the address.  The Version a peer sends with its
\* first Hello on a link is handled with it.
HandleHello(p, m) ==
    /\ UNCHANGED <<cp, inflight, linkage, score>> /\ NoVerify
    /\ IF p \in conn /\ m.gen = gen[p]
       THEN /\ book' = [book EXCEPT ![p].auth = TRUE, ![p].headers = p \notin legacy]
            /\ UNCHANGED <<conn, asked, quarantine>>
       ELSE /\ book' = [book EXCEPT ![p] = [NoBook EXCEPT !.replies = book[p].replies,
                                                          !.verified = book[p].verified]]
            /\ quarantine' = quarantine \cup {p}
            /\ Cut({p})

HandleStatus(p, m) ==
    LET b == [book[p] EXCEPT !.tip = m.tip, !.fresh = TRUE]
        start == IF Height(m.tip) > Height(head) THEN Height(head) + 1 ELSE Height(m.tip)
        next == IF poisoned THEN b.next
                ELSE IF m.tip = head THEN 0
                ELSE IF Height(m.tip) > Height(head) /\ b.next = 0 THEN start
                ELSE b.next
    IN  /\ book' = [book EXCEPT ![p] = [b EXCEPT !.next = next]]
        /\ UNCHANGED <<cp, inflight, linkage>> /\ NoVerify /\ NoLinks

HandleNewBlock(p, m) ==
    /\ SubmitVerify(p, "Announced", <<m.block>>)
    /\ UNCHANGED <<cp, book, inflight, linkage>> /\ NoLinks

IsReply(m) == m.kind \in {"BlockResponse", "BlocksResponse", "Headers"}

\* An answer without a block
Empty(m) ==
    \/ m.kind = "BlockResponse" /\ m.block = None
    \/ m.kind = "BlocksResponse" /\ m.blocks = <<>>

ForLinkage(p, m) == linkage[p] # None /\ MatchesLinkage(linkage[p].start, m)

ForFlight(p, m) ==
    /\ inflight # None /\ inflight.peer = p
    /\ Matches(inflight.req, m)

\* Headers: the next piece of the linkage proof, or the fork point we asked for
HandleHeaders(p, bk, hs) ==
    LET proof == /\ ~poisoned /\ ~CheckpointLinkageReady(cp) /\ hs # <<>>
                 /\ Height(hs[1]) = Max({LinkageNextHeight(cp), 1})
        r == ExtendCheckpointLinkage(cp, hs)
        b == bk[p]
    IN  /\ NoVerify /\ UNCHANGED quarantine
        /\ IF proof
           THEN /\ cp' = r.cp /\ book' = bk
                /\ IF r.ok THEN UNCHANGED <<conn, score, asked>>
                   ELSE Punish(p, InvalidBlockPenalty, FALSE)
           ELSE /\ UNCHANGED <<cp, conn, score, asked>>
                /\ book' = [bk EXCEPT ![p] =
                     IF AttachesAt(hs) THEN [b EXCEPT !.step = 0, !.next = Height(Prev[hs[1]]) + 1]
                     ELSE IF b.next > 0 THEN [b EXCEPT !.next = Max({b.next - 1, 1}), !.step = 1]
                     ELSE b]

\* A reply is consumed by the linkage request or the request in flight it
\* answers; any other one is dropped and changes nothing.
HandleReply(p, m) ==
    LET viaLinkage == ForLinkage(p, m)
        bk == [book EXCEPT ![p].replies = Min({@ + 1, MaxReplies + 1})]
    IN  /\ viaLinkage \/ ForFlight(p, m)
        /\ linkage' = IF viaLinkage THEN [linkage EXCEPT ![p] = None] ELSE linkage
        /\ inflight' = IF viaLinkage THEN inflight ELSE None
        /\ IF bk[p].replies > MaxReplies
           THEN /\ book' = bk /\ Punish(p, InvalidBlockPenalty, TRUE)
                /\ UNCHANGED <<cp, quarantine>> /\ NoVerify
           ELSE \/ /\ m.kind = "Headers"
                   /\ HandleHeaders(p, bk, m.blocks)
                \/ /\ m.kind = "BlockResponse" /\ ~Empty(m)
                   /\ SubmitVerify(p, "Backtrack", <<m.block>>)
                   /\ book' = bk /\ UNCHANGED cp /\ NoLinks
                \/ /\ m.kind = "BlocksResponse" /\ ~Empty(m)
                   /\ SubmitVerify(p, "Batch", m.blocks)
                   /\ book' = bk /\ UNCHANGED cp /\ NoLinks
                \/ /\ Empty(m)
                   /\ book' = [bk EXCEPT ![p].next = IF m.kind = "BlocksResponse" THEN 0 ELSE @]
                   /\ UNCHANGED cp /\ NoVerify /\ NoLinks

Ignore == UNCHANGED <<cp, book, inflight, linkage>> /\ NoVerify /\ NoLinks

\* SyncState::handle
Handle ==
    /\ pc = "drain" /\ inbox # <<>>
    /\ LET m == Head(inbox)
           p == m.from
       IN  \/ m.kind = "Hello" /\ HandleHello(p, m)
           \/ /\ m.kind # "Hello" /\ ~book[p].auth /\ Ignore
           \/ /\ book[p].auth
              /\ \/ m.kind = "Status" /\ HandleStatus(p, m)
                 \/ m.kind = "NewBlock" /\ HandleNewBlock(p, m)
                 \/ IsReply(m) /\ HandleReply(p, m)
                 \/ IsReply(m) /\ ~ForLinkage(p, m) /\ ~ForFlight(p, m) /\ Ignore
    /\ inbox' = Tail(inbox)
    /\ UNCHANGED <<poisoned, resume, job, alive, seeds, legacy, gen, told, pc, behind>>

\* A pass begins: the drain takes what has arrived.  A message that arrives
\* during a pass waits for the next one, so messages arrive between passes.
BeginPass ==
    /\ pc = "idle" /\ pc' = "drain"
    /\ UNCHANGED <<chain, worker, verifier, net, told, behind, faults>>

----------------------------------------------------------------------------
(* The worker: verification reports                                        *)

Accepted == {"New", "SideBranch", "Known"}

\* advance_or_done, on the bookkeeping b of one peer
AdvanceOrDone(b, h) ==
    [b EXCEPT !.next = IF b.tip # None /\ h < Height(b.tip) THEN h + 1 ELSE 0]

\* What any report says about the peer: progress forgives
Credited(b, r) ==
    LET stored == {o[1] : o \in {q \in Range(r.outcome) : q[2] \in {"New", "SideBranch"}}}
        top == IF stored = {} THEN 0 ELSE Max(stored)
        grown == r.mode # "Announced" /\ top > b.verified
        new == \E o \in Range(r.outcome) : o[2] = "New"
    IN  [b EXCEPT !.strikes = IF new THEN 0 ELSE @,
                  !.replies = IF new \/ grown THEN 0 ELSE @,
                  !.verified = IF grown THEN top ELSE @]

Rebook(p, b) == book' = [book EXCEPT ![p] = b]

NoCursor(b) == [b EXCEPT !.next = 0, !.step = 0]

\* apply_verify_report
ApplyVerifyReport(r) ==
    LET p == r.peer
        b == Credited(book[p], r)
        ok == {o[1] : o \in {q \in Range(r.outcome) : q[2] \in Accepted}}
        invalid == \E o \in Range(r.outcome) : o[2] = "Invalid"
        first == r.outcome[1]
        walk == Max({b.step, 1})
    IN  \/ /\ invalid
           /\ Rebook(p, IF r.mode = "Announced" THEN b ELSE NoCursor(b))
           /\ Punish(p, InvalidBlockPenalty, FALSE)
           /\ UNCHANGED <<inflight, resume>>
        \/ /\ ~invalid /\ r.mode = "Announced"
           /\ Rebook(p, b) /\ UNCHANGED <<inflight, resume, score, conn, asked>>
        \/ /\ ~invalid /\ r.mode # "Announced" /\ ok # {}
           /\ Rebook(p, AdvanceOrDone([b EXCEPT !.step = 0], Max(ok)))
           /\ resume' = Max(ok) + 1
           /\ UNCHANGED <<inflight, score, conn, asked>>
        \/ /\ ~invalid /\ r.mode = "Backtrack" /\ ok = {}
           /\ Rebook(p, [b EXCEPT !.next = Max({first[1] - walk, 1}),
                             !.step = Min({2 * walk, BacktrackCap})])
           /\ UNCHANGED <<inflight, resume, score, conn, asked>>
        \/ /\ ~invalid /\ r.mode = "Batch" /\ ok = {}
           /\ UNCHANGED <<resume, score, conn>>
           /\ IF b.headers /\ ~poisoned /\ p \in conn
              THEN LET req == [kind |-> "GetHeaders", locator |-> BuildLocator(head), stop |-> None]
                   IN  /\ asked' = Send(asked, p, req)
                       /\ inflight' = [peer |-> p, req |-> req, late |-> FALSE]
                       /\ Rebook(p, b)
              ELSE /\ Rebook(p, [b EXCEPT !.next = Max({first[1] - 1, 1}), !.step = 1])
                   /\ UNCHANGED <<inflight, asked>>

\* collect_verify_reports, one report ..
Collect ==
    /\ pc = "drain" /\ inbox = <<>> /\ reports # <<>>
    /\ verifying' = (verifying /\ Head(reports).mode = "Announced")
    /\ ApplyVerifyReport(Head(reports))
    /\ reports' = Tail(reports)
    /\ UNCHANGED <<chain, linkage, jobs, job, alive, seeds, legacy, gen, quarantine, inbox, told, pc,
                   behind, faults>>

CollectDoneUnwatched ==
    /\ pc = "drain" /\ inbox = <<>> /\ reports = <<>>
    /\ pc' = "request"
    /\ UNCHANGED <<chain, worker, verifier, net, told, behind, faults>>

\* .. and the watchdog once the channel is empty: a finished thread with a
\* pass still marked in progress is replaced.
CollectDone ==
    /\ pc = "drain" /\ inbox = <<>> /\ reports = <<>>
    /\ pc' = "request"
    /\ IF verifying /\ ~alive
       THEN verifying' = FALSE /\ alive' = TRUE
       ELSE UNCHANGED <<verifying, alive>>
    /\ UNCHANGED <<chain, book, inflight, linkage, resume, jobs, job, reports, net, told,
                   behind, faults>>

----------------------------------------------------------------------------
(* The worker: asking for what is missing                                  *)

\* retain_connected
Retained == [p \in Peers |-> IF p \in conn THEN book[p] ELSE NoBook]
RetainedLinkage == [p \in Peers |-> IF p \in conn THEN linkage[p] ELSE None]

\* The linkage request, to the one connected peer the set iteration yields
LinkageRequest == [kind |-> "GetHeaders",
                   locator |-> <<IF cp.pending = <<>> THEN head ELSE cp.pending[Len(cp.pending)]>>,
                   stop |-> NewestCheckpoint(cp)]

LinkageWanted(p) ==
    /\ ~CheckpointLinkageReady(cp)
    /\ p \in conn /\ book[p].auth
    /\ linkage[p] # None => linkage[p].late

\* status_actionable
StatusActionable(b) == b.fresh /\ b.strikes < MaxStrikes

Waiting == inflight # None /\ inflight.peer \in conn /\ ~inflight.late
BusyUnlessVerifying == Waiting

\* A batch is being verified, or the request in flight is within its
\* deadline: nothing more is asked and nobody is charged
Busy == verifying \/ Waiting

Stalled == IF inflight = None THEN {} ELSE {inflight.peer}

\* bk with a strike for every stalled peer
Struck(bk) ==
    [p \in Peers |-> IF p \in Stalled
                     THEN [bk[p] EXCEPT !.strikes = Min({@ + 1, StrikeDisconnect})]
                     ELSE bk[p]]

\* Peers ahead of us that we can ask
Claimants(bk) ==
    {p \in conn : bk[p].auth /\ bk[p].tip # None /\ Height(bk[p].tip) > Height(head)}

\* The peers request_missing may pick: the best claim first, or the least
\* struck claimant when no claim is actionable; a stalled peer only when it
\* is the one option left.
Picks(bk) ==
    LET preferred == {p \in Claimants(bk) : StatusActionable(bk[p])}
        pool == IF preferred # {} THEN preferred ELSE Claimants(bk)
        others == IF pool \ Stalled # {} THEN pool \ Stalled ELSE pool
        better(p, q) ==
            \/ preferred = {} /\ bk[p].strikes < bk[q].strikes
            \/ /\ preferred # {} \/ bk[p].strikes = bk[q].strikes
               /\ Height(bk[p].tip) > Height(bk[q].tip)
    IN  {p \in others : \A q \in others : ~better(q, p)}

\* The request for the chosen peer: its own cursor, else the resolved fork
\* point, else our tip
NextRequest(b) ==
    LET top == Height(b.tip)
        want == IF b.next > 0 THEN b.next
                ELSE IF resume > 0 THEN resume
                ELSE IF top > Height(head) THEN Height(head) + 1 ELSE top
    IN  [kind |-> IF b.step > 0 THEN "GetBlock" ELSE "GetBlocks",
         height |-> Max({1, Min({want, top})})]

\* The strike ladder on the peer that stalled
StrikeOut(bk) ==
    LET hit(p, n) == p \in Stalled /\ bk[p].strikes = n
        points(p) == IF hit(p, MaxStrikes) THEN UnsubstantiatedClaimPenalty
                     ELSE IF hit(p, StrikeDisconnect) THEN InvalidBlockPenalty ELSE 0
        total == [p \in Peers |-> Min({BanScore, score[p] + points(p)})]
    IN  [score |-> total,
         cut |-> {p \in Stalled : hit(p, StrikeDisconnect) \/ (points(p) > 0 /\ total[p] >= BanScore)}]

BehindActionable(bk) ==
    LET tops == {Height(bk[p].tip) : p \in {q \in Peers : bk[q].auth /\ bk[q].tip # None
                                                        /\ StatusActionable(bk[q])}}
    IN  IF tops # {} THEN Max({0, Max(tops) - Height(head)}) ELSE 0

\* telemetry: how far the tallest authenticated claim of bk is above us
LocalHeight == IF poisoned THEN 0 ELSE Height(head)

BehindBlocks(bk) ==
    LET auth == {p \in Peers : bk[p].auth}
        tops == {Height(bk[p].tip) : p \in {q \in auth : bk[q].tip # None}}
    IN  IF tops # {} THEN Max({0, Max(tops) - LocalHeight})
        ELSE IF auth # {} THEN Unknown ELSE 0

\* request_missing, then the telemetry is published and the pass ends
RequestMissing ==
    /\ pc = "request" /\ pc' = "idle" /\ ~poisoned
    /\ \E lp \in IF conn = {} THEN {None} ELSE conn :
       LET link == lp # None /\ LinkageWanted(lp)
           asked1 == IF link THEN Send(asked, lp, LinkageRequest) ELSE asked
           bk == Struck(Retained)
           out == StrikeOut(bk)
           conn1 == conn \ out.cut
           asked2 == [p \in Peers |-> IF p \in conn1 THEN asked1[p] ELSE <<>>]
       IN  /\ linkage' = IF link
                         THEN [RetainedLinkage EXCEPT ![lp] =
                                 [start |-> Max({LinkageNextHeight(cp), 1}), late |-> FALSE]]
                         ELSE RetainedLinkage
           /\ IF Busy
              THEN /\ book' = Retained /\ asked' = asked1
                   /\ UNCHANGED <<inflight, conn, score>>
              ELSE /\ book' = bk /\ score' = out.score /\ conn' = conn1
                   /\ IF Picks(bk) = {}
                      THEN inflight' = None /\ asked' = asked2
                      ELSE \E p \in Picks(bk) :
                             IF p \in conn1
                             THEN LET req == NextRequest(bk[p])
                                  IN  /\ inflight' = [peer |-> p, req |-> req, late |-> FALSE]
                                      /\ asked' = Send(asked2, p, req)
                             ELSE inflight' = None /\ asked' = asked2
    /\ behind' = BehindBlocks(book')
    /\ UNCHANGED <<chain, resume, verifying, verifier, seeds, legacy, gen, quarantine, inbox, told, faults>>

\* Behind a poisoned lock local_status has no answer: request_missing
\* returns at once
RequestNothing ==
    /\ pc = "request" /\ pc' = "idle" /\ poisoned
    /\ behind' = BehindBlocks(book)
    /\ UNCHANGED <<chain, worker, verifier, net, told, faults>>

----------------------------------------------------------------------------
(* The remote peers, the links and the clock                               *)

Hello(p, g) == [from |-> p, kind |-> "Hello", gen |-> g]
Status(p) == [from |-> p, kind |-> "Status", tip |-> Tip[p]]

Queued(p, kind) == \E m \in Range(inbox) : m.from = p /\ m.kind = kind

\* A link comes up (our dial; never to a banned or quarantined address) and
\* the peer greets us with a Hello bound to it.
Connect(p) ==
    /\ pc = "idle"
    /\ p \in seeds \ (conn \cup quarantine) /\ ~Banned(p)
    /\ ~\E m \in Range(inbox) : m = Hello(p, 1 - gen[p])
    /\ conn' = conn \cup {p}
    /\ gen' = [gen EXCEPT ![p] = 1 - @]
    /\ inbox' = Append(inbox, Hello(p, gen'[p]))
    /\ UNCHANGED <<chain, worker, verifier, seeds, legacy, quarantine, score, asked, told, pc,
                   behind, faults>>

Arrives(msgs) ==
    /\ pc = "idle" /\ inbox' = inbox \o msgs
    /\ UNCHANGED <<chain, worker, verifier, conn, seeds, legacy, gen, quarantine, score, pc, behind, faults>>

\* The peer's periodic announce: Hello and Status.  One that would change
\* nothing is left out.
Announce(p) ==
    /\ p \in conn /\ ~Queued(p, "Status")
    /\ inbox # <<>> \/ ~book[p].fresh \/ ~book[p].auth \/ book[p].next = 0
    /\ Arrives(<<Hello(p, gen[p]), Status(p)>>)
    /\ UNCHANGED <<asked, told>>

\* The peer gossips its tip, once
Gossip(p) ==
    /\ p \in conn /\ p \notin told
    /\ told' = told \cup {p}
    /\ Arrives(<<[from |-> p, kind |-> "NewBlock", block |-> Tip[p]]>>)
    /\ UNCHANGED asked

\* What p answers to a request; a peer whose storage failed serves no block
Reply(p, req, serves) ==
    CASE req.kind = "GetBlock" ->
           [from |-> p, kind |-> "BlockResponse",
            block |-> IF serves /\ req.height <= Height(Tip[p]) THEN BlockAt(Tip[p], req.height)
                      ELSE None]
      [] req.kind = "GetBlocks" ->
           [from |-> p, kind |-> "BlocksResponse",
            blocks |-> IF serves THEN ServeBlocks(Tip[p], req.height) ELSE <<>>]
      [] req.kind = "GetHeaders" ->
           [from |-> p, kind |-> "Headers",
            blocks |-> HeadersFromForkPoint(Tip[p], req.locator, req.stop)]

PeerAnswers(p) ==
    /\ asked[p] # <<>>
    /\ Arrives(<<Reply(p, Head(asked[p]), p \notin Mute)>>)
    /\ asked' = [asked EXCEPT ![p] = Tail(@)]
    /\ UNCHANGED told

\* No answer to a request of p can come any more in time: p is not prompt,
\* or the link that carried the request is gone.
Overdue(p) ==
    \/ p \notin Prompt
    \/ asked[p] = <<>> /\ ~\E m \in Range(inbox) : m.from = p /\ IsReply(m)

\* Deadlines: of the request in flight, of a linkage request, of a Status;
\* each is read when request_missing begins
Expires ==
    /\ pc = "request" /\ inflight # None /\ ~inflight.late
    /\ Overdue(inflight.peer)
    /\ inflight' = [inflight EXCEPT !.late = TRUE]
    /\ UNCHANGED <<chain, book, linkage, resume, verifying, verifier, net, told, pc, behind,
                   faults>>

LinkageExpires(p) ==
    /\ pc = "request" /\ linkage[p] # None /\ ~linkage[p].late
    /\ Overdue(p)
    /\ linkage' = [linkage EXCEPT ![p].late = TRUE]
    /\ UNCHANGED <<chain, book, inflight, resume, verifying, verifier, net, told, pc, behind,
                   faults>>

StatusExpires(p) ==
    /\ pc = "request" /\ p \notin Prompt /\ book[p].fresh
    /\ book' = [book EXCEPT ![p].fresh = FALSE]
    /\ UNCHANGED <<chain, inflight, linkage, resume, verifying, verifier, net, told, pc, behind,
                   faults>>

\* A ban runs out, long after the worker has forgotten the peer
BanExpires(p) ==
    /\ Banned(p) /\ book[p] = NoBook
    /\ score' = [score EXCEPT ![p] = 0]
    /\ UNCHANGED <<chain, worker, verifier, conn, seeds, legacy, gen, quarantine, inbox, asked, told, pc, behind,
                   faults>>

\* A link is lost, with the requests it carried (also the sweeps of the
\* worker, which close idle and unauthenticated links)
Drop(p) ==
    /\ p \in conn /\ faults < MaxFaults
    /\ Cut({p}) /\ faults' = faults + 1
    /\ UNCHANGED <<chain, worker, verifier, seeds, legacy, gen, quarantine, score, inbox, told, pc, behind>>

----------------------------------------------------------------------------

Worker == BeginPass \/ Handle \/ Collect \/ CollectDone \/ RequestMissing \/ RequestNothing
Verifier == VerifierTakes \/ VerifierImports \/ VerifierReports

Environment ==
    \/ VerifierDies \/ VerifierPanics \/ Expires
    \/ \E p \in Peers : \/ Connect(p) \/ Announce(p) \/ Gossip(p) \/ PeerAnswers(p)
                        \/ LinkageExpires(p) \/ StatusExpires(p) \/ BanExpires(p)
                        \/ Drop(p)

Next == Worker \/ Verifier \/ Environment

Spec == Init /\ [][Next]_vars

\* Both threads run; deadlines and bans run out; the dialer retries, and a
\* prompt peer answers and announces.  Strongly fair is what happens in real
\* time whatever the worker does and the model lets land at one point of a
\* pass only.
Fairness ==
    /\ WF_vars(Worker) /\ WF_vars(Verifier) /\ SF_vars(Expires)
    /\ \A p \in Prompt : /\ SF_vars(Connect(p)) /\ WF_vars(BanExpires(p))
                         /\ SF_vars(PeerAnswers(p)) /\ SF_vars(Announce(p))

FairSpec == Spec /\ Fairness

----------------------------------------------------------------------------
(* Properties                                                              *)

Batches(s) == {i \in 1 .. Len(s) : s[i].mode # "Announced"}

\* Where a catch-up batch is: queued, on the verifier, or reported
CatchUpWork ==
    {<<"queued", i>> : i \in Batches(jobs)} \cup {<<"reported", i>> : i \in Batches(reports)}
    \cup (IF job # None /\ job.mode # "Announced" THEN {<<"running", 1>>} ELSE {})

\* The shapes of the worker's state, and one catch-up batch at a time: while
\* request_missing may ask for more, nothing is being verified, and the
\* verifier, its queue and the report channel never hold two batches.
OneBatchAtATime ==
    /\ head \in known /\ known \subseteq Blocks \cup {Genesis}
    /\ \A b \in known \ {Genesis} : Prev[b] \in known
    /\ CheckpointType(cp)
    /\ \A u, v \in CatchUpWork : u = v
    /\ CatchUpWork # {} => verifying
    /\ verifying => CatchUpWork # {} \/ ~alive

\* The linkage proof, assembled from several peers' answers over lost links:
\* what is pending is a path from genesis, and `linked` is empty or exactly
\* the ancestry of the newest pin, so assume-valid never skips the seal of a
\* block that is not an ancestor of the pin.
LinkageSound ==
    /\ \A i \in 1 .. Len(cp.pending) : cp.pending[i] = BlockAt(cp.pending[Len(cp.pending)], i - 1)
    /\ cp.linked # {} => cp.linked = Ancestry(NewestCheckpoint(cp))

\* A peer that serves a valid chain
Honest(p) ==
    /\ p \notin Mute /\ Ancestry(Tip[p]) \cap Invalid = {}
    /\ \A b \in Ancestry(Tip[p]) : PassesPins(cp, b)

\* A peer that answers every request in time is not charged with a stall,
\* however slow the verifier thread is and whatever request its answers
\* are taken for: a link lost under a request costs it strikes, but one loss
\* is never enough to deprioritise it.
PromptUnblamed ==
    faults <= 1 => \A p \in Prompt : book[p].strikes < MaxStrikes

\* telemetry fails closed: when a pass ends, the deficit it published counts
\* every authenticated claim, also of a peer that is struck out or stale.
GateFailsClosed ==
    pc = "idle" =>
        \A p \in Peers :
            book[p].auth /\ book[p].tip # None /\ Height(book[p].tip) > Height(head)
                => behind >= Height(book[p].tip) - Height(head)

\* Catch-up never wedges: with one prompt peer on a valid heavier chain, the
\* head reaches that peer's height, past struck-out, silent and withholding
\* peers, our own fork, lost links and a dead verifier; unless the log
\* failed, the peer's address was quarantined, or the verifier panicked
\* inside an import.  That last exception is what the watchdog promises to
\* survive ("catch-up re-requests the interrupted batch and keeps making
\* progress"), and it does not: behind the poisoned lock no thread, neither
\* the respawned one nor the worker itself, moves the chain again.
CatchesUp ==
    /\ \A p \in Prompt : p \in seeds /\ Honest(p) =>
          <>(Height(head) >= Height(Tip[p]) \/ broken \/ poisoned \/ p \in quarantine)
    /\ [][poisoned => UNCHANGED <<known, head, cp>>]_vars

=============================================================================
