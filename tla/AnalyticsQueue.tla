--------------------------- MODULE AnalyticsQueue ---------------------------
(***************************************************************************)
(* How captured events leave the browser (tracker_script/src/analytics.js).*)
(*                                                                         *)
(* A page queues clicks and the newest observation of a sampled type (a    *)
(* move).  A flush moves the queue to localStorage under the id of the tab *)
(* and then sweeps: it takes one stored snapshot after the other out of    *)
(* the storage, its own first and then those other tabs have left alone    *)
(* for long, sends it, and puts it back if that fails.                     *)
(*                                                                         *)
(* A page runs one task at a time.  Pages share the storage but not always *)
(* a process, and nothing locks it: any other page may run between the     *)
(* read and the write of a merge, and between the read and the removal of  *)
(* a claim.  What is overwritten, removed unread or written back by such a *)
(* race is noted (excused, repeated), and nothing else is.                 *)
(***************************************************************************)
EXTENDS Integers, FiniteSets

CONSTANTS
    Pages,          \* places for an open page
    Keys,           \* tab ids, the names of the snapshots in localStorage
    Clicks,         \* clicks that may be captured
    Refused,        \* those the server answers with an error, whatever comes with them
    None,           \* a page that is not open; a merge or a sweep of no snapshot
    BatchSize,      \* analyticsBatchSize
    StorageMayFill, \* whether a write to localStorage may fail
    PagesMayCrash,  \* whether a page may go without a pagehide event
    \* bounds of the model
    MaxMoves,       \* moves that are captured
    MaxClosings     \* pages that are closed

VARIABLES
    tab,       \* the id of the tab a page is in
    queue,     \* clickQueue and pendingPassiveEvents of a page
    store,     \* localStorage
    stale,     \* keys not written for orphanedAnalyticsMaxAgeMs
    merge,     \* persistSnapshotToStorage of a page, and what its task does then
    sweep,     \* processPendingStorage of a page
    arrived,   \* what the server has stored
    \* history
    captured,  \* clicks that have happened
    moves,     \* the number of the newest move, and of the newest one of a tab
    closings,  \* pages closed so far
    excused,   \* what went with a page, with a full storage or in a race of two pages
    repeated   \* clicks a lost answer or a race of two pages may have doubled

history == <<captured, moves, closings>>

vars == <<tab, queue, store, stale, merge, sweep, arrived, history, excused, repeated>>

ASSUME QueueAssumption ==
    /\ BatchSize \in Nat \ {0} /\ MaxMoves \in Nat /\ MaxClosings \in Nat
    /\ Refused \subseteq Clicks /\ None \notin Keys
    /\ StorageMayFill \in BOOLEAN /\ PagesMayCrash \in BOOLEAN

\* The clicks, and the number of the move or 0.
Snapshot == [clicks: SUBSET Clicks, move: 0 .. MaxMoves]

Nothing == [clicks |-> {}, move |-> 0]

Events == [clicks: SUBSET Clicks, moves: SUBSET (1 .. MaxMoves)]

\* A merge that has read the snapshot of a key and has not written it; once it is
\* done, the rest of its task: to sweep, to leave the page, or nothing.
Merge == [key: Keys \union {None}, read: Snapshot, own: Snapshot,
          then: {"rest", "flush", "leave", "restore"}]

NoMerge == [key |-> None, read |-> Nothing, own |-> Nothing, then |-> "rest"]

\* A sweep that has claimed a key has read its snapshot, then removed it.
Sweep == [phase: {"rest", "read", "flight"}, todo: SUBSET Keys,
          key: Keys \union {None}, claim: Snapshot]

Idle == [phase |-> "rest", todo |-> {}, key |-> None, claim |-> Nothing]

TypeOK ==
    /\ tab \in [Pages -> Keys \union {None}]
    /\ queue \in [Pages -> Snapshot] /\ store \in [Keys -> Snapshot]
    /\ stale \subseteq {k \in Keys : store[k] # Nothing}
    /\ merge \in [Pages -> Merge] /\ sweep \in [Pages -> Sweep]
    /\ arrived \in Events
    /\ captured \subseteq Clicks /\ closings \in 0 .. MaxClosings
    /\ moves \in [last: 0 .. MaxMoves, of: [Keys -> 0 .. MaxMoves]]
    /\ excused \in Events /\ repeated \subseteq Clicks

Init ==
    /\ tab = [p \in Pages |-> None] /\ queue = [p \in Pages |-> Nothing]
    /\ store = [k \in Keys |-> Nothing] /\ stale = {}
    /\ merge = [p \in Pages |-> NoMerge] /\ sweep = [p \in Pages |-> Idle]
    /\ arrived = [clicks |-> {}, moves |-> {}]
    /\ captured = {} /\ closings = 0
    /\ moves = [last |-> 0, of |-> [k \in Keys |-> 0]]
    /\ excused = [clicks |-> {}, moves |-> {}] /\ repeated = {}

-----------------------------------------------------------------------------
(* Snapshots.                                                              *)

MovesOf(s) == {s.move} \ {0}

\* Mutant of PickNewestEvent: the one that comes back wins.
PickRestoredEvent(current, restored) ==
    IF restored # 0 THEN restored ELSE current

PickNewestEvent(current, restored) ==
    IF current >= restored THEN current ELSE restored

\* Mutant of Merged: what is stored is written over.
MergedOver(s, next) == next

Merged(s, next) ==
    [clicks |-> s.clicks \union next.clicks, move |-> PickNewestEvent(s.move, next.move)]

\* With these snapshots: all that is in them is gone.
Excusing(S) ==
    excused' = [clicks |-> excused.clicks \union UNION {s.clicks : s \in S},
                moves |-> excused.moves \union UNION {MovesOf(s) : s \in S}]

\* What a page alone holds of a claim: before the removal it is still stored.
Claimed(p) == IF sweep[p].phase = "flight" THEN sweep[p].claim ELSE Nothing

\* What goes with a page.
Alone(p) == {queue[p], merge[p].own, Claimed(p)}

\* Every snapshot there is.
Held == {store[k] : k \in Keys} \union UNION {Alone(p) : p \in Pages}

\* What is removed or written over although it was not read.
Overrun(now, read) ==
    [clicks |-> now.clicks \ read.clicks,
     move |-> IF now.move = read.move THEN 0 ELSE now.move]

-----------------------------------------------------------------------------
(* Capturing and persisting.                                               *)

Running(p) == tab[p] # None

\* No task of the page is running: it may react to an event.
AtRest(p) ==
    /\ Running(p) /\ merge[p] = NoMerge
    /\ sweep[p].phase = "flight" \/ sweep[p] = Idle

\* The queue q is taken and what is stored is read; the task goes on after the write,
\* or at once if there is nothing to write.
PersistQueueToStorage(p, q, then) ==
    /\ queue' = [queue EXCEPT ![p] = Nothing]
    /\ merge' = [merge EXCEPT ![p] =
          IF q = Nothing THEN [NoMerge EXCEPT !.then = then]
          ELSE [key |-> tab[p], read |-> store[tab[p]], own |-> q, then |-> then]]

\* A click that leads to another page is persisted; one that fills a batch is sent.
Click(p, c) ==
    /\ AtRest(p) /\ c \notin captured
    /\ captured' = captured \union {c}
    /\ LET q == [queue[p] EXCEPT !.clicks = @ \union {c}]
       IN  \/ PersistQueueToStorage(p, q, "rest")
           \/ /\ Cardinality(q.clicks) < BatchSize
              /\ queue' = [queue EXCEPT ![p] = q]
              /\ UNCHANGED merge
           \/ /\ Cardinality(q.clicks) >= BatchSize
              /\ PersistQueueToStorage(p, q, "flush")
    /\ UNCHANGED <<tab, store, stale, sweep, arrived, moves, closings, excused, repeated>>

\* One type of sampled event stands for all: they do not meet.
CapturePassiveEvent(p) ==
    /\ AtRest(p) /\ moves.last < MaxMoves
    /\ LET n == moves.last + 1
       IN  /\ queue' = [queue EXCEPT ![p].move = n]
           /\ moves' = [last |-> n, of |-> [moves.of EXCEPT ![tab[p]] = n]]
    /\ UNCHANGED <<tab, store, stale, merge, sweep, arrived, captured, closings, excused,
                   repeated>>

\* The flush timer, or a call of flush(): nothing comes of it while a sweep is under way
\* and there is nothing to persist.
Flush(p) ==
    /\ AtRest(p)
    /\ queue[p] # Nothing \/ sweep[p] = Idle
    /\ PersistQueueToStorage(p, queue[p], "flush")
    /\ UNCHANGED <<tab, store, stale, sweep, arrived, history, excused, repeated>>

\* The page is hidden.
Hide(p) ==
    /\ AtRest(p) /\ queue[p] # Nothing
    /\ PersistQueueToStorage(p, queue[p], "rest")
    /\ UNCHANGED <<tab, store, stale, sweep, arrived, history, excused, repeated>>

\* What the task does when its merge is done.
After(m) == [NoMerge EXCEPT !.then = IF m.then = "restore" THEN "rest" ELSE m.then]

\* The snapshot as it was read, with the page's own events, replaces what is stored now.
MergeWrite(p) ==
    LET m == merge[p]
        now == store[m.key]
    IN  /\ m.key # None
        /\ store' = [store EXCEPT ![m.key] = Merged(m.read, m.own)]
        /\ stale' = stale \ {m.key}
        /\ merge' = [merge EXCEPT ![p] = After(m)]
        /\ Excusing({Overrun(now, m.read)})
        /\ repeated' = repeated \union (m.read.clicks \ now.clicks)
        /\ UNCHANGED <<tab, queue, sweep, arrived, history>>

\* The storage is full: the events come back to the queue, those of a claim do not.
MergeFails(p) ==
    LET m == merge[p]
    IN  /\ StorageMayFill /\ m.key # None
        /\ IF m.then = "restore"
           THEN Excusing({m.own}) /\ UNCHANGED queue
           ELSE queue' = [queue EXCEPT ![p] = m.own] /\ UNCHANGED excused
        /\ merge' = [merge EXCEPT ![p] = After(m)]
        /\ UNCHANGED <<tab, store, stale, sweep, arrived, history, repeated>>

\* Time passes.
Age(k) ==
    /\ store[k] # Nothing /\ k \notin stale
    /\ stale' = stale \union {k}
    /\ UNCHANGED <<tab, queue, store, merge, sweep, arrived, history, excused, repeated>>

-----------------------------------------------------------------------------
(* Pages.                                                                  *)

\* A new tab, a reload, or a duplicate, which has the id of the tab it copies.
OpenPage(p, k) ==
    /\ ~ Running(p)
    /\ tab' = [tab EXCEPT ![p] = k]
    /\ UNCHANGED <<queue, store, stale, merge, sweep, arrived, history, excused, repeated>>

Stored(s) ==
    arrived' = [clicks |-> arrived.clicks \union s.clicks,
                moves |-> arrived.moves \union MovesOf(s)]

RefusedClaim(s) == s.clicks \intersect Refused # {}

\* The browser cancels the request of a page that goes (no keepalive); the server
\* may have it already.
Cancelled(p) ==
    \/ UNCHANGED arrived
    \/ /\ sweep[p].phase = "flight" /\ ~ RefusedClaim(sweep[p].claim)
       /\ Stored(sweep[p].claim)

Gone(p) ==
    /\ tab' = [tab EXCEPT ![p] = None]
    /\ queue' = [queue EXCEPT ![p] = Nothing]
    /\ merge' = [merge EXCEPT ![p] = NoMerge]
    /\ sweep' = [sweep EXCEPT ![p] = Idle]
    /\ Cancelled(p)
    /\ Excusing(Alone(p))
    /\ UNCHANGED <<store, stale, captured, moves, repeated>>

\* The visitor leaves the page: pagehide persists the queue first.
Close(p) ==
    /\ AtRest(p)
    /\ closings < MaxClosings /\ closings' = closings + 1
    /\ PersistQueueToStorage(p, queue[p], "leave")
    /\ UNCHANGED <<tab, store, stale, sweep, arrived, captured, moves, excused, repeated>>

Leave(p) ==
    /\ merge[p] = [NoMerge EXCEPT !.then = "leave"]
    /\ Gone(p)
    /\ UNCHANGED closings

\* The browser kills the page.
Crash(p) ==
    /\ PagesMayCrash /\ Running(p)
    /\ closings < MaxClosings /\ closings' = closings + 1
    /\ Gone(p)

-----------------------------------------------------------------------------
(* A sweep.                                                                *)

\* The sweep of a flush, after its merge, takes the page's own key and the orphaned
\* ones.  A page that is still sweeping does not start again.
StartSweep(p) ==
    /\ merge[p] = [NoMerge EXCEPT !.then = "flush"]
    /\ merge' = [merge EXCEPT ![p] = NoMerge]
    /\ sweep' = IF sweep[p] = Idle
                THEN [sweep EXCEPT ![p].todo = {tab[p]} \union stale] ELSE sweep
    /\ UNCHANGED <<tab, queue, store, stale, arrived, history, excused, repeated>>

\* The page's own key comes first, the others in the order of the storage.
NextKey(p, k) ==
    /\ merge[p] = NoMerge
    /\ sweep[p].phase = "rest" /\ k \in sweep[p].todo
    /\ tab[p] \in sweep[p].todo => k = tab[p]

ClaimRead(p, k) ==
    /\ NextKey(p, k)
    /\ sweep' = [sweep EXCEPT ![p] = [phase |-> "read", todo |-> sweep[p].todo \ {k},
                                      key |-> k, claim |-> store[k]]]
    /\ UNCHANGED <<tab, queue, store, stale, merge, arrived, history, excused, repeated>>

\* Mutant of Settled: a failure ends the sweep.
SettledAll(p) == [sweep EXCEPT ![p] = Idle]

\* The sweep goes on with the next key, whatever came of this one.
Settled(p) == [sweep EXCEPT ![p] = [Idle EXCEPT !.todo = sweep[p].todo]]

\* A claim of something is sent.
Sent(p) == IF sweep[p].claim = Nothing THEN Settled(p)
           ELSE [sweep EXCEPT ![p].phase = "flight"]

\* Mutant of ClaimRemove: the snapshot stays until it is answered.
ClaimKept(p) ==
    /\ sweep[p].phase = "read"
    /\ sweep' = Sent(p)
    /\ UNCHANGED <<tab, queue, store, stale, merge, arrived, history, excused, repeated>>

\* The key is removed, also where nothing was read, and with what is stored by now.
ClaimRemove(p) ==
    LET k == sweep[p].key
        claim == sweep[p].claim
    IN  /\ sweep[p].phase = "read"
        /\ store' = [store EXCEPT ![k] = Nothing]
        /\ stale' = stale \ {k}
        /\ sweep' = Sent(p)
        /\ Excusing({Overrun(store[k], claim)})
        /\ repeated' = repeated \union (claim.clicks \ store[k].clicks)
        /\ UNCHANGED <<tab, queue, merge, arrived, history>>

\* A request is under way and the page is free to take its answer.
Waiting(p) == sweep[p].phase = "flight" /\ merge[p] = NoMerge

Accepted(p) ==
    /\ Waiting(p) /\ ~ RefusedClaim(sweep[p].claim)
    /\ Stored(sweep[p].claim)
    /\ sweep' = Settled(p)
    /\ UNCHANGED <<tab, queue, store, stale, merge, history, excused, repeated>>

\* The claim is to be merged with what is stored under its key by now.
RestoreClaimedSnapshot(p) ==
    LET k == sweep[p].key
    IN  merge' = [merge EXCEPT ![p] = [key |-> k, read |-> store[k],
                                       own |-> sweep[p].claim, then |-> "restore"]]

\* No answer, or an error: the server may have stored the events all the same.
Failed(p) ==
    /\ Waiting(p)
    /\ RestoreClaimedSnapshot(p)
    /\ sweep' = Settled(p)
    /\ \/ UNCHANGED <<arrived, repeated>>
       \/ /\ ~ RefusedClaim(sweep[p].claim)
          /\ Stored(sweep[p].claim)
          /\ repeated' = repeated \union sweep[p].claim.clicks
    /\ UNCHANGED <<tab, queue, store, stale, history, excused>>

-----------------------------------------------------------------------------

Visitor ==
    \/ \E p \in Pages : \/ \E c \in Clicks : Click(p, c)
                        \/ CapturePassiveEvent(p) \/ Hide(p) \/ Close(p) \/ Crash(p)
    \/ \E p \in Pages, k \in Keys : OpenPage(p, k)

\* The rest of a task, which no event of the page interrupts.
Working(p) ==
    \/ MergeWrite(p) \/ StartSweep(p) \/ Leave(p)
    \/ \E k \in Keys : ClaimRead(p, k)
    \/ ClaimRemove(p)

Answer(p) == Accepted(p) \/ Failed(p)

Next ==
    \/ Visitor
    \/ \E k \in Keys : Age(k)
    \/ \E p \in Pages : Flush(p) \/ Working(p) \/ MergeFails(p) \/ Answer(p)

Spec == Init /\ [][Next]_vars

\* A visitor with no page open comes back.
Return == (\A p \in Pages : ~ Running(p)) /\ \E p \in Pages, k \in Keys : OpenPage(p, k)

\* The timers of an open page fire, its tasks end, time passes, every request is
\* answered or fails, and the server does not fail for ever.
Fairness ==
    /\ WF_vars(Return)
    /\ \A k \in Keys : WF_vars(Age(k))
    /\ \A p \in Pages : /\ WF_vars(Flush(p)) /\ WF_vars(Working(p)) /\ WF_vars(Answer(p))
                        /\ SF_vars(Accepted(p))

LiveSpec == Spec /\ Fairness

-----------------------------------------------------------------------------
(* Properties.                                                             *)

\* A captured click is in a queue, in the storage, under way or at the server: of
\* several pages that persist, claim and restore the same snapshots none loses one,
\* but for a page that goes, a full storage, or a write by another page between the
\* read of a snapshot and its removal or replacement.
NothingLost ==
    \A c \in captured :
        \/ c \in arrived.clicks \union excused.clicks
        \/ \E s \in Held : c \in s.clicks

\* The newest move of a tab is never the one that gives way: neither a restored
\* snapshot nor a persisted queue replaces it by an older one.
NewestMoveKept ==
    \A k \in Keys : moves.of[k] # 0 =>
        \/ moves.of[k] \in arrived.moves \union excused.moves
        \/ \E s \in Held : s.move = moves.of[k]

\* Where a click is: with the server, in the storage, or with a page alone.
Places(c) ==
    {<<"server", None>> : x \in {c} \intersect arrived.clicks}
        \union {<<"store", k>> : k \in {k \in Keys : c \in store[k].clicks}}
        \union {<<"queue", p>> : p \in {p \in Pages : c \in queue[p].clicks}}
        \union {<<"merge", p>> : p \in {p \in Pages : c \in merge[p].own.clicks}}
        \union {<<"claim", p>> : p \in {p \in Pages : c \in Claimed(p).clicks}}

\* Only a lost answer, or a page that removes or replaces a snapshot after another has
\* claimed what was read of it, lets a click be in two places and so reach the server
\* twice; duplicated tabs and orphans do not.
SentOnce == \A c \in Clicks \ repeated : \A x, y \in Places(c) : x = y

\* A click that is not stored together with a refused one arrives, whichever page it
\* was captured on, although that page's storage may be left to others and although
\* refused snapshots are tried again for ever.
EverythingArrives ==
    \A c \in Clicks \ Refused :
        c \in captured ~> \/ c \in arrived.clicks \union excused.clicks
                          \/ \E s \in Held : c \in s.clicks /\ RefusedClaim(s)

\* "Dropping a pending event on a failed flush would be silent, which is exactly
\* the bug worth designing out."
NeverDropped ==
    \A c \in captured :
        c \in arrived.clicks \/ \E s \in Held : c \in s.clicks

-----------------------------------------------------------------------------
(* The inductive invariant behind them.                                    *)

\* A page that is not open has nothing under way.  A merge that has read has a key,
\* its own tab's unless it restores a claim; the queue is empty unless it does.
TasksSound ==
    \A p \in Pages :
        /\ ~ Running(p) => queue[p] = Nothing /\ merge[p] = NoMerge /\ sweep[p] = Idle
        /\ merge[p].key = None => merge[p].read = Nothing /\ merge[p].own = Nothing
        /\ merge[p].key # None /\ merge[p].then # "restore" =>
              merge[p].key = tab[p] /\ queue[p] = Nothing
        /\ sweep[p].phase # "rest" => sweep[p].key \in Keys

\* What is kept under a tab id holds no move that is newer than the tab's newest.
MovesNumbered ==
    /\ \A k \in Keys : moves.of[k] <= moves.last /\ store[k].move <= moves.of[k]
    /\ \A p \in Pages :
          /\ Running(p) => queue[p].move <= moves.of[tab[p]]
          /\ merge[p].key # None => /\ merge[p].read.move <= moves.of[merge[p].key]
                                    /\ merge[p].own.move <= moves.of[merge[p].key]
          /\ sweep[p].phase # "rest" => sweep[p].claim.move <= moves.of[sweep[p].key]

\* The snapshots kept under a tab id: with another's moves they are never merged.
HeldOf(k) ==
    {store[k]} \union {queue[p] : p \in {q \in Pages : tab[q] = k}}
        \union {merge[p].own : p \in {q \in Pages : merge[q].key = k}}
        \union {Claimed(p) : p \in {q \in Pages : sweep[q].key = k}}

\* The newest move of a tab is among the snapshots kept under its id.
NewestMoveAtHome ==
    \A k \in Keys : moves.of[k] # 0 =>
        \/ moves.of[k] \in arrived.moves \union excused.moves
        \/ \E s \in HeldOf(k) : s.move = moves.of[k]

\* Nothing is anywhere that was not captured, so a new click is in one place.
CapturedFirst ==
    /\ arrived.clicks \subseteq captured
    /\ \A k \in Keys : store[k].clicks \subseteq captured
    /\ \A p \in Pages :
          /\ queue[p].clicks \subseteq captured
          /\ merge[p].read.clicks \subseteq captured
          /\ merge[p].own.clicks \subseteq captured
          /\ sweep[p].claim.clicks \subseteq captured

\* What every step preserves; without the numbering a merge could take the older move.
IInv ==
    /\ TypeOK
    /\ TasksSound
    /\ MovesNumbered
    /\ NothingLost
    /\ NewestMoveAtHome
    /\ CapturedFirst
    /\ SentOnce

=============================================================================
