---------------------------- MODULE ReplayStream ----------------------------
(***************************************************************************)
(* The server's side of a session replay (tracker/replay_streaming.py).    *)
(*                                                                         *)
(* A recording is delivered in bounded answers: a bootstrap up to the      *)
(* first replayable snapshot and a little more, then chunks that continue  *)
(* at a cursor, and seeks that start again at the latest snapshot before   *)
(* their target.  The server keeps nothing between two answers: a cursor   *)
(* carries the highest event id of the bootstrap, the position and the tab *)
(* that was last used.                                                     *)
(*                                                                         *)
(* An event gets its id when it is inserted and can be read when that      *)
(* request commits, so an event with a lower id may appear after one with  *)
(* a higher id, and its time says nothing about either.                    *)
(*                                                                         *)
(* Times are relative to the first event.  The model has valid events      *)
(* only, every Meta has a viewport, and an event in an answer takes as     *)
(* many bytes as it takes in the database.                                 *)
(***************************************************************************)
EXTENDS Integers, FiniteSets, Sequences, SequencesExt

CONSTANTS
    Recordings,       \* the visits a viewer may open: sets of events
    None,             \* no position, no tab, no URL, no target
    BootstrapWindow, BootstrapLimit,  \* of a bootstrap, in time and events
    ChunkWindow, ChunkLimit,          \* of a chunk and of a seek
    MaxBytes,         \* of any answer
    SwitchBytes,      \* of a tab switch in an answer
    Prefetch,         \* how far ahead of the player events are fetched
    MaxLate           \* bound: events still to be committed at the start

Kinds == {"meta", "snapshot", "activity", "other"}

\* Where the next answer goes on: after an event, with the tab used last, to
\* the target of a seek.
Cursors ==
    [watermark : Nat, after : UNION Recordings,
     tab : {e.tab : e \in UNION Recordings} \union {None}, target : Nat \union {None}]

ASSUME StreamAssumption ==
    /\ None \notin Cursors
    /\ \A recording \in Recordings : IsFiniteSet(recording) /\ None \notin recording
    /\ \A recording \in Recordings : \A e \in recording :
         /\ {e.id, e.size} \subseteq Nat \ {0} /\ e.at \in Nat
         /\ e.tab # None /\ e.kind \in Kinds
         /\ \A f \in recording : e.id = f.id => e = f
    /\ {BootstrapLimit, ChunkLimit, ChunkWindow} \subseteq Nat \ {0}
    /\ {BootstrapWindow, MaxBytes, SwitchBytes, Prefetch, MaxLate} \subseteq Nat

VARIABLES
    stored,    \* the events of the visit that a query sees
    arriving   \* events that have an id and are not committed yet

stream == <<stored, arriving>>

-----------------------------------------------------------------------------
\* The order of delivery: by time, then by id.
Precedes(e, f) == e.at < f.at \/ (e.at = f.at /\ e.id < f.id)

OrderedEvents(watermark) == {e \in stored : e.id <= watermark}

\* Mutant of PositionAfter: by the time alone.
LaterThan(events, position) ==
    IF position = None THEN events ELSE {e \in events : e.at > position.at}

PositionAfter(events, position) ==
    IF position = None THEN events ELSE {e \in events : Precedes(position, e)}

UpTo(events, position) == {e \in events : ~ Precedes(position, e)}

InOrder(events) ==
    [i \in 1..Cardinality(events) |->
        CHOOSE e \in events : Cardinality(UpTo(events, e)) = i]

Earliest(events) ==
    IF events = {} THEN None
    ELSE CHOOSE e \in events : \A f \in events \ {e} : Precedes(e, f)

Latest(events) ==
    IF events = {} THEN None
    ELSE CHOOSE e \in events : \A f \in events \ {e} : Precedes(f, e)

Snapshots(events) == {e \in events : e.kind = "snapshot"}
Activities(events) == {e \in events : e.kind = "activity"}
MetasWithUrl(events, tab) ==
    {e \in events : e.kind = "meta" /\ e.tab = tab /\ e.url # None}

Replayable(events) == Snapshots(events) # {} /\ Cardinality(events) >= 2

TabOf(event) == IF event = None THEN None ELSE event.tab
UrlOf(event) == IF event = None THEN None ELSE event.url

FirstActivityTab(events) == TabOf(Earliest(Activities(events)))
LatestActivityTabAt(events, position) ==
    TabOf(Latest(Activities(UpTo(events, position))))

\* The URL a tab was at, for the events of a chunk that starts here.
MetaContextBefore(events, position, tab) ==
    IF position = None THEN None
    ELSE UrlOf(Latest(MetasWithUrl(UpTo(events, position), tab)))

LatestReplayableSnapshotAt(events, target) ==
    Latest({e \in Snapshots(events) : e.at <= target})

\* The Meta that tells a new player its viewport: of the snapshot's tab, or
\* of any tab.
LatestInitializerMetaAt(events, snapshot) ==
    LET before == {e \in events : e.kind = "meta" /\ Precedes(e, snapshot)}
        sameTab == {e \in before : e.tab = snapshot.tab}
    IN Latest(IF sameTab # {} THEN sameTab ELSE before)

\* Mutant of TargetBoundaryReady: when the time of the target is reached.
TargetTimeReached(events, position, target) ==
    \A e \in PositionAfter(events, position) : e.at >= target

TargetBoundaryReady(events, position, target) ==
    \A e \in PositionAfter(events, position) : e.at > target

-----------------------------------------------------------------------------
\* What one answer takes of the candidates, a sequence in order of delivery.

\* The tab that was last used before the i-th candidate.
TabBefore(candidates, tab, i) ==
    LET used == {j \in 1..(i - 1) : candidates[j].kind = "activity"}
    IN IF used = {} THEN tab ELSE candidates[Max(used)].tab

\* In an answer a tab switch is the event that makes it.
SwitchesAt(candidates, tab, i) ==
    /\ candidates[i].kind = "activity"
    /\ TabBefore(candidates, tab, i) \notin {None, candidates[i].tab}

Bytes(candidates, tab, n) ==
    SumFunction([i \in 1..n |-> candidates[i].size
                    + IF SwitchesAt(candidates, tab, i) THEN SwitchBytes ELSE 0])

\* How many candidates are needed before a limit of time may end the answer:
\* an answer that starts a player holds the snapshot and another event.
Needed(candidates, snapshot) ==
    IF snapshot = None THEN 1
    ELSE Max({2} \union {i \in DOMAIN candidates : candidates[i] = snapshot})

\* How many candidates are taken, or 0 if the answer is an error.
Taken(candidates, tab, needed, windowEnd, limit) ==
    LET fitting == {i \in 1..Min({limit, Len(candidates)}) :
                      /\ \A j \in needed..(i - 1) : candidates[j].at < windowEnd
                      /\ Bytes(candidates, tab, i) <= MaxBytes}
        taken == Max({0} \union fitting)
    IN IF taken >= needed THEN taken ELSE 0

\* The page an event is shown with: the latest Meta of its tab, in the answer
\* or before it.
BaseUrl(candidates, context, i) ==
    LET metas == {j \in 1..i : candidates[j] \in MetasWithUrl(Range(candidates),
                                                              candidates[i].tab)}
    IN IF metas # {} THEN candidates[Max(metas)].url
       ELSE context[candidates[i].tab]

\* An event as it is delivered: with its base URL, and with the URL its tab
\* was at in the recording when it was read.
Delivered(events, candidates, context, i) ==
    [event |-> candidates[i], base |-> BaseUrl(candidates, context, i),
     at |-> UrlOf(Latest(MetasWithUrl(UpTo(events, candidates[i]),
                                      candidates[i].tab)))]

\* An error, or an answer that is awaited.
NoAnswer == [events |-> <<>>]

ChunkPayload(events, candidates, tab, snapshot, windowEnd, limit, contextAt) ==
    LET n == Taken(candidates, tab, Needed(candidates, snapshot), windowEnd, limit)
        context == [t \in {e.tab : e \in events} |->
                      MetaContextBefore(events, contextAt, t)]
        switching == {candidates[i] : i \in {j \in 1..n : SwitchesAt(candidates, tab, j)}}
    IN IF n = 0 THEN NoAnswer
       ELSE [events |-> [i \in 1..n |-> Delivered(events, candidates, context, i)],
             switches |-> InOrder(switching),
             last |-> candidates[n],
             tab |-> TabBefore(candidates, tab, n + 1),
             more |-> Len(candidates) > n]

\* Mutant of Cursor: the tab is not carried over.
CursorWithoutTab(watermark, payload, target) ==
    IF payload.more
    THEN [watermark |-> watermark, after |-> payload.last, tab |-> None,
          target |-> target]
    ELSE None

Cursor(watermark, payload, target) ==
    IF payload.more
    THEN [watermark |-> watermark, after |-> payload.last, tab |-> payload.tab,
          target |-> target]
    ELSE None

Answer(watermark, payload, target, ready, start) ==
    [events |-> payload.events, switches |-> payload.switches,
     through |-> payload.last.at, cursor |-> Cursor(watermark, payload, target),
     ready |-> ready, start |-> start]

\* build_replay_stream_bootstrap, of a recording that can be replayed
Bootstrap(watermark) ==
    LET events == OrderedEvents(watermark)
        candidates == InOrder(events)
        payload == ChunkPayload(events, candidates, None, Earliest(Snapshots(events)),
                                BootstrapWindow, BootstrapLimit, None)
        used == FirstActivityTab(events)
    IN IF payload = NoAnswer THEN NoAnswer
       ELSE Answer(watermark, payload, None, None,
              [initialTab |-> IF used # None THEN used ELSE Head(candidates).tab,
               from |-> 0, duration |-> Latest(events).at])

\* build_replay_stream_chunk
NextChunk(cursor) ==
    LET events == OrderedEvents(cursor.watermark)
        candidates == InOrder(PositionAfter(events, cursor.after))
        payload == ChunkPayload(events, candidates, cursor.tab, None,
                                Head(candidates).at + ChunkWindow, ChunkLimit,
                                cursor.after)
    IN IF payload = NoAnswer THEN NoAnswer
       ELSE Answer(cursor.watermark, payload, cursor.target,
              IF cursor.target = None THEN None
              ELSE TargetBoundaryReady(events, payload.last, cursor.target), None)

\* build_replay_stream_seek
SeekAnswer(watermark, requested) ==
    LET events == OrderedEvents(watermark)
        target == Min({requested, Latest(events).at})
        prior == LatestReplayableSnapshotAt(events, target)
        snapshot == IF prior # None THEN prior ELSE Earliest(Snapshots(events))
        resolved == Max({target, snapshot.at})
        meta == LatestInitializerMetaAt(events, snapshot)
        following == {e \in events : ~ Precedes(e, snapshot)}
        candidates == InOrder(following \union {meta})
        used == LatestActivityTabAt(events, snapshot)
        window == Min({ChunkWindow, Max({1, resolved - snapshot.at + Prefetch})})
        payload == ChunkPayload(events, candidates, used, snapshot,
                                snapshot.at + window, ChunkLimit, snapshot)
    IN IF meta = None \/ payload = NoAnswer THEN NoAnswer
       ELSE Answer(watermark, payload, resolved,
              TargetBoundaryReady(events, payload.last, resolved),
              [initialTab |-> IF used # None THEN used ELSE snapshot.tab,
               from |-> snapshot.at, target |-> resolved])

-----------------------------------------------------------------------------
\* Most of a recording can be read from the start; the rest is committed
\* while it is watched, in any order.  The first event is not late.
StreamInit ==
    \E recording \in Recordings :
      \E late \in SUBSET (recording \ {Earliest(recording)}) :
        /\ Cardinality(late) <= MaxLate
        /\ stored = recording \ late
        /\ arriving = late

\* The request that recorded an event commits.
Commit(e) ==
    /\ e \in arriving
    /\ stored' = stored \union {e}
    /\ arriving' = arriving \ {e}
=============================================================================
