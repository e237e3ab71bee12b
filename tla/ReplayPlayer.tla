---------------------------- MODULE ReplayPlayer ----------------------------
(***************************************************************************)
(* The browser's side of a session replay                                  *)
(* (static/js/tracker/replay-stream.js, tracker/recording.html), over the  *)
(* answers of ReplayStream.                                                *)
(*                                                                         *)
(* A controller feeds an rrweb player.  One pump at a time asks for the    *)
(* chunk at its cursor and adds the events to the player in batches, and   *)
(* yields between two batches.  A seek within what is loaded moves the     *)
(* player; any other seek abandons the pump and asks for a new start, which*)
(* replaces the player.  What is abandoned may still be answered; it is    *)
(* recognised by its generation.                                           *)
(*                                                                         *)
(* The player plays until its last event, then stops for good until it is  *)
(* told to go on.  The page is opened once and never destroyed.  Times are *)
(* those of the recording; the analytical time that is displayed is left   *)
(* out, and so are servers that know no seek cursor.                       *)
(***************************************************************************)
EXTENDS ReplayStream

CONSTANTS
    BatchSize,   \* events added to the player at a time
    Targets,     \* the times a viewer may seek to
    MaxSeeks     \* bound

\* A seek that needs the server: the time the viewer sought, and once the
\* server has answered the time it leads to and whether that is loaded.
PendingSeeks ==
    [target : Nat, boundary : Nat \union {None}, ready : BOOLEAN \union {None}]

ASSUME PlayerAssumption ==
    /\ None \notin PendingSeeks
    /\ BatchSize \in Nat \ {0}
    /\ Targets \subseteq Nat
    /\ MaxSeeks \in Nat

VARIABLES
    page,     \* the controller with its player, or None
    \* history
    frozen,   \* the events of the recording when it was opened
    cut       \* whether the player's last chunk was abandoned half-added

vars == <<stored, arriving, page, frozen, cut>>

-----------------------------------------------------------------------------
More(p) == p.cursor # None
Pumping(p) == \E q \in p.pumps : q.gen = p.gen
LastHeld(p) == p.held[Len(p.held)].event

Goto(p, time, play) == [p EXCEPT !.time = time, !.running = play]

NotifyTrueEnd(p) ==
    IF More(p) \/ Pumping(p) THEN p
    ELSE [p EXCEPT !.waiting = None, !.buffering = FALSE, !.intent = FALSE]

\* The player waits at the end of what it held: does it go on?
SettleBoundaryWait(p) ==
    LET received == p.waiting.received \/ p.through > p.waiting.through
        resumed == Goto(p, p.time, p.intent \/ p.running)
    IN CASE p.error \/ p.waiting = None \/ p.pending # None -> p
         [] OTHER ->
              IF received
              THEN [resumed EXCEPT !.waiting = None, !.buffering = FALSE]
              ELSE NotifyTrueEnd(p)

\* Mutant of CompletePendingSeekIfReady: it plays although the viewer paused.
PlayAfterSeek(p) ==
    IF p.error \/ (More(p) /\ p.pending.ready # TRUE) THEN p
    ELSE Goto([p EXCEPT !.pending = None, !.waiting = None, !.buffering = FALSE],
              p.pending.boundary, TRUE)

CompletePendingSeekIfReady(p) ==
    IF p.error \/ (More(p) /\ p.pending.ready # TRUE) THEN p
    ELSE Goto([p EXCEPT !.pending = None, !.waiting = None, !.buffering = FALSE],
              p.pending.boundary, p.intent)

\* Mutant of ShouldFetch: the prefetch does not look at a seek's target.
ShouldPrefetch(p) ==
    /\ ~ p.seeking /\ ~ p.error /\ More(p)
    /\ p.wanted \/ (p.intent /\ p.through - p.time <= Prefetch)

ShouldFetch(p) ==
    /\ ~ p.seeking /\ ~ p.error /\ More(p)
    /\ \/ p.wanted
       \/ p.pending # None /\ p.pending.ready = FALSE
       \/ p.intent /\ p.through - p.time <= Prefetch

PumpEnds(p) ==
    LET settled == SettleBoundaryWait(p)
    IN IF p.error THEN p
       ELSE [settled EXCEPT !.buffering =
                @ /\ (settled.waiting # None \/ settled.pending # None)]

\* The next turn of the pump's loop.
Pump(p) ==
    IF ShouldFetch(p)
    THEN [p EXCEPT !.wanted = FALSE,
                   !.pumps = @ \union {[gen |-> p.gen, cursor |-> p.cursor,
                                        chunk |-> NoAnswer, added |-> 0]}]
    ELSE PumpEnds(p)

EnsurePump(p) == IF Pumping(p) THEN p ELSE Pump(p)

\* fetchAtLeastOne, unless a pump is under way
FetchOne(p) == EnsurePump([p EXCEPT !.wanted = @ \/ ~ Pumping(p)])

CancelChunkPump(p) ==
    [p EXCEPT !.gen = @ + 1, !.wanted = FALSE, !.pending = None]

-----------------------------------------------------------------------------
\* The page loads the bootstrap, creates a player and fetches one chunk.
Open ==
    LET watermark == Max({e.id : e \in stored})
        answer == Bootstrap(watermark)
    IN /\ page = None
       /\ Replayable(stored)
       /\ answer # NoAnswer
       /\ LET p == [held |-> answer.events, switches |-> answer.switches,
                    initialTab |-> answer.start.initialTab, from |-> answer.start.from,
                    through |-> answer.through, cursor |-> answer.cursor,
                    watermark |-> watermark, duration |-> answer.start.duration,
                    time |-> 0, running |-> FALSE, intent |-> FALSE,
                    buffering |-> FALSE, waiting |-> None, error |-> FALSE,
                    failed |-> None, wanted |-> FALSE, pending |-> None,
                    seeking |-> FALSE, gen |-> 0, seekGen |-> 0,
                    pumps |-> {}, seeks |-> {}]
          IN page' = IF More(p) THEN FetchOne(p) ELSE p
       /\ frozen' = stored
       /\ UNCHANGED <<stream, cut>>

Changes(p) == page' = p /\ UNCHANGED <<stream, frozen, cut>>

\* The viewer presses play.
Play ==
    LET p == [page EXCEPT !.intent = TRUE]
        settled == SettleBoundaryWait(p)
    IN /\ page # None /\ ~ page.intent
       /\ Changes(
            CASE p.seeking -> [p EXCEPT !.buffering = TRUE]
              [] ~ p.seeking /\ p.pending # None ->
                   IF p.error THEN p
                   ELSE FetchOne([p EXCEPT !.buffering = TRUE])
              [] ~ p.seeking /\ p.pending = None /\ p.waiting # None ->
                   IF p.error \/ settled.waiting = None THEN settled
                   ELSE IF More(settled) THEN FetchOne([settled EXCEPT !.buffering = TRUE])
                        ELSE EnsurePump([settled EXCEPT !.buffering = TRUE])
              [] OTHER -> Goto(p, p.time, TRUE))

Pause ==
    /\ page # None /\ page.intent
    /\ Changes([page EXCEPT !.intent = FALSE, !.buffering = FALSE, !.running = FALSE])

\* The player reports its time, which grows while it plays.
ObserveTime(time) ==
    LET p == [page EXCEPT !.time = time]
    IN /\ page # None /\ ~ page.seeking
       /\ \/ time = page.time
          \/ page.running /\ page.time < LastHeld(page).at /\ time = page.time + 1
       /\ Changes(IF More(p) /\ ~ p.error /\ p.through - time <= Prefetch
                  THEN FetchOne(p) ELSE p)

\* The player has shown its last event.  Paused it does that only when it is
\* sent past that event.
Finish ==
    LET p == [page EXCEPT !.running = FALSE]
        waiting == [p EXCEPT
            !.waiting = IF @ # None THEN @
                        ELSE [through |-> p.through, received |-> FALSE],
            !.buffering = @ \/ (p.intent /\ ~ p.error)]
    IN /\ page # None /\ ~ page.seeking
       /\ \/ page.running /\ page.time >= LastHeld(page).at
          \/ page.pending # None /\ page.time > LastHeld(page).at
       /\ Changes(IF ~ More(p) /\ ~ Pumping(p) THEN NotifyTrueEnd(p)
                  ELSE IF p.error THEN waiting
                  ELSE IF Pumping(p) THEN waiting
                  ELSE EnsurePump([waiting EXCEPT !.wanted = More(p)]))

\* A seek: within what the player holds, or by a request for a new start.
LocalSeek(p, boundary) ==
    Goto([p EXCEPT !.waiting = None, !.seeking = FALSE, !.pending = None,
                   !.buffering = FALSE, !.seekGen = @ + 1], boundary, p.intent)

RemoteSeek(p, target) ==
    [CancelChunkPump(p) EXCEPT
        !.waiting = None, !.error = FALSE, !.failed = None, !.seeking = TRUE,
        !.pending = [target |-> target, boundary |-> None, ready |-> None],
        !.buffering = TRUE, !.running = FALSE, !.seekGen = @ + 1,
        !.seeks = @ \union {[gen |-> p.seekGen + 1, target |-> target]}]

SeekTo(p, target) ==
    LET boundary == Min({target, p.duration})
    IN IF boundary >= p.from /\ boundary <= p.through
       THEN LocalSeek(p, boundary) ELSE RemoteSeek(p, target)

\* A chunk is half-added when its pump is abandoned.
HalfAdded(p) == \E q \in p.pumps : q.gen = p.gen /\ q.added > 0

SeekChanges(p, target) ==
    /\ p.seekGen < MaxSeeks
    /\ page' = SeekTo(p, target)
    /\ cut' = (cut \/ (page'.gen # page.gen /\ HalfAdded(page)))
    /\ UNCHANGED <<stream, frozen>>

Seek(target) ==
    /\ page # None
    /\ SeekChanges(page, target)

\* The viewer presses retry, which is shown with an error.
Retry ==
    LET p == [page EXCEPT !.error = FALSE]
    IN /\ page # None /\ page.error
       /\ \/ page.failed # None /\ SeekChanges(p, page.failed)
          \/ /\ page.failed = None /\ More(page)
             /\ Changes(FetchOne([p EXCEPT !.buffering = TRUE]))

-----------------------------------------------------------------------------
\* Answers of the server.

WithoutSeek(p, s) == [p EXCEPT !.seeks = @ \ {s}]

SeekFailed(p, s) ==
    IF s.gen # p.seekGen THEN p
    ELSE [p EXCEPT !.error = TRUE, !.failed = s.target, !.seeking = FALSE,
                   !.pending = None, !.buffering = FALSE]

\* The new player takes the place of the old one.
Replaced(p, s, answer) ==
    LET ready == answer.cursor = None \/ answer.ready
        q == [p EXCEPT
                !.held = answer.events, !.switches = answer.switches,
                !.initialTab = answer.start.initialTab, !.from = answer.start.from,
                !.through = answer.through, !.cursor = answer.cursor,
                !.error = FALSE, !.failed = None, !.waiting = None,
                !.seeking = FALSE, !.buffering = ~ ready,
                !.pending = IF ready THEN None
                            ELSE [target |-> s.target, boundary |-> answer.start.target,
                                  ready |-> FALSE]]
        shown == Goto(q, answer.start.target, ready /\ p.intent)
    IN IF More(q) THEN EnsurePump([shown EXCEPT !.wanted = TRUE]) ELSE shown

SeekAnswered(s) ==
    \E answer \in {SeekAnswer(page.watermark, s.target)} :
      /\ answer # NoAnswer
      /\ IF s.gen = page.seekGen
         THEN page' = Replaced(WithoutSeek(page, s), s, answer) /\ cut' = FALSE
         ELSE page' = WithoutSeek(page, s) /\ cut' = cut
      /\ UNCHANGED <<stream, frozen>>

SeekRequestFails(s) == Changes(SeekFailed(WithoutSeek(page, s), s))

\* The next events of a chunk are added to the player.
AddBatch(p, q) ==
    LET upTo == Min({q.added + BatchSize, Len(q.chunk.events)})
    IN [p EXCEPT !.held = @ \o SubSeq(q.chunk.events, q.added + 1, upTo),
                 !.pumps = (@ \ {q}) \union {[q EXCEPT !.added = upTo]}]

\* All of them have been added.
ChunkAdded(p, q) ==
    LET advanced == [p EXCEPT
            !.waiting = IF @ = None THEN None ELSE [@ EXCEPT !.received = TRUE],
            !.cursor = q.chunk.cursor,
            !.through = Max({@, q.chunk.through}),
            !.pending = IF @ = None \/ q.chunk.ready = None THEN @
                        ELSE [@ EXCEPT !.ready = q.chunk.ready]]
        sought == CompletePendingSeekIfReady(advanced)
        done == IF advanced.pending # None /\ sought.pending = None THEN sought
                ELSE SettleBoundaryWait(advanced)
    IN Pump([done EXCEPT !.pumps = @ \ {q}])

PumpFails(p, q) ==
    IF q.gen # p.gen THEN p
    ELSE [p EXCEPT !.error = TRUE, !.buffering = FALSE]

WithoutPump(p, q) == [p EXCEPT !.pumps = @ \ {q}]

ChunkArrives(q) ==
    /\ q.chunk = NoAnswer
    /\ \E chunk \in {NextChunk(q.cursor)} :
         LET answered == [q EXCEPT !.chunk = chunk]
             p == [page EXCEPT !.switches = @ \o chunk.switches,
                               !.pumps = (@ \ {q}) \union {answered}]
         IN /\ chunk # NoAnswer
            /\ Changes(IF q.gen = page.gen THEN AddBatch(p, answered)
                       ELSE WithoutPump(page, q))

\* An error of the server, of the network, or of an abandoned request.
ChunkRequestFails(q) ==
    /\ q.chunk = NoAnswer
    /\ Changes(PumpFails(WithoutPump(page, q), q))

\* The pump goes on after it has yielded.
AddMore(q) ==
    /\ q.chunk # NoAnswer
    /\ Changes(CASE q.gen # page.gen -> WithoutPump(page, q)
                 [] q.gen = page.gen /\ q.added < Len(q.chunk.events) -> AddBatch(page, q)
                 [] OTHER -> ChunkAdded(page, q))

-----------------------------------------------------------------------------
Init ==
    /\ StreamInit
    /\ page = None
    /\ frozen = {}
    /\ cut = FALSE

Ingest == (\E e \in arriving : Commit(e)) /\ UNCHANGED <<page, frozen, cut>>

Next ==
    \/ Ingest
    \/ Open
    \/ Play
    \/ Pause
    \/ page # None /\ \E time \in {page.time, page.time + 1} : ObserveTime(time)
    \/ Finish
    \/ \E target \in Targets : Seek(target)
    \/ Retry
    \/ page # None /\ \E s \in page.seeks : SeekAnswered(s)
    \/ page # None /\ \E s \in page.seeks : SeekRequestFails(s)
    \/ page # None /\ \E q \in page.pumps : ChunkArrives(q)
    \/ page # None /\ \E q \in page.pumps : ChunkRequestFails(q)
    \/ page # None /\ \E q \in page.pumps : AddMore(q)

Spec == Init /\ [][Next]_vars

\* Requests are answered or fail, a pump goes on after it has yielded, and a
\* player that plays goes on.  What the viewer does is never due.
Fairness ==
    /\ WF_vars(page # None /\ \E s \in page.seeks :
                 SeekRequestFails(s) \/ SeekAnswered(s))
    /\ WF_vars(page # None /\ \E q \in page.pumps :
                 ChunkRequestFails(q) \/ ChunkArrives(q) \/ AddMore(q))
    /\ WF_vars(page # None /\ page.running /\ (ObserveTime(page.time + 1) \/ Finish))

FairSpec == Spec /\ Fairness

-----------------------------------------------------------------------------
TypeOK ==
    /\ stored \in SUBSET UNION Recordings /\ arriving \in SUBSET UNION Recordings
    /\ stored \intersect arriving = {} /\ frozen \subseteq stored
    /\ cut \in BOOLEAN
    /\ page # None =>
         /\ page.watermark \in {e.id : e \in stored}
         /\ {page.from, page.through, page.time, page.duration} \subseteq Nat
         /\ page.cursor \in Cursors \union {None}
         /\ page.pending \in PendingSeeks \union {None}
         /\ page.from <= page.through
         /\ page.seeking <=> \E s \in page.seeks : s.gen = page.seekGen
         /\ page.seeking => page.pending # None
         /\ Cardinality({q \in page.pumps : q.gen = page.gen}) <= 1

\* The first event of a player may be taken from before its segment.
InSegment(e, p) == ~ Precedes(e, p.held[2].event)

HeldEvents(p) == {p.held[i].event : i \in DOMAIN p.held}

\* However its events are cut into answers and batches, and whatever seeks
\* were abandoned, a player holds the events of one stretch of the recording
\* that was opened: none is missing and none is newer than the recording.
\* A relative URL in them is resolved against the page its tab was at.  They
\* are in order and each is held once, unless a seek that led nowhere cut off
\* a chunk that was half-added: that chunk is added again.
HoldsTheRecording ==
    page # None =>
      /\ \A e \in HeldEvents(page) : e.id <= page.watermark
      /\ {e \in frozen : InSegment(e, page) /\ ~ Precedes(LastHeld(page), e)}
           \subseteq HeldEvents(page)
      /\ \A i \in DOMAIN page.held : page.held[i].base = page.held[i].at
      /\ cut \/ \A i \in 2..Len(page.held) :
                  Precedes(page.held[i - 1].event, page.held[i].event)

\* updateCurrentTabForTime
TabShown(p, time) ==
    LET passed == {k \in DOMAIN p.switches : \A j \in 1..k : p.switches[j].at <= time}
    IN IF passed = {} THEN p.initialTab ELSE p.switches[Max(passed)].tab

\* The events whose tabs the page was told: those held, and the rest of the
\* chunk that is being added.
ToldEvents(p) ==
    HeldEvents(p) \union
      UNION {{q.chunk.events[i].event : i \in DOMAIN q.chunk.events} :
               q \in {r \in p.pumps : r.gen = p.gen}}

\* The tab shown with an event of the player is the one that was used last,
\* across answers and seeks.  After a seek to a snapshot before any use of a
\* tab it is known from the first switch only.
TabFollows ==
    page # None /\ ~ cut =>
      LET used == Activities(ToldEvents(page))
      IN \A e \in Activities(HeldEvents(page)) :
           \/ TabShown(page, e.at) = Latest({f \in used : f.at <= e.at}).tab
           \/ /\ \A f \in Activities(frozen) : InSegment(f, page)
              /\ page.initialTab # Earliest(used).tab

\* A seek that needs the server is over when the player holds all that was
\* recorded up to its target, of the last millisecond too.
SeekEnds ==
    LET ends == /\ page # None /\ page.pending # None /\ page'.pending = None
                /\ page'.seekGen = page.seekGen /\ ~ page'.error
    IN ends =>
         /\ page'.time >= page'.from
         /\ IF page.pending.target <= page.duration
            THEN page'.time = Max({page'.from, page.pending.target})
            ELSE page'.time >= page.duration
         /\ {e \in frozen : InSegment(e, page') /\ e.at <= page'.time}
              \subseteq HeldEvents(page')

SeekEndsComplete == [][SeekEnds]_vars

\* After the viewer has paused, no answer and no seek makes the player play.
PauseHolds == page # None /\ page.running => page.intent

\* A viewer who plays or seeks and does nothing more sees the end or an error,
\* not a spinner.
NeverStuck ==
    (page # None /\ (page.intent \/ page.pending # None)) ~>
    (page # None /\ (page.error \/ (~ page.intent /\ page.pending = None)))
=============================================================================
