------------------------ MODULE AnalyticsQueueProofs ------------------------
(***************************************************************************)
(* Proofs that the browser's queue of events loses nothing, and sends      *)
(* nothing twice, but for what goes with a page, a full storage, a lost    *)
(* answer or a race of two pages for one snapshot: for any pages, tab ids, *)
(* clicks and bounds.                                                      *)
(***************************************************************************)
EXTENDS AnalyticsQueue, TLAPS

-----------------------------------------------------------------------------
(* Where a click and where the newest move is, of any state.               *)

\* What a sweep alone holds.
InFlight(s) == IF s.phase = "flight" THEN s.claim ELSE Nothing

IsAt(x, c, ar, st, qu, me, sw) ==
    \/ x = <<"server", None>> /\ c \in ar.clicks
    \/ \E k \in Keys : x = <<"store", k>> /\ c \in st[k].clicks
    \/ \E p \in Pages : x = <<"queue", p>> /\ c \in qu[p].clicks
    \/ \E p \in Pages : x = <<"merge", p>> /\ c \in me[p].own.clicks
    \/ \E p \in Pages : x = <<"claim", p>> /\ c \in InFlight(sw[p]).clicks

\* A click is nowhere but at one place, as another state knows the places.
InOnePlace(c, ar, st, qu, me, sw) ==
    \A x, y :
        IsAt(x, c, ar, st, qu, me, sw) /\ IsAt(y, c, ar, st, qu, me, sw) => x = y

ClickKept(c, ar, ex, st, qu, me, sw) ==
    \/ c \in ar.clicks \union ex.clicks
    \/ \E k \in Keys : c \in st[k].clicks
    \/ \E p \in Pages : \/ c \in qu[p].clicks \/ c \in me[p].own.clicks
                        \/ c \in InFlight(sw[p]).clicks

MoveKept(n, k, ar, ex, ta, st, qu, me, sw) ==
    \/ n \in ar.moves \union ex.moves
    \/ st[k].move = n
    \/ \E p \in Pages : \/ ta[p] = k /\ qu[p].move = n
                        \/ me[p].key = k /\ me[p].own.move = n
                        \/ sw[p].key = k /\ InFlight(sw[p]).move = n

AllClicksKept ==
    \A c \in captured : ClickKept(c, arrived, excused, store, queue, merge, sweep)

AllMovesKept ==
    \A k \in Keys : moves.of[k] # 0 =>
        MoveKept(moves.of[k], k, arrived, excused, tab, store, queue, merge, sweep)

AllInOnePlace ==
    \A c \in Clicks \ repeated : InOnePlace(c, arrived, store, queue, merge, sweep)

LEMMA ClaimedInFlight == \A p : Claimed(p) = InFlight(sweep[p])
BY DEF Claimed, InFlight

LEMMA ClicksByPlace == NothingLost <=> AllClicksKept
<1>1. ASSUME NEW c
      PROVE  (\E s \in Held : c \in s.clicks)
             <=> \/ \E k \in Keys : c \in store[k].clicks
                 \/ \E p \in Pages : \/ c \in queue[p].clicks \/ c \in merge[p].own.clicks
                                     \/ c \in InFlight(sweep[p]).clicks
  BY ClaimedInFlight DEF Held, Alone
<1> QED
  BY <1>1 DEF NothingLost, AllClicksKept, ClickKept

LEMMA MovesByPlace == NewestMoveAtHome <=> AllMovesKept
<1>1. ASSUME NEW k \in Keys, NEW n
      PROVE  (\E s \in HeldOf(k) : s.move = n)
             <=> \/ store[k].move = n
                 \/ \E p \in Pages : \/ tab[p] = k /\ queue[p].move = n
                                     \/ merge[p].key = k /\ merge[p].own.move = n
                                     \/ sweep[p].key = k /\ InFlight(sweep[p]).move = n
  BY ClaimedInFlight DEF HeldOf
<1>2. ASSUME NEW k \in Keys
      PROVE  (\/ moves.of[k] \in arrived.moves \union excused.moves
              \/ \E s \in HeldOf(k) : s.move = moves.of[k])
             <=> MoveKept(moves.of[k], k, arrived, excused, tab, store, queue, merge, sweep)
  BY <1>1 DEF MoveKept
<1> QED
  BY <1>2 DEF NewestMoveAtHome, AllMovesKept

LEMMA PlacesByPlace == SentOnce <=> AllInOnePlace
<1>1. ASSUME NEW c, NEW x
      PROVE  x \in Places(c) <=> IsAt(x, c, arrived, store, queue, merge, sweep)
  BY ClaimedInFlight DEF Places, IsAt
<1>2. ASSUME NEW c
      PROVE  (\A x, y \in Places(c) : x = y)
             <=> InOnePlace(c, arrived, store, queue, merge, sweep)
  BY <1>1 DEF InOnePlace
<1> QED
  BY <1>2 DEF SentOnce, AllInOnePlace

\* The invariant with its last parts place by place.
Parts ==
    /\ TypeOK
    /\ TasksSound
    /\ MovesNumbered
    /\ AllClicksKept
    /\ AllMovesKept
    /\ CapturedFirst
    /\ AllInOnePlace

LEMMA InvariantByParts == IInv <=> Parts
BY ClicksByPlace, MovesByPlace, PlacesByPlace DEF IInv, Parts

-----------------------------------------------------------------------------
(* Snapshots.                                                              *)

LEMMA NothingIsEmpty ==
    /\ Nothing \in Snapshot /\ Nothing.move = 0 /\ Nothing.clicks = {}
BY QueueAssumption DEF Nothing, Snapshot

\* A merge holds every click of both and the newer of their moves.
LEMMA MergedKeeps ==
    ASSUME NEW s \in Snapshot, NEW t \in Snapshot
    PROVE  /\ Merged(s, t) \in Snapshot
           /\ Merged(s, t).clicks = s.clicks \union t.clicks
           /\ Merged(s, t).move \in {s.move, t.move}
           /\ s.move <= Merged(s, t).move /\ t.move <= Merged(s, t).move
<1>1. /\ s.clicks \subseteq Clicks /\ t.clicks \subseteq Clicks
      /\ s.move \in 0 .. MaxMoves /\ t.move \in 0 .. MaxMoves
  BY DEF Snapshot
<1>2. /\ PickNewestEvent(s.move, t.move) \in {s.move, t.move}
      /\ PickNewestEvent(s.move, t.move) \in 0 .. MaxMoves
      /\ s.move <= PickNewestEvent(s.move, t.move)
      /\ t.move <= PickNewestEvent(s.move, t.move)
  BY <1>1, QueueAssumption DEF PickNewestEvent
<1> QED
  BY <1>1, <1>2 DEF Merged, Snapshot

\* What was not read is what is there and was not read.
LEMMA OverrunHolds ==
    ASSUME NEW s \in Snapshot, NEW t \in Snapshot
    PROVE  /\ Overrun(s, t) \in Snapshot
           /\ Overrun(s, t).clicks = s.clicks \ t.clicks
           /\ s.move # 0 /\ s.move # t.move => s.move \in MovesOf(Overrun(s, t))
<1>1. s.move \in 0 .. MaxMoves /\ 0 \in 0 .. MaxMoves /\ s.clicks \subseteq Clicks
  BY QueueAssumption DEF Snapshot
<1> QED
  BY <1>1 DEF Overrun, MovesOf, Snapshot

LEMMA MovesAreEvents ==
    ASSUME NEW s \in Snapshot
    PROVE  /\ MovesOf(s) \subseteq 1 .. MaxMoves
           /\ s.move # 0 => s.move \in MovesOf(s)
BY QueueAssumption DEF MovesOf, Snapshot

\* What is excused is the events of the snapshots, and stays excused.
LEMMA ExcusingAdds ==
    ASSUME excused \in Events, NEW S \in SUBSET Snapshot, Excusing(S)
    PROVE  /\ excused' \in Events
           /\ excused.clicks \subseteq excused'.clicks
           /\ excused.moves \subseteq excused'.moves
           /\ \A s \in S : /\ s.clicks \subseteq excused'.clicks
                           /\ s.move # 0 => s.move \in excused'.moves
<1>1. \A s \in S : s.clicks \subseteq Clicks /\ MovesOf(s) \subseteq 1 .. MaxMoves
  BY MovesAreEvents DEF Snapshot
<1>2. /\ excused'.clicks = excused.clicks \union UNION {s.clicks : s \in S}
      /\ excused'.moves = excused.moves \union UNION {MovesOf(s) : s \in S}
  BY DEF Excusing
<1>3. /\ UNION {s.clicks : s \in S} \subseteq Clicks
      /\ UNION {MovesOf(s) : s \in S} \subseteq 1 .. MaxMoves
  BY <1>1
<1>4. excused' \in Events
  BY <1>3 DEF Excusing, Events
<1>5. \A s \in S : s.move # 0 => s.move \in MovesOf(s)
  BY MovesAreEvents
<1> QED
  BY <1>2, <1>4, <1>5

LEMMA StoredAdds ==
    ASSUME arrived \in Events, NEW s \in Snapshot, Stored(s)
    PROVE  /\ arrived' \in Events
           /\ arrived'.clicks = arrived.clicks \union s.clicks
           /\ arrived.moves \subseteq arrived'.moves
           /\ s.move # 0 => s.move \in arrived'.moves
<1>1. s.clicks \subseteq Clicks /\ MovesOf(s) \subseteq 1 .. MaxMoves
  BY MovesAreEvents DEF Snapshot
<1>2. s.move # 0 => s.move \in MovesOf(s)
  BY MovesAreEvents
<1> QED
  BY <1>1, <1>2 DEF Stored, Events

LEMMA RecordsOfNothing ==
    /\ Idle \in Sweep /\ InFlight(Idle) = Nothing /\ Idle.phase = "rest"
    /\ NoMerge \in Merge /\ NoMerge.key = None /\ NoMerge.own = Nothing
    /\ NoMerge.read = Nothing
BY NothingIsEmpty DEF Idle, Sweep, InFlight, NoMerge, Merge

\* What a sweep alone holds is a snapshot.
LEMMA InFlightHolds ==
    ASSUME NEW s \in Sweep
    PROVE  InFlight(s) \in Snapshot /\ InFlight(s) \in {s.claim, Nothing}
BY NothingIsEmpty DEF InFlight, Sweep

-----------------------------------------------------------------------------
(* The steps.                                                              *)

\* A click that leaves its only place for another one is in one place again.
LEMMA OnePlaceMoves ==
    ASSUME NEW c, NEW ar, NEW st, NEW qu, NEW me, NEW sw,
           NEW ar2, NEW st2, NEW qu2, NEW me2, NEW sw2,
           InOnePlace(c, ar, st, qu, me, sw),
           \/ \A x : IsAt(x, c, ar2, st2, qu2, me2, sw2) => IsAt(x, c, ar, st, qu, me, sw)
           \/ \E b : \A x : IsAt(x, c, ar2, st2, qu2, me2, sw2) => x = b
    PROVE  InOnePlace(c, ar2, st2, qu2, me2, sw2)
BY DEF InOnePlace

\* What has not been captured is nowhere.
LEMMA NowhereBefore ==
    ASSUME TypeOK, CapturedFirst, NEW c, c \notin captured
    PROVE  \A x : ~ IsAt(x, c, arrived, store, queue, merge, sweep)
<1>1. \A p \in Pages : c \notin InFlight(sweep[p]).clicks
  <2> SUFFICES ASSUME NEW p \in Pages PROVE c \notin InFlight(sweep[p]).clicks
    OBVIOUS
  <2>1. InFlight(sweep[p]) \in {sweep[p].claim, Nothing}
    BY InFlightHolds DEF TypeOK
  <2> QED BY <2>1, NothingIsEmpty DEF CapturedFirst
<1> QED
  BY <1>1 DEF IsAt, CapturedFirst

LEMMA PersistEffect ==
    ASSUME TypeOK, NEW p \in Pages, AtRest(p), NEW q \in Snapshot,
           NEW then \in {"rest", "flush", "leave"}, PersistQueueToStorage(p, q, then)
    PROVE  /\ queue' \in [Pages -> Snapshot] /\ merge' \in [Pages -> Merge]
           /\ queue'[p] = Nothing /\ merge'[p].own = q /\ merge'[p].then = then
           /\ \A r \in Pages \ {p} : queue'[r] = queue[r] /\ merge'[r] = merge[r]
           /\ merge[p] = NoMerge /\ tab[p] \in Keys
           /\ \/ q # Nothing /\ merge'[p].key = tab[p] /\ merge'[p].read = store[tab[p]]
              \/ q = Nothing /\ merge'[p].key = None /\ merge'[p].read = Nothing
<1> DEFINE rec == IF q = Nothing THEN [NoMerge EXCEPT !.then = then]
                  ELSE [key |-> tab[p], read |-> store[tab[p]], own |-> q, then |-> then]
<1>1. tab[p] \in Keys /\ store[tab[p]] \in Snapshot /\ merge[p] = NoMerge
  BY DEF TypeOK, AtRest, Running
<1>2. /\ rec \in Merge /\ rec.own = q /\ rec.then = then
      /\ \/ q # Nothing /\ rec.key = tab[p] /\ rec.read = store[tab[p]]
         \/ q = Nothing /\ rec.key = None /\ rec.read = Nothing
  BY <1>1, NothingIsEmpty DEF Merge, NoMerge
<1>3. queue' = [queue EXCEPT ![p] = Nothing] /\ merge' = [merge EXCEPT ![p] = rec]
  BY DEF PersistQueueToStorage
<1> HIDE DEF rec
<1> QED
  BY <1>1, <1>2, <1>3, NothingIsEmpty DEF TypeOK

\* A page's queue, with a new click or without, becomes what its merge is to add.
LEMMA PersistStep ==
    ASSUME Parts, NEW p \in Pages, AtRest(p), NEW q \in Snapshot,
           NEW then \in {"rest", "flush", "leave"}, PersistQueueToStorage(p, q, then),
           NEW d \in SUBSET Clicks, d \intersect captured = {},
           q.clicks = queue[p].clicks \union d, q.move = queue[p].move,
           captured' = captured \union d, closings' \in 0 .. MaxClosings,
           UNCHANGED <<tab, store, stale, sweep, arrived, moves, excused, repeated>>
    PROVE  Parts'
<1> USE DEF Parts
<1>1. /\ queue' \in [Pages -> Snapshot] /\ merge' \in [Pages -> Merge]
      /\ queue'[p] = Nothing /\ merge'[p].own = q /\ merge'[p].then = then
      /\ \A r \in Pages \ {p} : queue'[r] = queue[r] /\ merge'[r] = merge[r]
      /\ merge[p] = NoMerge /\ tab[p] \in Keys
      /\ \/ q # Nothing /\ merge'[p].key = tab[p] /\ merge'[p].read = store[tab[p]]
         \/ q = Nothing /\ merge'[p].key = None /\ merge'[p].read = Nothing
  BY PersistEffect
<1>2. TypeOK'
  BY <1>1 DEF TypeOK
<1>3. TasksSound'
  BY <1>1 DEF TasksSound, AtRest, Running
<1>4. MovesNumbered'
  BY <1>1, NothingIsEmpty DEF MovesNumbered, TypeOK, AtRest, Running
<1>5. AllClicksKept'
  <2> SUFFICES ASSUME NEW c \in captured \union d
               PROVE  ClickKept(c, arrived, excused, store, queue', merge', sweep)
    BY DEF AllClicksKept
  <2>1. CASE c \in d
    BY <2>1, <1>1 DEF ClickKept
  <2>2. CASE c \in captured
    <3>1. ClickKept(c, arrived, excused, store, queue, merge, sweep)
      BY <2>2 DEF AllClicksKept
    <3> QED BY <3>1, <1>1, NothingIsEmpty, RecordsOfNothing DEF ClickKept
  <2> QED BY <2>1, <2>2
<1>6. AllMovesKept'
  <2> SUFFICES ASSUME NEW k \in Keys, moves.of[k] # 0
               PROVE  MoveKept(moves.of[k], k, arrived, excused, tab, store, queue', merge',
                               sweep)
    BY DEF AllMovesKept
  <2>1. MoveKept(moves.of[k], k, arrived, excused, tab, store, queue, merge, sweep)
    BY DEF AllMovesKept
  <2>2. queue[p].move = moves.of[k] => q # Nothing
    BY NothingIsEmpty
  <2> QED BY <2>1, <2>2, <1>1, NothingIsEmpty, RecordsOfNothing DEF MoveKept
<1>7. CapturedFirst'
  BY <1>1, NothingIsEmpty DEF CapturedFirst
<1>8. AllInOnePlace'
  <2> SUFFICES ASSUME NEW c \in Clicks \ repeated
               PROVE  InOnePlace(c, arrived, store, queue', merge', sweep)
    BY DEF AllInOnePlace
  <2>1. InOnePlace(c, arrived, store, queue, merge, sweep)
    BY DEF AllInOnePlace
  <2>2. CASE c \in d
    <3>1. \A x : ~ IsAt(x, c, arrived, store, queue, merge, sweep)
      BY <2>2, NowhereBefore
    <3>2. \A x : IsAt(x, c, arrived, store, queue', merge', sweep) => x = <<"merge", p>>
      BY <3>1, <1>1, NothingIsEmpty DEF IsAt
    <3> QED BY <2>1, <3>2, OnePlaceMoves
  <2>3. CASE c \in queue[p].clicks
    <3>1. \A x : IsAt(x, c, arrived, store, queue, merge, sweep) => x = <<"queue", p>>
      BY <2>1, <2>3 DEF InOnePlace, IsAt
    <3>2. \A x : IsAt(x, c, arrived, store, queue', merge', sweep) => x = <<"merge", p>>
      BY <3>1, <1>1, NothingIsEmpty DEF IsAt
    <3> QED BY <2>1, <3>2, OnePlaceMoves
  <2>4. CASE c \notin q.clicks
    <3>1. \A x : IsAt(x, c, arrived, store, queue', merge', sweep)
              => IsAt(x, c, arrived, store, queue, merge, sweep)
      BY <2>4, <1>1, NothingIsEmpty DEF IsAt
    <3> QED BY <2>1, <3>1, OnePlaceMoves
  <2> QED BY <2>2, <2>3, <2>4
<1> QED
  BY <1>2, <1>3, <1>4, <1>5, <1>6, <1>7, <1>8

\* A click, a flush, a page that is hidden or left: what is queued is persisted.
LEMMA ClickStep ==
    ASSUME Parts, NEW p \in Pages, NEW c \in Clicks, Click(p, c)
    PROVE  Parts'
<1> DEFINE q == [queue[p] EXCEPT !.clicks = @ \union {c}]
<1>1. /\ TypeOK /\ TasksSound /\ MovesNumbered /\ CapturedFirst
      /\ AllClicksKept /\ AllMovesKept /\ AllInOnePlace
  BY DEF Parts
<1>2. q \in Snapshot /\ q.clicks = queue[p].clicks \union {c} /\ q.move = queue[p].move
  BY <1>1 DEF TypeOK, Snapshot
<1>3. AtRest(p) /\ c \notin captured /\ captured' = captured \union {c}
      /\ UNCHANGED <<tab, store, stale, sweep, arrived, moves, closings, excused, repeated>>
  BY DEF Click
<1>4. closings' \in 0 .. MaxClosings
  BY <1>1, <1>3 DEF TypeOK
<1>5. \/ PersistQueueToStorage(p, q, "rest") \/ PersistQueueToStorage(p, q, "flush")
      \/ queue' = [queue EXCEPT ![p] = q] /\ UNCHANGED merge
  BY DEF Click
<1> HIDE DEF q
<1>6. {c} \in SUBSET Clicks /\ {c} \intersect captured = {}
  BY <1>3
<1>7. ASSUME NEW then \in {"rest", "flush", "leave"}, PersistQueueToStorage(p, q, then)
      PROVE  Parts'
  <2>1. /\ AtRest(p) /\ captured' = captured \union {c}
        /\ UNCHANGED <<tab, store, stale, sweep, arrived, moves, excused, repeated>>
    BY <1>3
  <2> QED BY <2>1, <1>2, <1>4, <1>6, <1>7, PersistStep
<1>8. CASE queue' = [queue EXCEPT ![p] = q] /\ UNCHANGED merge
  <2>1. /\ queue' \in [Pages -> Snapshot] /\ queue'[p] = q
        /\ \A r \in Pages \ {p} : queue'[r] = queue[r]
    BY <1>1, <1>2, <1>8 DEF TypeOK
  <2>2. TypeOK'
    BY <1>1, <1>3, <1>8, <2>1 DEF TypeOK
  <2>3. TasksSound'
    BY <1>1, <1>3, <1>8, <2>1, RecordsOfNothing DEF TasksSound, AtRest, Running
  <2>4. MovesNumbered'
    BY <1>1, <1>2, <1>3, <1>8, <2>1 DEF MovesNumbered, Running
  <2>5. AllClicksKept'
    <3> SUFFICES ASSUME NEW b \in captured \union {c}
                 PROVE  ClickKept(b, arrived, excused, store, queue', merge, sweep)
      BY <1>3, <1>8 DEF AllClicksKept
    <3>1. CASE b = c
      BY <3>1, <1>2, <2>1 DEF ClickKept
    <3>2. CASE b \in captured
      <4>1. ClickKept(b, arrived, excused, store, queue, merge, sweep)
        BY <3>2, <1>1 DEF AllClicksKept
      <4> QED BY <4>1, <1>2, <2>1 DEF ClickKept
    <3> QED BY <3>1, <3>2
  <2>6. AllMovesKept'
    <3> SUFFICES ASSUME NEW k \in Keys, moves.of[k] # 0
                 PROVE  MoveKept(moves.of[k], k, arrived, excused, tab, store, queue', merge,
                                 sweep)
      BY <1>3, <1>8 DEF AllMovesKept
    <3>1. MoveKept(moves.of[k], k, arrived, excused, tab, store, queue, merge, sweep)
      BY <1>1 DEF AllMovesKept
    <3> QED BY <3>1, <1>2, <2>1 DEF MoveKept
  <2>7. CapturedFirst'
    BY <1>1, <1>2, <1>3, <1>8, <2>1 DEF CapturedFirst
  <2>8. AllInOnePlace'
    <3> SUFFICES ASSUME NEW b \in Clicks \ repeated
                 PROVE  InOnePlace(b, arrived, store, queue', merge, sweep)
      BY <1>3, <1>8 DEF AllInOnePlace
    <3>1. InOnePlace(b, arrived, store, queue, merge, sweep)
      BY <1>1 DEF AllInOnePlace
    <3>2. CASE b = c
      <4>1. \A x : ~ IsAt(x, b, arrived, store, queue, merge, sweep)
        BY <3>2, <1>1, <1>3, NowhereBefore
      <4>2. \A x : IsAt(x, b, arrived, store, queue', merge, sweep) => x = <<"queue", p>>
        BY <4>1, <2>1 DEF IsAt
      <4> QED BY <3>1, <4>2, OnePlaceMoves
    <3>3. CASE b # c
      <4>1. \A x : IsAt(x, b, arrived, store, queue', merge, sweep)
                => IsAt(x, b, arrived, store, queue, merge, sweep)
        BY <3>3, <1>2, <2>1 DEF IsAt
      <4> QED BY <3>1, <4>1, OnePlaceMoves
    <3> QED BY <3>2, <3>3
  <2> QED BY <2>2, <2>3, <2>4, <2>5, <2>6, <2>7, <2>8 DEF Parts
<1> QED BY <1>5, <1>7, <1>8

LEMMA QueueSteps ==
    ASSUME Parts, NEW p \in Pages, Flush(p) \/ Hide(p) \/ Close(p)
    PROVE  Parts'
<1>1. TypeOK
  BY DEF Parts
<1>2. queue[p] \in Snapshot /\ closings \in 0 .. MaxClosings
  BY <1>1 DEF TypeOK
<1>3. /\ AtRest(p) /\ captured' = captured
      /\ UNCHANGED <<tab, store, stale, sweep, arrived, moves, excused, repeated>>
      /\ closings' = closings \/ (closings < MaxClosings /\ closings' = closings + 1)
      /\ \E then \in {"rest", "flush", "leave"} : PersistQueueToStorage(p, queue[p], then)
  BY DEF Flush, Hide, Close, history
<1>4. closings' \in 0 .. MaxClosings
  BY <1>2, <1>3, QueueAssumption
<1>5. PICK then \in {"rest", "flush", "leave"} : PersistQueueToStorage(p, queue[p], then)
  BY <1>3
<1>6. /\ {} \in SUBSET Clicks /\ {} \intersect captured = {}
      /\ queue[p].clicks = queue[p].clicks \union {} /\ captured' = captured \union {}
  BY <1>3
<1> QED
  BY <1>2, <1>3, <1>4, <1>5, <1>6, PersistStep

\* A move replaces the one that is still in the queue, and is its tab's newest.
LEMMA MoveStep ==
    ASSUME Parts, NEW p \in Pages, CapturePassiveEvent(p)
    PROVE  Parts'
<1> DEFINE n == moves.last + 1
<1>1. /\ TypeOK /\ TasksSound /\ MovesNumbered /\ CapturedFirst
      /\ AllClicksKept /\ AllMovesKept /\ AllInOnePlace
  BY DEF Parts
<1>2. /\ AtRest(p) /\ moves.last < MaxMoves
      /\ queue' = [queue EXCEPT ![p].move = n]
      /\ moves' = [last |-> n, of |-> [moves.of EXCEPT ![tab[p]] = n]]
      /\ UNCHANGED <<tab, store, stale, merge, sweep, arrived, captured, closings, excused,
                     repeated>>
  BY DEF CapturePassiveEvent
<1>3. tab[p] \in Keys /\ moves.last \in 0 .. MaxMoves /\ moves.of \in [Keys -> 0 .. MaxMoves]
  BY <1>1, <1>2 DEF TypeOK, AtRest, Running
<1>4. n \in 0 .. MaxMoves /\ n > moves.last
  BY <1>2, <1>3, QueueAssumption
<1>5. /\ moves'.last = n /\ moves'.of[tab[p]] = n
      /\ \A k \in Keys \ {tab[p]} : moves'.of[k] = moves.of[k]
      /\ moves' \in [last: 0 .. MaxMoves, of: [Keys -> 0 .. MaxMoves]]
  BY <1>2, <1>3, <1>4
<1> HIDE DEF n
<1>6. /\ queue' \in [Pages -> Snapshot] /\ queue'[p].move = n
      /\ queue'[p].clicks = queue[p].clicks
      /\ \A r \in Pages \ {p} : queue'[r] = queue[r]
  <2>1. queue[p] \in Snapshot
    BY <1>1 DEF TypeOK
  <2>2. [queue[p] EXCEPT !.move = n] \in Snapshot
    BY <2>1, <1>4 DEF Snapshot
  <2> QED BY <1>1, <1>2, <2>1, <2>2 DEF TypeOK, Snapshot
<1>7. TypeOK'
  BY <1>1, <1>2, <1>5, <1>6 DEF TypeOK
<1>8. TasksSound'
  BY <1>1, <1>2, <1>6, RecordsOfNothing DEF TasksSound, AtRest, Running
<1>9. MovesNumbered'
  <2>1. \A k \in Keys : moves.of[k] <= moves'.of[k] /\ moves'.of[k] <= n
    BY <1>1, <1>3, <1>4, <1>5 DEF MovesNumbered
  <2>2. \A k \in Keys : moves.of[k] \in Nat /\ moves'.of[k] \in Nat /\ store[k].move \in Nat
    BY <1>1, <1>3, <1>5 DEF TypeOK, Snapshot
  <2>3. \A k \in Keys : moves'.of[k] <= moves'.last /\ store'[k].move <= moves'.of[k]
    BY <1>1, <1>2, <1>5, <2>1, <2>2 DEF MovesNumbered
  <2>4. ASSUME NEW r \in Pages, tab[r] # None PROVE queue'[r].move <= moves'.of[tab[r]]
    <3>1. tab[r] \in Keys /\ queue[r].move \in Nat /\ n \in Nat
      BY <2>4, <1>1, <1>4 DEF TypeOK, Snapshot
    <3>2. queue[r].move <= moves.of[tab[r]]
      BY <2>4, <1>1 DEF MovesNumbered, Running
    <3> QED BY <3>1, <3>2, <2>1, <2>2, <1>5, <1>6
  <2>5. ASSUME NEW r \in Pages, merge[r].key # None
        PROVE  /\ merge[r].read.move <= moves'.of[merge[r].key]
               /\ merge[r].own.move <= moves'.of[merge[r].key]
    <3>1. /\ merge[r].key \in Keys /\ merge[r].read.move \in Nat
          /\ merge[r].own.move \in Nat
      BY <2>5, <1>1 DEF TypeOK, Merge, Snapshot
    <3>2. /\ merge[r].read.move <= moves.of[merge[r].key]
          /\ merge[r].own.move <= moves.of[merge[r].key]
      BY <2>5, <1>1 DEF MovesNumbered
    <3> QED BY <3>1, <3>2, <2>1, <2>2
  <2>6. ASSUME NEW r \in Pages, sweep[r].phase # "rest"
        PROVE  sweep[r].claim.move <= moves'.of[sweep[r].key]
    <3>1. sweep[r].key \in Keys /\ sweep[r].claim.move \in Nat
      BY <2>6, <1>1 DEF TasksSound, TypeOK, Sweep, Snapshot
    <3>2. sweep[r].claim.move <= moves.of[sweep[r].key]
      BY <2>6, <1>1 DEF MovesNumbered
    <3> QED BY <3>1, <3>2, <2>1, <2>2
  <2> QED BY <1>2, <2>3, <2>4, <2>5, <2>6 DEF MovesNumbered, Running
<1>10. AllClicksKept'
  <2> SUFFICES ASSUME NEW c \in captured
               PROVE  ClickKept(c, arrived, excused, store, queue', merge, sweep)
    BY <1>2 DEF AllClicksKept
  <2>1. ClickKept(c, arrived, excused, store, queue, merge, sweep)
    BY <1>1 DEF AllClicksKept
  <2> QED BY <2>1, <1>6 DEF ClickKept
<1>11. AllMovesKept'
  <2> SUFFICES ASSUME NEW k \in Keys, moves'.of[k] # 0
               PROVE  MoveKept(moves'.of[k], k, arrived, excused, tab, store, queue', merge,
                               sweep)
    BY <1>2 DEF AllMovesKept
  <2>1. CASE k = tab[p]
    BY <2>1, <1>5, <1>6 DEF MoveKept
  <2>2. CASE k # tab[p]
    <3>1. MoveKept(moves.of[k], k, arrived, excused, tab, store, queue, merge, sweep)
      BY <2>2, <1>1, <1>5 DEF AllMovesKept
    <3> QED BY <3>1, <2>2, <1>5, <1>6 DEF MoveKept
  <2> QED BY <2>1, <2>2
<1>12. CapturedFirst'
  BY <1>1, <1>2, <1>6 DEF CapturedFirst
<1>13. AllInOnePlace'
  <2> SUFFICES ASSUME NEW c \in Clicks \ repeated
               PROVE  InOnePlace(c, arrived, store, queue', merge, sweep)
    BY <1>2 DEF AllInOnePlace
  <2>1. InOnePlace(c, arrived, store, queue, merge, sweep)
    BY <1>1 DEF AllInOnePlace
  <2>2. \A x : IsAt(x, c, arrived, store, queue', merge, sweep)
            => IsAt(x, c, arrived, store, queue, merge, sweep)
    BY <1>6 DEF IsAt
  <2> QED BY <2>1, <2>2, OnePlaceMoves
<1> QED
  BY <1>7, <1>8, <1>9, <1>10, <1>11, <1>12, <1>13 DEF Parts

\* A merge is written: what is stored by now is kept if it was read, what was read and
\* is gone by now comes back.
LEMMA MergeWriteStep ==
    ASSUME Parts, NEW p \in Pages, MergeWrite(p)
    PROVE  Parts'
<1> DEFINE m == merge[p]
           k == m.key
           now == store[k]
           written == Merged(m.read, m.own)
<1>1. /\ TypeOK /\ TasksSound /\ MovesNumbered /\ CapturedFirst
      /\ AllClicksKept /\ AllMovesKept /\ AllInOnePlace
  BY DEF Parts
<1>2. /\ k # None /\ store' = [store EXCEPT ![k] = written] /\ stale' = stale \ {k}
      /\ merge' = [merge EXCEPT ![p] = After(m)]
      /\ Excusing({Overrun(now, m.read)})
      /\ repeated' = repeated \union (m.read.clicks \ now.clicks)
      /\ UNCHANGED <<tab, queue, sweep, arrived, captured, moves, closings>>
  BY DEF MergeWrite, history
<1>3. m \in Merge /\ k \in Keys /\ m.read \in Snapshot /\ m.own \in Snapshot /\ now \in Snapshot
  BY <1>1, <1>2 DEF TypeOK, Merge
<1>4. After(m) \in Merge /\ After(m).key = None /\ After(m).own = Nothing
      /\ After(m).read = Nothing
  BY <1>3, NothingIsEmpty DEF After, NoMerge, Merge
<1>5. /\ written \in Snapshot /\ written.clicks = m.read.clicks \union m.own.clicks
      /\ written.move \in {m.read.move, m.own.move}
      /\ m.read.move <= written.move /\ m.own.move <= written.move
  BY <1>3, MergedKeeps
<1>6. /\ excused' \in Events
      /\ excused.clicks \subseteq excused'.clicks /\ excused.moves \subseteq excused'.moves
      /\ now.clicks \ m.read.clicks \subseteq excused'.clicks
      /\ now.move # 0 /\ now.move # m.read.move => now.move \in excused'.moves
  <2>1. /\ Overrun(now, m.read) \in Snapshot
        /\ Overrun(now, m.read).clicks = now.clicks \ m.read.clicks
    BY <1>3, OverrunHolds
  <2>2. now.move # 0 /\ now.move # m.read.move => Overrun(now, m.read).move = now.move
    BY DEF Overrun
  <2> QED BY <1>1, <1>2, <2>1, <2>2, ExcusingAdds DEF TypeOK
<1>7. /\ store' \in [Keys -> Snapshot] /\ store'[k] = written
      /\ \A l \in Keys \ {k} : store'[l] = store[l]
      /\ merge' \in [Pages -> Merge] /\ merge'[p] = After(m)
      /\ \A r \in Pages \ {p} : merge'[r] = merge[r]
  BY <1>1, <1>2, <1>3, <1>4, <1>5 DEF TypeOK
<1>8. repeated' \subseteq Clicks
  BY <1>1, <1>2, <1>3 DEF TypeOK, Snapshot
<1> HIDE DEF m, k, now, written
<1>9. TypeOK'
  BY <1>1, <1>2, <1>6, <1>7, <1>8 DEF TypeOK
<1>10. TasksSound'
  <2>1. tab[p] # None
    BY <1>1, <1>2, RecordsOfNothing DEF TasksSound, Running, m, k
  <2> QED BY <1>1, <1>2, <1>4, <1>7, <2>1 DEF TasksSound, Running
<1>11. MovesNumbered'
  <2>1. written.move <= moves.of[k]
    BY <1>1, <1>2, <1>3, <1>5 DEF MovesNumbered, TypeOK, Snapshot, m, k
  <2> QED BY <1>1, <1>2, <1>4, <1>7, <2>1 DEF MovesNumbered, Running
<1>12. AllClicksKept'
  <2> SUFFICES ASSUME NEW c \in captured
               PROVE  ClickKept(c, arrived, excused', store', queue, merge', sweep)
    BY <1>2 DEF AllClicksKept
  <2>1. ClickKept(c, arrived, excused, store, queue, merge, sweep)
    BY <1>1 DEF AllClicksKept
  <2>2. CASE c \in written.clicks
    BY <2>2, <1>3, <1>7 DEF ClickKept
  <2>3. CASE c \notin written.clicks
    <3>1. c \notin m.own.clicks /\ c \notin m.read.clicks
      BY <2>3, <1>5
    <3>2. c \in now.clicks => c \in excused'.clicks
      BY <3>1, <1>6
    <3> QED BY <2>1, <3>1, <3>2, <1>6, <1>7 DEF ClickKept, m, now
  <2> QED BY <2>2, <2>3
<1>13. AllMovesKept'
  <2> SUFFICES ASSUME NEW l \in Keys, moves.of[l] # 0
               PROVE  MoveKept(moves.of[l], l, arrived, excused', tab, store', queue, merge',
                               sweep)
    BY <1>2 DEF AllMovesKept
  <2>1. MoveKept(moves.of[l], l, arrived, excused, tab, store, queue, merge, sweep)
    BY <1>1 DEF AllMovesKept
  <2>2. CASE l # k
    BY <2>1, <2>2, <1>6, <1>7 DEF MoveKept, m, k
  <2>3. CASE l = k
    <3>1. m.read.move <= moves.of[k] /\ m.own.move <= moves.of[k]
      BY <1>1, <1>2 DEF MovesNumbered, m, k
    <3>2. /\ m.read.move \in Nat /\ m.own.move \in Nat /\ moves.of[k] \in Nat
          /\ written.move \in Nat
      BY <1>1, <1>3, <1>5 DEF TypeOK, Snapshot
    <3>3. m.read.move = moves.of[k] \/ m.own.move = moves.of[k]
             => written.move = moves.of[k]
      BY <3>1, <3>2, <1>5
    <3>4. CASE written.move = moves.of[k]
      BY <2>3, <3>4, <1>7 DEF MoveKept
    <3>5. CASE written.move # moves.of[k]
      <4>1. m.own.move # moves.of[k] /\ m.read.move # moves.of[k]
        BY <3>3, <3>5
      <4>2. now.move = moves.of[k] => moves.of[k] \in excused'.moves
        BY <4>1, <1>6, <2>3
      <4> QED BY <2>1, <2>3, <4>1, <4>2, <1>6, <1>7 DEF MoveKept, m, now
    <3> QED BY <3>4, <3>5
  <2> QED BY <2>2, <2>3
<1>14. CapturedFirst'
  <2>1. written.clicks \subseteq captured
    BY <1>1, <1>5 DEF CapturedFirst, m
  <2> QED BY <1>1, <1>2, <1>4, <1>7, <2>1, NothingIsEmpty DEF CapturedFirst
<1>15. AllInOnePlace'
  <2> SUFFICES ASSUME NEW c \in Clicks \ repeated'
               PROVE  InOnePlace(c, arrived, store', queue, merge', sweep)
    BY <1>2 DEF AllInOnePlace
  <2>1. InOnePlace(c, arrived, store, queue, merge, sweep) /\ c \notin m.read.clicks \ now.clicks
    BY <1>1, <1>2 DEF AllInOnePlace
  <2>2. CASE c \in m.own.clicks
    <3>1. \A x : IsAt(x, c, arrived, store, queue, merge, sweep) => x = <<"merge", p>>
      BY <2>1, <2>2 DEF InOnePlace, IsAt, m
    <3>2. \A x : IsAt(x, c, arrived, store', queue, merge', sweep) => x = <<"store", k>>
      BY <3>1, <1>4, <1>7, NothingIsEmpty DEF IsAt
    <3> QED BY <2>1, <3>2, OnePlaceMoves
  <2>3. CASE c \notin m.own.clicks
    <3>1. c \in written.clicks => c \in now.clicks
      BY <2>1, <2>3, <1>5
    <3>2. \A x : IsAt(x, c, arrived, store', queue, merge', sweep)
              => IsAt(x, c, arrived, store, queue, merge, sweep)
      BY <3>1, <1>3, <1>4, <1>7, NothingIsEmpty DEF IsAt, now
    <3> QED BY <2>1, <3>2, OnePlaceMoves
  <2> QED BY <2>2, <2>3
<1> QED
  BY <1>9, <1>10, <1>11, <1>12, <1>13, <1>14, <1>15 DEF Parts

\* A write that fails: the queue has its events again, or those of a claim are excused.
LEMMA MergeFailsStep ==
    ASSUME Parts, NEW p \in Pages, MergeFails(p)
    PROVE  Parts'
<1> DEFINE m == merge[p]
           k == m.key
<1>1. /\ TypeOK /\ TasksSound /\ MovesNumbered /\ CapturedFirst
      /\ AllClicksKept /\ AllMovesKept /\ AllInOnePlace
  BY DEF Parts
<1>2. /\ k # None /\ merge' = [merge EXCEPT ![p] = After(m)]
      /\ UNCHANGED <<tab, store, stale, sweep, arrived, captured, moves, closings, repeated>>
      /\ \/ m.then = "restore" /\ Excusing({m.own}) /\ queue' = queue
         \/ /\ m.then # "restore" /\ queue' = [queue EXCEPT ![p] = m.own]
            /\ excused' = excused
  BY DEF MergeFails, history
<1>3. m \in Merge /\ k \in Keys /\ m.own \in Snapshot
  BY <1>1, <1>2 DEF TypeOK, Merge
<1>4. After(m) \in Merge /\ After(m).key = None /\ After(m).own = Nothing
      /\ After(m).read = Nothing
  BY <1>3, NothingIsEmpty DEF After, NoMerge, Merge
<1>5. /\ merge' \in [Pages -> Merge] /\ merge'[p] = After(m)
      /\ \A r \in Pages \ {p} : merge'[r] = merge[r]
  BY <1>1, <1>2, <1>4 DEF TypeOK
<1>6. /\ queue' \in [Pages -> Snapshot] /\ \A r \in Pages \ {p} : queue'[r] = queue[r]
      /\ excused' \in Events
      /\ excused.clicks \subseteq excused'.clicks /\ excused.moves \subseteq excused'.moves
      /\ \/ /\ queue'[p] = queue[p] /\ m.own.clicks \subseteq excused'.clicks
            /\ m.own.move # 0 => m.own.move \in excused'.moves
         \/ /\ queue'[p] = m.own /\ queue[p] = Nothing /\ k = tab[p]
            /\ excused' = excused
  <2>1. CASE m.then = "restore" /\ Excusing({m.own}) /\ queue' = queue
    BY <2>1, <1>1, <1>3, ExcusingAdds DEF TypeOK
  <2>2. CASE /\ m.then # "restore" /\ queue' = [queue EXCEPT ![p] = m.own]
             /\ excused' = excused
    BY <2>2, <1>1, <1>2, <1>3 DEF TypeOK, TasksSound
  <2> QED BY <1>2, <2>1, <2>2
<1>7. tab[p] # None
  BY <1>1, <1>2, RecordsOfNothing DEF TasksSound, Running
<1>8. m.own.move <= moves.of[k] /\ m.own.clicks \subseteq captured
  BY <1>1, <1>2 DEF MovesNumbered, CapturedFirst
<1> HIDE DEF m, k
<1>9. TypeOK'
  BY <1>1, <1>2, <1>5, <1>6 DEF TypeOK
<1>10. TasksSound'
  BY <1>1, <1>2, <1>4, <1>5, <1>6, <1>7 DEF TasksSound, Running
<1>11. MovesNumbered'
  BY <1>1, <1>2, <1>4, <1>5, <1>6, <1>8 DEF MovesNumbered, Running
<1>12. AllClicksKept'
  <2> SUFFICES ASSUME NEW c \in captured
               PROVE  ClickKept(c, arrived, excused', store, queue', merge', sweep)
    BY <1>2 DEF AllClicksKept
  <2>1. ClickKept(c, arrived, excused, store, queue, merge, sweep)
    BY <1>1 DEF AllClicksKept
  <2>2. CASE c \in m.own.clicks
    BY <2>2, <1>6 DEF ClickKept
  <2>3. CASE c \notin m.own.clicks
    BY <2>1, <2>3, <1>5, <1>6, NothingIsEmpty DEF ClickKept, m
  <2> QED BY <2>2, <2>3
<1>13. AllMovesKept'
  <2> SUFFICES ASSUME NEW l \in Keys, moves.of[l] # 0
               PROVE  MoveKept(moves.of[l], l, arrived, excused', tab, store, queue', merge',
                               sweep)
    BY <1>2 DEF AllMovesKept
  <2>1. MoveKept(moves.of[l], l, arrived, excused, tab, store, queue, merge, sweep)
    BY <1>1 DEF AllMovesKept
  <2>2. CASE l = k /\ m.own.move = moves.of[l]
    BY <2>2, <1>6 DEF MoveKept
  <2>3. CASE ~(l = k /\ m.own.move = moves.of[l])
    BY <2>1, <2>3, <1>5, <1>6, NothingIsEmpty DEF MoveKept, m, k
  <2> QED BY <2>2, <2>3
<1>14. CapturedFirst'
  BY <1>1, <1>2, <1>4, <1>5, <1>6, <1>8, NothingIsEmpty DEF CapturedFirst
<1>15. AllInOnePlace'
  <2> SUFFICES ASSUME NEW c \in Clicks \ repeated
               PROVE  InOnePlace(c, arrived, store, queue', merge', sweep)
    BY <1>2 DEF AllInOnePlace
  <2>1. InOnePlace(c, arrived, store, queue, merge, sweep)
    BY <1>1 DEF AllInOnePlace
  <2>2. CASE c \in m.own.clicks
    <3>1. \A x : IsAt(x, c, arrived, store, queue, merge, sweep) => x = <<"merge", p>>
      BY <2>1, <2>2 DEF InOnePlace, IsAt, m
    <3>2. \A x : IsAt(x, c, arrived, store, queue', merge', sweep) => x = <<"queue", p>>
      BY <3>1, <1>4, <1>5, <1>6, NothingIsEmpty DEF IsAt
    <3> QED BY <2>1, <3>2, OnePlaceMoves
  <2>3. CASE c \notin m.own.clicks
    <3>1. \A x : IsAt(x, c, arrived, store, queue', merge', sweep)
              => IsAt(x, c, arrived, store, queue, merge, sweep)
      BY <2>3, <1>4, <1>5, <1>6, NothingIsEmpty DEF IsAt
    <3> QED BY <2>1, <3>1, OnePlaceMoves
  <2> QED BY <2>2, <2>3
<1> QED
  BY <1>9, <1>10, <1>11, <1>12, <1>13, <1>14, <1>15 DEF Parts


\* Nothing a place holds changes with the age of a snapshot.
LEMMA AgeStep ==
    ASSUME Parts, NEW k \in Keys, Age(k)
    PROVE  Parts'
<1>1. TypeOK'
  BY DEF Parts, TypeOK, Age, history
<1>2. UNCHANGED <<tab, queue, store, merge, sweep, arrived, captured, moves, excused, repeated>>
  BY DEF Age, history
<1> QED
  BY <1>1, <1>2 DEF Parts, TasksSound, Running, MovesNumbered, AllClicksKept, AllMovesKept,
                    CapturedFirst, AllInOnePlace

\* A page that opens has nothing in its queue yet.
LEMMA OpenPageStep ==
    ASSUME Parts, NEW p \in Pages, NEW k \in Keys, OpenPage(p, k)
    PROVE  Parts'
<1>1. /\ TypeOK /\ TasksSound /\ MovesNumbered /\ CapturedFirst
      /\ AllClicksKept /\ AllMovesKept /\ AllInOnePlace
  BY DEF Parts
<1>2. /\ ~ Running(p) /\ tab' = [tab EXCEPT ![p] = k]
      /\ UNCHANGED <<queue, store, stale, merge, sweep, arrived, captured, moves, closings,
                     excused, repeated>>
  BY DEF OpenPage, history
<1>3. /\ tab' \in [Pages -> Keys \union {None}] /\ tab'[p] = k
      /\ \A r \in Pages \ {p} : tab'[r] = tab[r]
  BY <1>1, <1>2 DEF TypeOK
<1>4. queue[p] = Nothing /\ merge[p] = NoMerge /\ sweep[p] = Idle
  BY <1>1, <1>2 DEF TasksSound
<1>5. TypeOK'
  BY <1>1, <1>2, <1>3 DEF TypeOK
<1>6. TasksSound'
  BY <1>1, <1>2, <1>3, <1>4, RecordsOfNothing DEF TasksSound, Running
<1>7. MovesNumbered'
  <2>1. 0 <= moves.of[k]
    BY <1>1 DEF TypeOK
  <2> QED BY <1>1, <1>2, <1>3, <1>4, <2>1, NothingIsEmpty DEF MovesNumbered, Running
<1>8. AllMovesKept'
  <2> SUFFICES ASSUME NEW l \in Keys, moves.of[l] # 0
               PROVE  MoveKept(moves.of[l], l, arrived, excused, tab', store, queue, merge,
                               sweep)
    BY <1>2 DEF AllMovesKept
  <2>1. MoveKept(moves.of[l], l, arrived, excused, tab, store, queue, merge, sweep)
    BY <1>1 DEF AllMovesKept
  <2> QED BY <2>1, <1>3, <1>4, NothingIsEmpty DEF MoveKept
<1> QED
  BY <1>1, <1>2, <1>5, <1>6, <1>7, <1>8 DEF Parts, AllClicksKept, CapturedFirst, AllInOnePlace

\* A page that goes: what it alone held is excused.
LEMMA GoneStep ==
    ASSUME Parts, NEW p \in Pages, Gone(p), closings' \in 0 .. MaxClosings
    PROVE  Parts'
<1> DEFINE held == InFlight(sweep[p])
<1>1. /\ TypeOK /\ TasksSound /\ MovesNumbered /\ CapturedFirst
      /\ AllClicksKept /\ AllMovesKept /\ AllInOnePlace
  BY DEF Parts
<1>2. /\ tab' = [tab EXCEPT ![p] = None] /\ queue' = [queue EXCEPT ![p] = Nothing]
      /\ merge' = [merge EXCEPT ![p] = NoMerge] /\ sweep' = [sweep EXCEPT ![p] = Idle]
      /\ Excusing({queue[p], merge[p].own, held}) /\ Cancelled(p)
      /\ UNCHANGED <<store, stale, captured, moves, repeated>>
  BY ClaimedInFlight DEF Gone, Alone
<1>3. /\ queue[p] \in Snapshot /\ merge[p].own \in Snapshot /\ held \in Snapshot
      /\ held \in {sweep[p].claim, Nothing}
  BY <1>1, InFlightHolds DEF TypeOK, Merge
<1>4. /\ excused' \in Events
      /\ excused.clicks \subseteq excused'.clicks /\ excused.moves \subseteq excused'.moves
      /\ \A s \in {queue[p], merge[p].own, held} :
            s.clicks \subseteq excused'.clicks /\ (s.move # 0 => s.move \in excused'.moves)
  BY <1>1, <1>2, <1>3, ExcusingAdds DEF TypeOK
<1>5. /\ arrived' \in Events /\ arrived.moves \subseteq arrived'.moves
      /\ arrived.clicks \subseteq arrived'.clicks
      /\ arrived'.clicks \subseteq arrived.clicks \union held.clicks
  <2>1. CASE UNCHANGED arrived
    BY <2>1, <1>1 DEF TypeOK
  <2>2. CASE sweep[p].phase = "flight" /\ Stored(sweep[p].claim)
    <3>1. held = sweep[p].claim
      BY <2>2 DEF InFlight
    <3> QED BY <1>1, <1>3, <2>2, <3>1, StoredAdds DEF TypeOK
  <2> QED BY <1>2, <2>1, <2>2 DEF Cancelled
<1>6. held.clicks \subseteq captured
  BY <1>1, <1>3, NothingIsEmpty DEF CapturedFirst
<1>7. /\ tab' \in [Pages -> Keys \union {None}] /\ queue' \in [Pages -> Snapshot]
      /\ merge' \in [Pages -> Merge] /\ sweep' \in [Pages -> Sweep]
      /\ tab'[p] = None /\ queue'[p] = Nothing /\ merge'[p] = NoMerge /\ sweep'[p] = Idle
      /\ \A r \in Pages \ {p} : /\ tab'[r] = tab[r] /\ queue'[r] = queue[r]
                                /\ merge'[r] = merge[r] /\ sweep'[r] = sweep[r]
  BY <1>1, <1>2, NothingIsEmpty, RecordsOfNothing DEF TypeOK
<1> HIDE DEF held
<1>8. TypeOK'
  BY <1>1, <1>2, <1>4, <1>5, <1>7 DEF TypeOK
<1>9. TasksSound'
  BY <1>1, <1>7, RecordsOfNothing DEF TasksSound, Running
<1>10. MovesNumbered'
  BY <1>1, <1>2, <1>7, RecordsOfNothing DEF MovesNumbered, Running
<1>11. AllClicksKept'
  <2> SUFFICES ASSUME NEW c \in captured
               PROVE  ClickKept(c, arrived', excused', store, queue', merge', sweep')
    BY <1>2 DEF AllClicksKept
  <2>1. ClickKept(c, arrived, excused, store, queue, merge, sweep)
    BY <1>1 DEF AllClicksKept
  <2> QED BY <2>1, <1>4, <1>5, <1>7 DEF ClickKept, held
<1>12. AllMovesKept'
  <2> SUFFICES ASSUME NEW k \in Keys, moves.of[k] # 0
               PROVE  MoveKept(moves.of[k], k, arrived', excused', tab', store, queue', merge',
                               sweep')
    BY <1>2 DEF AllMovesKept
  <2>1. MoveKept(moves.of[k], k, arrived, excused, tab, store, queue, merge, sweep)
    BY <1>1 DEF AllMovesKept
  <2> QED BY <2>1, <1>4, <1>5, <1>7 DEF MoveKept, held
<1>13. CapturedFirst'
  <2>1. Idle.claim = Nothing
    BY DEF Idle
  <2> QED BY <1>1, <1>2, <1>5, <1>6, <1>7, <2>1, NothingIsEmpty, RecordsOfNothing
          DEF CapturedFirst
<1>14. AllInOnePlace'
  <2> SUFFICES ASSUME NEW c \in Clicks \ repeated
               PROVE  InOnePlace(c, arrived', store, queue', merge', sweep')
    BY <1>2 DEF AllInOnePlace
  <2>1. InOnePlace(c, arrived, store, queue, merge, sweep)
    BY <1>1 DEF AllInOnePlace
  <2>2. CASE c \in held.clicks
    <3>1. \A x : IsAt(x, c, arrived, store, queue, merge, sweep) => x = <<"claim", p>>
      BY <2>1, <2>2 DEF InOnePlace, IsAt, held
    <3>2. \A x : IsAt(x, c, arrived', store, queue', merge', sweep') => x = <<"server", None>>
      BY <3>1, <1>7, NothingIsEmpty, RecordsOfNothing DEF IsAt
    <3> QED BY <2>1, <3>2, OnePlaceMoves
  <2>3. CASE c \notin held.clicks
    <3>1. \A x : IsAt(x, c, arrived', store, queue', merge', sweep')
              => IsAt(x, c, arrived, store, queue, merge, sweep)
      BY <2>3, <1>5, <1>7, NothingIsEmpty, RecordsOfNothing DEF IsAt
    <3> QED BY <2>1, <3>1, OnePlaceMoves
  <2> QED BY <2>2, <2>3
<1> QED
  BY <1>8, <1>9, <1>10, <1>11, <1>12, <1>13, <1>14 DEF Parts

\* A sweep that changes but for what it alone holds, and a merge that was none.
LEMMA SweepStep ==
    ASSUME Parts, NEW p \in Pages,
           sweep' \in [Pages -> Sweep], merge' \in [Pages -> Merge],
           \A r \in Pages \ {p} : sweep'[r] = sweep[r] /\ merge'[r] = merge[r],
           Running(p), merge[p].own = Nothing, merge'[p] = NoMerge,
           InFlight(sweep[p]) = Nothing, InFlight(sweep'[p]) = Nothing,
           \/ sweep'[p].phase = "rest"
           \/ sweep'[p].key \in Keys /\ sweep'[p].claim.move <= moves.of[sweep'[p].key],
           sweep'[p].claim.clicks \subseteq captured,
           UNCHANGED <<tab, queue, store, stale, arrived, captured, moves, closings, excused,
                       repeated>>
    PROVE  Parts'
<1>1. /\ TypeOK /\ TasksSound /\ MovesNumbered /\ CapturedFirst
      /\ AllClicksKept /\ AllMovesKept /\ AllInOnePlace
  BY DEF Parts
<1>2. TypeOK'
  BY <1>1 DEF TypeOK
<1>3. TasksSound'
  BY <1>1, RecordsOfNothing DEF TasksSound, Running
<1>4. MovesNumbered'
  BY <1>1, RecordsOfNothing DEF MovesNumbered, Running
<1>5. AllClicksKept'
  <2> SUFFICES ASSUME NEW c \in captured
               PROVE  ClickKept(c, arrived, excused, store, queue, merge', sweep')
    BY DEF AllClicksKept
  <2>1. ClickKept(c, arrived, excused, store, queue, merge, sweep)
    BY <1>1 DEF AllClicksKept
  <2> QED BY <2>1, NothingIsEmpty DEF ClickKept
<1>6. AllMovesKept'
  <2> SUFFICES ASSUME NEW k \in Keys, moves.of[k] # 0
               PROVE  MoveKept(moves.of[k], k, arrived, excused, tab, store, queue, merge',
                               sweep')
    BY DEF AllMovesKept
  <2>1. MoveKept(moves.of[k], k, arrived, excused, tab, store, queue, merge, sweep)
    BY <1>1 DEF AllMovesKept
  <2> QED BY <2>1, NothingIsEmpty DEF MoveKept
<1>7. CapturedFirst'
  BY <1>1, NothingIsEmpty, RecordsOfNothing DEF CapturedFirst
<1>8. AllInOnePlace'
  <2> SUFFICES ASSUME NEW c \in Clicks \ repeated
               PROVE  InOnePlace(c, arrived, store, queue, merge', sweep')
    BY DEF AllInOnePlace
  <2>1. InOnePlace(c, arrived, store, queue, merge, sweep)
    BY <1>1 DEF AllInOnePlace
  <2>2. \A x : IsAt(x, c, arrived, store, queue, merge', sweep')
           => IsAt(x, c, arrived, store, queue, merge, sweep)
    BY NothingIsEmpty, RecordsOfNothing DEF IsAt
  <2> QED BY <2>1, <2>2, OnePlaceMoves
<1> QED
  BY <1>2, <1>3, <1>4, <1>5, <1>6, <1>7, <1>8 DEF Parts

\* A page whose task is not at its end is open.
LEMMA RunningBehind ==
    ASSUME TasksSound, NEW p \in Pages
    PROVE  merge[p] # NoMerge \/ sweep[p] # Idle => Running(p)
BY DEF TasksSound

LEMMA StartSweepStep ==
    ASSUME Parts, NEW p \in Pages, StartSweep(p)
    PROVE  Parts'
<1> DEFINE fresh == [Idle EXCEPT !.todo = {tab[p]} \union stale]
<1>1. /\ TypeOK /\ TasksSound /\ CapturedFirst /\ MovesNumbered
  BY DEF Parts
<1>2. /\ merge[p] = [NoMerge EXCEPT !.then = "flush"]
      /\ merge' = [merge EXCEPT ![p] = NoMerge]
      /\ UNCHANGED <<tab, queue, store, stale, arrived, captured, moves, closings, excused,
                     repeated>>
  BY DEF StartSweep, history
<1>3. merge[p] # NoMerge /\ merge[p].own = Nothing
  BY <1>2 DEF NoMerge
<1>4. Running(p)
  BY <1>1, <1>3, RunningBehind
<1>5. /\ merge' \in [Pages -> Merge] /\ merge'[p] = NoMerge
      /\ \A r \in Pages \ {p} : merge'[r] = merge[r]
  BY <1>1, <1>2, RecordsOfNothing DEF TypeOK
<1>6. CASE sweep[p] = Idle
  <2>1. sweep' = [sweep EXCEPT ![p].todo = {tab[p]} \union stale]
    BY <1>6 DEF StartSweep
  <2>2. sweep' = [sweep EXCEPT ![p] = fresh]
    BY <1>1, <1>6, <2>1 DEF TypeOK
  <2>3. /\ fresh \in Sweep /\ InFlight(fresh) = Nothing /\ fresh.phase = "rest"
        /\ fresh.claim = Nothing
    BY <1>1, <1>4, NothingIsEmpty DEF Idle, Sweep, InFlight, TypeOK, Running
  <2> HIDE DEF fresh
  <2>4. /\ sweep' \in [Pages -> Sweep] /\ sweep'[p] = fresh
        /\ \A r \in Pages \ {p} : sweep'[r] = sweep[r]
    BY <1>1, <2>2, <2>3 DEF TypeOK
  <2> QED BY <1>2, <1>3, <1>4, <1>5, <1>6, <2>3, <2>4, NothingIsEmpty, RecordsOfNothing, SweepStep
<1>7. CASE sweep[p] # Idle
  <2>1. sweep' = sweep
    BY <1>7 DEF StartSweep
  <2>2. TypeOK'
    BY <1>1, <1>2, <1>5, <2>1 DEF TypeOK
  <2>3. TasksSound' /\ MovesNumbered' /\ CapturedFirst'
    BY <1>1, <1>2, <1>4, <1>5, <2>1, NothingIsEmpty, RecordsOfNothing
       DEF TasksSound, Running, MovesNumbered, CapturedFirst
  <2>4. \A c : ClickKept(c, arrived, excused, store, queue, merge, sweep)
               => ClickKept(c, arrived, excused, store, queue, merge', sweep)
    BY <1>3, <1>5, NothingIsEmpty DEF ClickKept
  <2>5. \A n, k : n # 0 /\ MoveKept(n, k, arrived, excused, tab, store, queue, merge, sweep)
                  => MoveKept(n, k, arrived, excused, tab, store, queue, merge', sweep)
    BY <1>3, <1>5, NothingIsEmpty DEF MoveKept
  <2>6. \A c, x : IsAt(x, c, arrived, store, queue, merge', sweep)
                  => IsAt(x, c, arrived, store, queue, merge, sweep)
    BY <1>3, <1>5, NothingIsEmpty, RecordsOfNothing DEF IsAt
  <2>7. AllClicksKept' /\ AllMovesKept'
    BY <1>2, <2>1, <2>4, <2>5 DEF Parts, AllClicksKept, AllMovesKept
  <2>8. AllInOnePlace'
    BY <1>2, <2>1, <2>6 DEF Parts, AllInOnePlace, InOnePlace
  <2> QED BY <2>2, <2>3, <2>7, <2>8 DEF Parts
<1> QED
  BY <1>6, <1>7

\* Reading a snapshot to claim it changes nothing that is kept.
LEMMA ClaimReadStep ==
    ASSUME Parts, NEW p \in Pages, NEW k \in Keys, ClaimRead(p, k)
    PROVE  Parts'
<1> DEFINE rec == [phase |-> "read", todo |-> sweep[p].todo \ {k}, key |-> k,
                   claim |-> store[k]]
<1>1. /\ TypeOK /\ TasksSound /\ CapturedFirst /\ MovesNumbered
  BY DEF Parts
<1>2. /\ merge[p] = NoMerge /\ sweep[p].phase = "rest" /\ k \in sweep[p].todo
      /\ sweep' = [sweep EXCEPT ![p] = rec]
      /\ UNCHANGED <<tab, queue, store, stale, merge, arrived, captured, moves, closings,
                     excused, repeated>>
  BY DEF ClaimRead, NextKey, history
<1>3. sweep[p] # Idle
  BY <1>2 DEF Idle
<1>4. Running(p)
  BY <1>1, <1>3, RunningBehind
<1>5. /\ rec \in Sweep /\ InFlight(rec) = Nothing /\ rec.key = k /\ rec.claim = store[k]
  BY <1>1 DEF TypeOK, Sweep, InFlight
<1>6. store[k].move <= moves.of[k] /\ store[k].clicks \subseteq captured
  BY <1>1 DEF MovesNumbered, CapturedFirst
<1>7. InFlight(sweep[p]) = Nothing
  BY <1>2 DEF InFlight
<1> HIDE DEF rec
<1>8. /\ sweep' \in [Pages -> Sweep] /\ sweep'[p] = rec
      /\ \A r \in Pages \ {p} : sweep'[r] = sweep[r]
  BY <1>1, <1>2, <1>5 DEF TypeOK
<1>9. merge' \in [Pages -> Merge] /\ merge'[p] = NoMerge /\ merge[p].own = Nothing
      /\ \A r \in Pages \ {p} : merge'[r] = merge[r]
  BY <1>1, <1>2, RecordsOfNothing DEF TypeOK
<1> QED
  BY <1>2, <1>4, <1>5, <1>6, <1>7, <1>8, <1>9, SweepStep

\* What a removed snapshot held is claimed, was claimed by another, or is excused.
LEMMA ClaimRemoveStep ==
    ASSUME Parts, NEW p \in Pages, ClaimRemove(p)
    PROVE  Parts'
<1> DEFINE k == sweep[p].key
           claim == sweep[p].claim
           now == store[k]
           rec == IF claim = Nothing THEN [Idle EXCEPT !.todo = sweep[p].todo]
                  ELSE [sweep[p] EXCEPT !.phase = "flight"]
<1>1. /\ TypeOK /\ TasksSound /\ MovesNumbered /\ CapturedFirst
      /\ AllClicksKept /\ AllMovesKept /\ AllInOnePlace
  BY DEF Parts
<1>2. /\ sweep[p].phase = "read" /\ store' = [store EXCEPT ![k] = Nothing]
      /\ stale' = stale \ {k} /\ sweep' = Sent(p) /\ Excusing({Overrun(now, claim)})
      /\ repeated' = repeated \union (claim.clicks \ now.clicks)
      /\ UNCHANGED <<tab, queue, merge, arrived, captured, moves, closings>>
  BY DEF ClaimRemove, history
<1>3. /\ sweep[p] \in Sweep /\ k \in Keys /\ claim \in Snapshot /\ now \in Snapshot
      /\ claim.move <= moves.of[k] /\ claim.clicks \subseteq captured
      /\ InFlight(sweep[p]) = Nothing /\ sweep[p] # Idle
  <2>1. sweep[p] \in Sweep /\ k \in Keys
    BY <1>1, <1>2 DEF TypeOK, TasksSound
  <2> QED BY <1>1, <1>2, <2>1
          DEF TypeOK, Sweep, TasksSound, MovesNumbered, CapturedFirst, InFlight, Idle
<1>4. Running(p)
  BY <1>1, <1>3, RunningBehind
<1>5. /\ rec \in Sweep /\ InFlight(rec) = claim
      /\ \/ rec.phase = "rest" /\ rec.claim = Nothing
         \/ rec.phase = "flight" /\ rec.claim = claim /\ rec.key = k
  <2>1. CASE claim = Nothing
    BY <1>3, <2>1, NothingIsEmpty DEF Idle, Sweep, InFlight
  <2>2. CASE claim # Nothing
    <3>1. PICK todo \in SUBSET Keys :
            sweep[p] = [phase |-> "read", todo |-> todo, key |-> k, claim |-> claim]
      BY <1>2, <1>3 DEF Sweep
    <3> QED BY <1>3, <2>2, <3>1 DEF Sweep, InFlight
  <2> QED BY <2>1, <2>2
<1>6. sweep' = [sweep EXCEPT ![p] = rec]
  BY <1>1, <1>2 DEF TypeOK, Sent, Settled
<1>7. /\ excused' \in Events
      /\ excused.clicks \subseteq excused'.clicks /\ excused.moves \subseteq excused'.moves
      /\ now.clicks \ claim.clicks \subseteq excused'.clicks
      /\ now.move # 0 /\ now.move # claim.move => now.move \in excused'.moves
  <2>1. /\ Overrun(now, claim) \in Snapshot
        /\ Overrun(now, claim).clicks = now.clicks \ claim.clicks
    BY <1>3, OverrunHolds
  <2>2. now.move # 0 /\ now.move # claim.move => Overrun(now, claim).move = now.move
    BY DEF Overrun
  <2> QED BY <1>1, <1>2, <2>1, <2>2, ExcusingAdds DEF TypeOK
<1>8. repeated' \subseteq Clicks
  BY <1>1, <1>2, <1>3 DEF TypeOK, Snapshot
<1> HIDE DEF rec, k, claim, now
<1>9. /\ store' \in [Keys -> Snapshot] /\ store'[k] = Nothing
      /\ \A l \in Keys \ {k} : store'[l] = store[l]
      /\ sweep' \in [Pages -> Sweep] /\ sweep'[p] = rec
      /\ \A r \in Pages \ {p} : sweep'[r] = sweep[r]
  BY <1>1, <1>2, <1>3, <1>5, <1>6, NothingIsEmpty DEF TypeOK
<1>10. TypeOK'
  BY <1>1, <1>2, <1>7, <1>8, <1>9 DEF TypeOK
<1>11. TasksSound'
  BY <1>1, <1>2, <1>3, <1>4, <1>5, <1>9 DEF TasksSound, Running
<1>12. MovesNumbered'
  <2>1. 0 <= moves.of[k]
    BY <1>1, <1>3 DEF TypeOK
  <2> QED BY <1>1, <1>2, <1>3, <1>5, <1>9, <2>1, NothingIsEmpty DEF MovesNumbered, Running
<1>13. AllClicksKept'
  <2> SUFFICES ASSUME NEW c \in captured
               PROVE  ClickKept(c, arrived, excused', store', queue, merge, sweep')
    BY <1>2 DEF AllClicksKept
  <2>1. ClickKept(c, arrived, excused, store, queue, merge, sweep)
    BY <1>1 DEF AllClicksKept
  <2>2. CASE c \in claim.clicks
    BY <2>2, <1>5, <1>9 DEF ClickKept
  <2>3. CASE c \notin claim.clicks
    <3>1. c \in now.clicks => c \in excused'.clicks
      BY <2>3, <1>7
    <3> QED BY <2>1, <3>1, <1>3, <1>7, <1>9, NothingIsEmpty DEF ClickKept, now
  <2> QED BY <2>2, <2>3
<1>14. AllMovesKept'
  <2> SUFFICES ASSUME NEW l \in Keys, moves.of[l] # 0
               PROVE  MoveKept(moves.of[l], l, arrived, excused', tab, store', queue, merge,
                               sweep')
    BY <1>2 DEF AllMovesKept
  <2>1. MoveKept(moves.of[l], l, arrived, excused, tab, store, queue, merge, sweep)
    BY <1>1 DEF AllMovesKept
  <2>2. CASE l # k
    BY <2>1, <2>2, <1>3, <1>7, <1>9, NothingIsEmpty DEF MoveKept
  <2>3. CASE l = k /\ claim.move = moves.of[k]
    <3>1. rec.phase = "flight"
      BY <2>3, <1>5, NothingIsEmpty DEF InFlight
    <3>2. rec.key = k
      BY <3>1, <1>5
    <3> QED BY <2>3, <3>2, <1>5, <1>9 DEF MoveKept
  <2>4. CASE l = k /\ claim.move # moves.of[k]
    <3>1. now.move = moves.of[k] => moves.of[k] \in excused'.moves
      BY <2>4, <1>7
    <3> QED BY <2>1, <2>4, <3>1, <1>3, <1>7, <1>9, NothingIsEmpty DEF MoveKept, now
  <2> QED BY <2>2, <2>3, <2>4
<1>15. CapturedFirst'
  BY <1>1, <1>2, <1>3, <1>5, <1>9, NothingIsEmpty DEF CapturedFirst
<1>16. AllInOnePlace'
  <2> SUFFICES ASSUME NEW c \in Clicks \ repeated'
               PROVE  InOnePlace(c, arrived, store', queue, merge, sweep')
    BY <1>2 DEF AllInOnePlace
  <2>1. InOnePlace(c, arrived, store, queue, merge, sweep) /\ c \notin claim.clicks \ now.clicks
    BY <1>1, <1>2 DEF AllInOnePlace
  <2>2. CASE c \in claim.clicks
    <3>1. \A x : IsAt(x, c, arrived, store, queue, merge, sweep) => x = <<"store", k>>
      BY <2>1, <2>2, <1>3 DEF InOnePlace, IsAt, now
    <3>2. \A x : IsAt(x, c, arrived, store', queue, merge, sweep') => x = <<"claim", p>>
      BY <3>1, <1>9, NothingIsEmpty DEF IsAt
    <3> QED BY <2>1, <3>2, OnePlaceMoves
  <2>3. CASE c \notin claim.clicks
    <3>1. \A x : IsAt(x, c, arrived, store', queue, merge, sweep')
              => IsAt(x, c, arrived, store, queue, merge, sweep)
      BY <2>3, <1>5, <1>9, NothingIsEmpty DEF IsAt
    <3> QED BY <2>1, <3>1, OnePlaceMoves
  <2> QED BY <2>2, <2>3
<1> QED
  BY <1>10, <1>11, <1>12, <1>13, <1>14, <1>15, <1>16 DEF Parts

\* A request under way and what becomes of its sweep.
LEMMA WaitingEffect ==
    ASSUME TypeOK, TasksSound, MovesNumbered, CapturedFirst, NEW p \in Pages, Waiting(p),
           sweep' = Settled(p)
    PROVE  /\ merge[p] = NoMerge /\ Running(p) /\ sweep[p].phase = "flight"
           /\ sweep[p].claim \in Snapshot /\ InFlight(sweep[p]) = sweep[p].claim
           /\ sweep[p].key \in Keys /\ sweep[p].claim.move <= moves.of[sweep[p].key]
           /\ sweep[p].claim.clicks \subseteq captured
           /\ sweep' \in [Pages -> Sweep] /\ sweep'[p].phase = "rest"
           /\ sweep'[p].claim = Nothing /\ InFlight(sweep'[p]) = Nothing
           /\ \A r \in Pages \ {p} : sweep'[r] = sweep[r]
<1> DEFINE rec == [Idle EXCEPT !.todo = sweep[p].todo]
<1>1. merge[p] = NoMerge /\ sweep[p].phase = "flight" /\ sweep[p] \in Sweep
  BY DEF Waiting, TypeOK
<1>2. sweep[p] # Idle /\ InFlight(sweep[p]) = sweep[p].claim /\ sweep[p].claim \in Snapshot
  BY <1>1 DEF Idle, InFlight, Sweep
<1>3. Running(p)
  BY <1>2, RunningBehind
<1>4. rec \in Sweep /\ rec.phase = "rest" /\ rec.claim = Nothing /\ InFlight(rec) = Nothing
  BY <1>1, NothingIsEmpty DEF Idle, Sweep, InFlight
<1>5. sweep' = [sweep EXCEPT ![p] = rec]
  BY DEF Settled
<1> HIDE DEF rec
<1>6. /\ sweep' \in [Pages -> Sweep] /\ sweep'[p] = rec
      /\ \A r \in Pages \ {p} : sweep'[r] = sweep[r]
  BY <1>4, <1>5 DEF TypeOK
<1>7. /\ sweep[p].key \in Keys /\ sweep[p].claim.move <= moves.of[sweep[p].key]
      /\ sweep[p].claim.clicks \subseteq captured
  BY <1>1 DEF TasksSound, MovesNumbered, CapturedFirst
<1> QED
  BY <1>1, <1>2, <1>3, <1>4, <1>6, <1>7

\* The claim goes to the server.
LEMMA AcceptedStep ==
    ASSUME Parts, NEW p \in Pages, Accepted(p)
    PROVE  Parts'
<1> DEFINE claim == sweep[p].claim
<1>1. /\ TypeOK /\ TasksSound /\ MovesNumbered /\ CapturedFirst
      /\ AllClicksKept /\ AllMovesKept /\ AllInOnePlace
  BY DEF Parts
<1>2. /\ Waiting(p) /\ Stored(claim) /\ sweep' = Settled(p)
      /\ UNCHANGED <<tab, queue, store, stale, merge, captured, moves, closings, excused,
                     repeated>>
  BY DEF Accepted, history
<1>3. /\ merge[p] = NoMerge /\ Running(p) /\ claim \in Snapshot
      /\ InFlight(sweep[p]) = claim /\ claim.clicks \subseteq captured
      /\ sweep' \in [Pages -> Sweep] /\ sweep'[p].phase = "rest"
      /\ sweep'[p].claim = Nothing /\ InFlight(sweep'[p]) = Nothing
      /\ \A r \in Pages \ {p} : sweep'[r] = sweep[r]
  BY <1>1, <1>2, WaitingEffect
<1>4. /\ arrived' \in Events /\ arrived'.clicks = arrived.clicks \union claim.clicks
      /\ arrived.moves \subseteq arrived'.moves
      /\ claim.move # 0 => claim.move \in arrived'.moves
  BY <1>1, <1>2, <1>3, StoredAdds DEF TypeOK
<1> HIDE DEF claim
<1>5. TypeOK'
  BY <1>1, <1>2, <1>3, <1>4 DEF TypeOK
<1>6. TasksSound'
  BY <1>1, <1>2, <1>3 DEF TasksSound, Running
<1>7. MovesNumbered'
  BY <1>1, <1>2, <1>3 DEF MovesNumbered, Running
<1>8. AllClicksKept'
  <2> SUFFICES ASSUME NEW c \in captured
               PROVE  ClickKept(c, arrived', excused, store, queue, merge, sweep')
    BY <1>2 DEF AllClicksKept
  <2>1. ClickKept(c, arrived, excused, store, queue, merge, sweep)
    BY <1>1 DEF AllClicksKept
  <2> QED BY <2>1, <1>3, <1>4 DEF ClickKept
<1>9. AllMovesKept'
  <2> SUFFICES ASSUME NEW k \in Keys, moves.of[k] # 0
               PROVE  MoveKept(moves.of[k], k, arrived', excused, tab, store, queue, merge,
                               sweep')
    BY <1>2 DEF AllMovesKept
  <2>1. MoveKept(moves.of[k], k, arrived, excused, tab, store, queue, merge, sweep)
    BY <1>1 DEF AllMovesKept
  <2> QED BY <2>1, <1>3, <1>4 DEF MoveKept
<1>10. CapturedFirst'
  BY <1>1, <1>2, <1>3, <1>4, NothingIsEmpty DEF CapturedFirst
<1>11. AllInOnePlace'
  <2> SUFFICES ASSUME NEW c \in Clicks \ repeated
               PROVE  InOnePlace(c, arrived', store, queue, merge, sweep')
    BY <1>2 DEF AllInOnePlace
  <2>1. InOnePlace(c, arrived, store, queue, merge, sweep)
    BY <1>1 DEF AllInOnePlace
  <2>2. CASE c \in claim.clicks
    <3>1. \A x : IsAt(x, c, arrived, store, queue, merge, sweep) => x = <<"claim", p>>
      BY <2>1, <2>2, <1>3 DEF InOnePlace, IsAt
    <3>2. \A x : IsAt(x, c, arrived', store, queue, merge, sweep') => x = <<"server", None>>
      BY <3>1, <1>3, NothingIsEmpty DEF IsAt
    <3> QED BY <2>1, <3>2, OnePlaceMoves
  <2>3. CASE c \notin claim.clicks
    <3>1. \A x : IsAt(x, c, arrived', store, queue, merge, sweep')
              => IsAt(x, c, arrived, store, queue, merge, sweep)
      BY <2>3, <1>3, <1>4, NothingIsEmpty DEF IsAt
    <3> QED BY <2>1, <3>1, OnePlaceMoves
  <2> QED BY <2>2, <2>3
<1> QED
  BY <1>5, <1>6, <1>7, <1>8, <1>9, <1>10, <1>11 DEF Parts

\* The claim is to be merged again; a server that has it already has it twice.
LEMMA FailedStep ==
    ASSUME Parts, NEW p \in Pages, Failed(p)
    PROVE  Parts'
<1> DEFINE k == sweep[p].key
           claim == sweep[p].claim
           rec == [key |-> k, read |-> store[k], own |-> claim, then |-> "restore"]
<1>1. /\ TypeOK /\ TasksSound /\ MovesNumbered /\ CapturedFirst
      /\ AllClicksKept /\ AllMovesKept /\ AllInOnePlace
  BY DEF Parts
<1>2. /\ Waiting(p) /\ merge' = [merge EXCEPT ![p] = rec] /\ sweep' = Settled(p)
      /\ \/ UNCHANGED <<arrived, repeated>>
         \/ Stored(claim) /\ repeated' = repeated \union claim.clicks
      /\ UNCHANGED <<tab, queue, store, stale, captured, moves, closings, excused>>
  BY DEF Failed, RestoreClaimedSnapshot, history
<1>3. /\ merge[p] = NoMerge /\ Running(p) /\ claim \in Snapshot /\ k \in Keys
      /\ InFlight(sweep[p]) = claim /\ claim.clicks \subseteq captured
      /\ claim.move <= moves.of[k]
      /\ sweep' \in [Pages -> Sweep] /\ sweep'[p].phase = "rest"
      /\ sweep'[p].claim = Nothing /\ InFlight(sweep'[p]) = Nothing
      /\ \A r \in Pages \ {p} : sweep'[r] = sweep[r]
  BY <1>1, <1>2, WaitingEffect
<1>4. /\ rec \in Merge /\ rec.key = k /\ rec.own = claim /\ rec.read = store[k]
      /\ rec.then = "restore"
  BY <1>1, <1>3 DEF TypeOK, Merge
<1>5. /\ arrived' \in Events /\ repeated' \subseteq Clicks
      /\ repeated \subseteq repeated' /\ arrived.moves \subseteq arrived'.moves
      /\ arrived.clicks \subseteq arrived'.clicks
      /\ arrived'.clicks \subseteq arrived.clicks \union claim.clicks
      /\ \A c \in claim.clicks \ repeated' : arrived' = arrived
  <2>1. CASE UNCHANGED <<arrived, repeated>>
    BY <2>1, <1>1 DEF TypeOK
  <2>2. CASE Stored(claim) /\ repeated' = repeated \union claim.clicks
    BY <2>2, <1>1, <1>3, StoredAdds DEF TypeOK, Snapshot
  <2> QED BY <1>2, <2>1, <2>2
<1> HIDE DEF rec, k, claim
<1>6. /\ merge' \in [Pages -> Merge] /\ merge'[p] = rec
      /\ \A r \in Pages \ {p} : merge'[r] = merge[r]
  BY <1>1, <1>2, <1>4 DEF TypeOK
<1>7. TypeOK'
  BY <1>1, <1>2, <1>3, <1>5, <1>6 DEF TypeOK
<1>8. k # None
  BY <1>3, QueueAssumption
<1>9. TasksSound'
  BY <1>1, <1>2, <1>3, <1>4, <1>6, <1>8 DEF TasksSound, Running
<1>10. MovesNumbered'
  <2>1. store[k].move <= moves.of[k]
    BY <1>1, <1>3 DEF MovesNumbered
  <2> QED BY <1>1, <1>2, <1>3, <1>4, <1>6, <2>1 DEF MovesNumbered, Running
<1>11. AllClicksKept'
  <2> SUFFICES ASSUME NEW c \in captured
               PROVE  ClickKept(c, arrived', excused, store, queue, merge', sweep')
    BY <1>2 DEF AllClicksKept
  <2>1. ClickKept(c, arrived, excused, store, queue, merge, sweep)
    BY <1>1 DEF AllClicksKept
  <2> QED BY <2>1, <1>3, <1>4, <1>5, <1>6, NothingIsEmpty, RecordsOfNothing DEF ClickKept
<1>12. AllMovesKept'
  <2> SUFFICES ASSUME NEW l \in Keys, moves.of[l] # 0
               PROVE  MoveKept(moves.of[l], l, arrived', excused, tab, store, queue, merge',
                               sweep')
    BY <1>2 DEF AllMovesKept
  <2>1. MoveKept(moves.of[l], l, arrived, excused, tab, store, queue, merge, sweep)
    BY <1>1 DEF AllMovesKept
  <2>2. l # None
    BY QueueAssumption
  <2> QED BY <2>1, <2>2, <1>3, <1>4, <1>5, <1>6, NothingIsEmpty, RecordsOfNothing
          DEF MoveKept, k
<1>13. CapturedFirst'
  <2>1. store[k].clicks \subseteq captured
    BY <1>1, <1>3 DEF CapturedFirst
  <2> QED BY <1>1, <1>2, <1>3, <1>4, <1>5, <1>6, <2>1, NothingIsEmpty DEF CapturedFirst
<1>14. AllInOnePlace'
  <2> SUFFICES ASSUME NEW c \in Clicks \ repeated'
               PROVE  InOnePlace(c, arrived', store, queue, merge', sweep')
    BY <1>2 DEF AllInOnePlace
  <2>1. InOnePlace(c, arrived, store, queue, merge, sweep)
    BY <1>1, <1>5 DEF AllInOnePlace
  <2>2. CASE c \in claim.clicks
    <3>1. \A x : IsAt(x, c, arrived, store, queue, merge, sweep) => x = <<"claim", p>>
      BY <2>1, <2>2, <1>3 DEF InOnePlace, IsAt
    <3>2. arrived' = arrived
      BY <2>2, <1>5
    <3>3. \A x : IsAt(x, c, arrived', store, queue, merge', sweep') => x = <<"merge", p>>
      BY <3>1, <3>2, <1>3, <1>6, NothingIsEmpty DEF IsAt
    <3> QED BY <2>1, <3>3, OnePlaceMoves
  <2>3. CASE c \notin claim.clicks
    <3>1. \A x : IsAt(x, c, arrived', store, queue, merge', sweep')
              => IsAt(x, c, arrived, store, queue, merge, sweep)
      BY <2>3, <1>3, <1>4, <1>5, <1>6, NothingIsEmpty DEF IsAt
    <3> QED BY <2>1, <3>1, OnePlaceMoves
  <2> QED BY <2>2, <2>3
<1> QED
  BY <1>7, <1>9, <1>10, <1>11, <1>12, <1>13, <1>14 DEF Parts

-----------------------------------------------------------------------------
(* The specification.                                                      *)

LEMMA InitParts == Init => Parts
<1> SUFFICES ASSUME Init PROVE Parts
  OBVIOUS
<1>1. TypeOK
  BY QueueAssumption, NothingIsEmpty, RecordsOfNothing DEF Init, TypeOK, Events
<1>2. TasksSound
  BY RecordsOfNothing DEF Init, TasksSound, Running
<1>3. MovesNumbered
  BY RecordsOfNothing, NothingIsEmpty DEF Init, MovesNumbered, Running
<1>4. AllClicksKept /\ AllMovesKept
  BY DEF Init, AllClicksKept, AllMovesKept
<1>5. CapturedFirst
  <2>1. Idle.claim = Nothing
    BY DEF Idle
  <2> QED BY <2>1, RecordsOfNothing, NothingIsEmpty DEF Init, CapturedFirst
<1>6. AllInOnePlace
  <2>1. \A c, x : ~ IsAt(x, c, arrived, store, queue, merge, sweep)
    BY RecordsOfNothing, NothingIsEmpty DEF Init, IsAt
  <2> QED BY <2>1 DEF AllInOnePlace, InOnePlace
<1> QED
  BY <1>1, <1>2, <1>3, <1>4, <1>5, <1>6 DEF Parts

LEMMA NextParts == Parts /\ [Next]_vars => Parts'
<1> SUFFICES ASSUME Parts, [Next]_vars PROVE Parts'
  OBVIOUS
<1>1. ASSUME NEW p \in Pages, NEW c \in Clicks, Click(p, c) PROVE Parts'
  BY <1>1, ClickStep
<1>2. ASSUME NEW p \in Pages, CapturePassiveEvent(p) PROVE Parts'
  BY <1>2, MoveStep
<1>3. ASSUME NEW p \in Pages, Flush(p) \/ Hide(p) \/ Close(p) PROVE Parts'
  BY <1>3, QueueSteps
<1>4. ASSUME NEW p \in Pages, NEW k \in Keys, OpenPage(p, k) PROVE Parts'
  BY <1>4, OpenPageStep
<1>5. ASSUME NEW p \in Pages, Leave(p) \/ Crash(p) PROVE Parts'
  <2>1. Gone(p) /\ closings' \in 0 .. MaxClosings
    BY <1>5, QueueAssumption DEF Leave, Crash, Parts, TypeOK
  <2> QED BY <2>1, GoneStep
<1>6. ASSUME NEW k \in Keys, Age(k) PROVE Parts'
  BY <1>6, AgeStep
<1>7. ASSUME NEW p \in Pages, MergeWrite(p) \/ MergeFails(p) PROVE Parts'
  BY <1>7, MergeWriteStep, MergeFailsStep
<1>8. ASSUME NEW p \in Pages, StartSweep(p) PROVE Parts'
  BY <1>8, StartSweepStep
<1>9. ASSUME NEW p \in Pages, NEW k \in Keys, ClaimRead(p, k) PROVE Parts'
  BY <1>9, ClaimReadStep
<1>10. ASSUME NEW p \in Pages, ClaimRemove(p) PROVE Parts'
  BY <1>10, ClaimRemoveStep
<1>11. ASSUME NEW p \in Pages, Answer(p) PROVE Parts'
  BY <1>11, AcceptedStep, FailedStep DEF Answer
<1>12. CASE UNCHANGED vars
  BY <1>12 DEF Parts, vars, history, TypeOK, TasksSound, Running, MovesNumbered,
               AllClicksKept, AllMovesKept, CapturedFirst, AllInOnePlace
<1> QED
  BY <1>1, <1>2, <1>3, <1>4, <1>5, <1>6, <1>7, <1>8, <1>9, <1>10, <1>11, <1>12
     DEF Next, Visitor, Working

\* The inductive invariant of the queue: the parts of IInv hold together in every state
\* a step leads to, for any pages, tab ids, clicks and bounds, whatever is captured,
\* persisted, claimed, refused, restored, raced for or closed.
THEOREM QueueInvariant == Spec => []IInv
<1>1. Init => Parts
  BY InitParts
<1>2. Parts /\ [Next]_vars => Parts'
  BY NextParts
<1>3. Parts => IInv
  BY InvariantByParts
<1> QED
  BY <1>1, <1>2, <1>3, PTL DEF Spec

\* The state has its types in every state: a sweep has at most one claim, a merge one
\* snapshot it has read, and only what is stored ages.
THEOREM QueueTypeCorrect == Spec => []TypeOK
<1>1. IInv => TypeOK
  BY DEF IInv
<1> QED
  BY <1>1, QueueInvariant, PTL

\* No captured click is lost (flush, persistSnapshotToStorage, claimSnapshot,
\* restoreFlushSnapshot): in every state it is with the server, in a queue, in a merge,
\* in the storage or under way, or went with a page, a full storage or a race of two
\* pages for one snapshot.
THEOREM NothingEverLost == Spec => []NothingLost
<1>1. IInv => NothingLost
  BY DEF IInv
<1> QED
  BY <1>1, QueueInvariant, PTL

LEMMA HomeIsHeld == TypeOK /\ NewestMoveAtHome => NewestMoveKept
<1> SUFFICES ASSUME TypeOK, NewestMoveAtHome, NEW k \in Keys, moves.of[k] # 0
             PROVE  \/ moves.of[k] \in arrived.moves \union excused.moves
                    \/ \E s \in Held : s.move = moves.of[k]
  BY DEF NewestMoveKept
<1>1. HeldOf(k) \subseteq Held
  BY DEF HeldOf, Held, Alone
<1> QED
  BY <1>1 DEF NewestMoveAtHome

\* The newest move of every tab survives the merges of pickNewestEvent: no persisted
\* queue and no restored snapshot puts an older one in its place, but for what is excused.
THEOREM NewestMoveNeverLost == Spec => []NewestMoveKept
<1>1. IInv => TypeOK /\ NewestMoveAtHome
  BY DEF IInv
<1> QED
  BY <1>1, HomeIsHeld, QueueInvariant, PTL

\* A click is never in two places and so never sent twice (claimSnapshot removes what
\* it takes), unless an answer was lost or two pages raced for one snapshot.
THEOREM ClicksSentOnce == Spec => []SentOnce
<1>1. IInv => SentOnce
  BY DEF IInv
<1> QED
  BY <1>1, QueueInvariant, PTL

=============================================================================
