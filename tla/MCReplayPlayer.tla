--------------------------- MODULE MCReplayPlayer ---------------------------
(***************************************************************************)
(* Small recordings for TLC: two tabs with a snapshot each, events of the  *)
(* same time on both sides of the end of an answer, a URL that changes,    *)
(* and an event that takes most of an answer.                              *)
(***************************************************************************)
EXTENDS ReplayPlayer

Event(id, at, tab, kind, url, size) ==
    [id |-> id, at |-> at, tab |-> tab, kind |-> kind, url |-> url, size |-> size]

\* A tab opened from another, used in turns.
TwoTabs ==
    {Event(1, 0, "a", "meta", "u", 1), Event(2, 0, "a", "snapshot", None, 2),
     Event(3, 1, "a", "activity", None, 1), Event(4, 1, "b", "meta", "v", 1),
     Event(5, 2, "b", "snapshot", None, 2), Event(6, 2, "b", "activity", None, 1),
     Event(7, 3, "a", "meta", "w", 1), Event(8, 3, "a", "activity", None, 1)}

\* Recorded out of order: the first tab is used only after the second has
\* been opened, and both in one millisecond, between which an answer may end.
OutOfOrder ==
    {Event(1, 0, "a", "meta", "u", 1), Event(3, 0, "a", "snapshot", None, 1),
     Event(2, 1, "b", "meta", None, 1), Event(5, 1, "b", "snapshot", None, 1),
     Event(4, 3, "a", "activity", None, 1), Event(6, 3, "b", "activity", None, 3)}

MCRecordings == {TwoTabs, OutOfOrder}
=============================================================================
