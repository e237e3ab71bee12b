-------------------------- MODULE MCAnalyticsQueue --------------------------
(* Small instances of the queue of captured events.                        *)
EXTENDS AnalyticsQueue, TLC

\* Pages, and clicks of one kind, are interchangeable.
Interchangeable == Permutations(Pages) \union Permutations(Keys) \union Permutations(Clicks \ Refused)
=============================================================================
