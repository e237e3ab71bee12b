--------------------------- MODULE VisitRetention ---------------------------
(***************************************************************************)
(* The retention job beside the resolver.                                  *)
(*                                                                         *)
(* apps/tracker/visits_retention.py deletes the visits that started before *)
(* a cutoff, batch after batch: it reads a batch of ids outside any        *)
(* transaction, then deletes those rows, and the visitors left without a   *)
(* visit, in one transaction.  It takes no visitor lock, so ingestion goes *)
(* on between and inside its batches; row locks are all that orders them.  *)
(* The ORM deletes a visitor in steps of its own: it reads the visitors,   *)
(* then the visits that go with them, then deletes both.                   *)
(***************************************************************************)
EXTENDS VisitSessions

CONSTANTS
    PruneBatchSize,   \* rows deleted in one transaction
    Cutoffs           \* now - retention_days, when a job starts

ASSUME RetentionAssumption ==
    /\ PruneBatchSize \in Nat \ {0}
    /\ Cutoffs \subseteq Nat

VARIABLES
    cutoff,        \* start times before it are expired, for the current job
    prune,         \* the job's batch: its phase and the ids it read and collected
    unseen         \* history: visits committed since it looked for orphans

pruneVars == <<cutoff, prune>>
allVars == <<visits, visitor, work, batch, cutoff, prune, unseen>>

PrunePhases == {"idle", "started", "read", "orphaned", "collected"}
NotPruning == [phase |-> "idle", ids |-> {}, collected |-> {}]
NextBatch == [phase |-> "started", ids |-> {}, collected |-> {}]

RetentionTypeOK ==
    /\ TypeOK
    /\ cutoff \in Nat
    /\ prune \in [phase: PrunePhases, ids: SUBSET VisitIds, collected: SUBSET VisitIds]
    /\ unseen \subseteq VisitIds

RetentionInit ==
    /\ Init
    /\ cutoff = 0
    /\ prune = NotPruning
    /\ unseen = {}

Expired == {v \in Rows(visits) : visits[v].start < cutoff}

Without(ids) == [v \in VisitIds |-> IF v \in ids THEN Absent ELSE visits[v]]

\* The daily job starts; the cutoff moves on with the clock.
PruneStart ==
    /\ prune.phase = "idle"
    /\ \E c \in Cutoffs :
        /\ c >= cutoff
        /\ cutoff' = c
    /\ prune' = NextBatch
    /\ unseen' = {}
    /\ UNCHANGED vars

\* The ids of the next batch, in the order of random primary keys.
PruneRead ==
    /\ prune.phase = "started"
    /\ \E ids \in SUBSET Expired :
        /\ Cardinality(ids) = Lesser(PruneBatchSize, Cardinality(Expired))
        /\ prune' = IF ids = {} THEN NotPruning
                    ELSE [NextBatch EXCEPT !.phase = "read", !.ids = ids]
    /\ UNCHANGED <<vars, cutoff, unseen>>

\* The transaction of the batch deletes the rows, waiting for those the resolver
\* has locked, and asks which visitors have no visit left.  None: it commits.
PruneDelete ==
    /\ prune.phase = "read"
    /\ prune.ids \intersect Rows(work) = {}
    /\ IF Rows(visits) \subseteq prune.ids
       THEN /\ prune' = [prune EXCEPT !.phase = "orphaned"]
            /\ UNCHANGED vars
       ELSE /\ visits' = Without(prune.ids)
            /\ prune' = NextBatch
            /\ UNCHANGED <<visitor, work, batch>>
    /\ UNCHANGED <<cutoff, unseen>>

\* The deletion of that visitor takes what refers to it along: a second query
\* collects its visits, and so also one that was committed since the first.
PruneCollect ==
    /\ prune.phase = "orphaned"
    /\ prune' = [prune EXCEPT !.phase = "collected", !.collected = Rows(visits) \ prune.ids]
    /\ UNCHANGED <<vars, cutoff, unseen>>

\* Mutant of PruneOrphan: the visitor goes whatever was added meanwhile.
PruneOrphanUnchecked ==
    /\ prune.phase = "collected"
    /\ batch.phase = "idle"
    /\ visits' = Without(prune.ids \union prune.collected)
    /\ visitor' = Absent
    /\ prune' = NextBatch
    /\ unseen' = {}
    /\ UNCHANGED <<work, batch, cutoff>>

\* Mutant of PruneOrphan: the foreign key cascades in the database.
PruneOrphanCascading ==
    /\ prune.phase = "collected"
    /\ batch.phase = "idle"
    /\ visits' = NoRows
    /\ visitor' = Absent
    /\ prune' = NextBatch
    /\ unseen' = {}
    /\ UNCHANGED <<work, batch, cutoff>>

\* The visitor lock is free: the collected visits and the visitor are deleted.
\* A visit committed since they were collected makes the foreign key refuse the
\* deletion: the transaction is rolled back and the job ends with the error.
PruneOrphan ==
    /\ prune.phase = "collected"
    /\ batch.phase = "idle"
    /\ LET doomed == prune.ids \union prune.collected
       IN  IF Rows(visits) \subseteq doomed
           THEN /\ visits' = Without(doomed)
                /\ visitor' = Absent
                /\ prune' = NextBatch
           ELSE /\ prune' = NotPruning
                /\ UNCHANGED <<visits, visitor>>
    /\ unseen' = {}
    /\ UNCHANGED <<work, batch, cutoff>>

\* A killed worker, or a deadlock the database resolves against the job.
PruneAbort ==
    /\ prune.phase # "idle"
    /\ prune' = NotPruning
    /\ unseen' = {}
    /\ UNCHANGED <<vars, cutoff>>

Prune ==
    PruneStart \/ PruneRead \/ PruneDelete \/ PruneCollect \/ PruneOrphan \/ PruneAbort

\* The resolver's steps.  A batch that needs a row whose deletion is not yet
\* committed waits for it (the job then waits for the batch's visitor: one of
\* them is the victim of the deadlock); one that needs none goes on.
Ingest ==
    /\ Next
    /\ prune.phase \in {"orphaned", "collected"} => prune.ids \intersect Rows(work)' = {}
    /\ unseen' = IF prune.phase = "orphaned"
                 THEN unseen \union (Rows(visits)' \ Rows(visits))
                 ELSE unseen
    /\ UNCHANGED pruneVars

RetentionNext == Prune \/ Ingest

RetentionSpec == RetentionInit /\ [][RetentionNext]_allVars

-----------------------------------------------------------------------------
(* Properties.                                                             *)

\* A visit is deleted only if it started before the cutoff: the ids were read
\* earlier, but a start never moves forward.  The one moment at which a visit
\* that is not expired can go is the one between the job's query for visitors
\* without visits and its query for what goes with them; a visit committed
\* before or after it stays.
DeletesOnlyExpired ==
    [][\A v \in Rows(visits) \ Rows(visits)' :
          visits[v].start < cutoff \/ v \in unseen]_allVars

\* No visit is left without its visitor, and the span recorded for the visitor
\* covers every visit it still has: also after a batch was rolled back, after a
\* start was moved back, and after the job deleted some of the visits.
VisitorSpansVisits ==
    \A v \in Rows(visits) :
        /\ visitor # Absent
        /\ visitor.first <= visits[v].start
        /\ visits[v].last <= visitor.last

=============================================================================
