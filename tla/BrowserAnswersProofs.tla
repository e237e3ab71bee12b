----------------------- MODULE BrowserAnswersProofs -----------------------
(***************************************************************************)
(* Proofs about what the server answers a browser over many requests.      *)
(*                                                                         *)
(* A filtered variant (FilteredOverview): its row is truthful, it is       *)
(* stored only while current, and the answers are those of the abstract    *)
(* service, for any number of requests, tasks, edits, rebuilds, saves of   *)
(* the whole project, days and failures.                                   *)
(*                                                                         *)
(* A replay (ReplayStream, ReplayPlayer): what the player holds is the     *)
(* recording as it was opened, from its start or from a snapshot, without  *)
(* a gap; it shows the tab that was in use; and it plays only when it is   *)
(* meant to and ends every seek where it was to lead, for any recordings,  *)
(* chunk sizes and limits.                                                 *)
(***************************************************************************)
EXTENDS FilteredOverview, ReplayPlayer, FiniteSetTheorems, FunctionTheorems,
        SequenceTheorems, WellFoundedInduction, TLAPS

-----------------------------------------------------------------------------
(* Filtered overviews: the inductive invariant.                            *)

LEMMA InitEstablishes == OverviewInit => IInv
<1> SUFFICES ASSUME OverviewInit PROVE IInv
  OBVIOUS
<1>1. NoTask \in Task /\ NoRequest \in Request
  BY DEF NoTask, Task, TaskPhases, NoRequest, Request
<1>2. OverviewTypeOK
  <2>1. Pending \in [page: SUBSET Nat, table: SUBSET Nat]
    BY DEF Pending
  <2>2. project \in Revisions /\ given \subseteq Version
    BY DEF OverviewInit, Revisions, Version, Stands
  <2>3. answer \in [Requests -> [page: SUBSET Nat, table: SUBSET Nat]]
    BY <2>1 DEF OverviewInit
  <2> QED BY <1>1, <2>2, <2>3 DEF OverviewInit, OverviewTypeOK
<1>3. GivenSound /\ RevisionsCount /\ RowTruthful /\ RowSound
  BY DEF OverviewInit, GivenSound, RevisionsCount, RowTruthful, RowSound, Stands
<1>4. \A k \in Tasks : BuildSound(k)
  BY DEF OverviewInit, BuildSound, NoTask
<1>5. \A r \in Requests : RequestSound(r)
  BY DEF OverviewInit, RequestSound, NoRequest
<1> QED BY <1>2, <1>3, <1>4, <1>5 DEF IInv

-----------------------------------------------------------------------------
(* Type correctness.                                                       *)

LEMMA BuiltIsRow ==
    ASSUME NEW k \in Tasks, task[k] \in Task
    PROVE  Built(k) \in Row
BY DEF Built, Row, Task

LEMMA ServeKeepsTypes ==
    ASSUME OverviewTypeOK, NEW r \in Requests, Serve(r)
    PROVE  OverviewTypeOK'
<1>0. Pending \in [page: SUBSET Nat, table: SUBSET Nat]
  BY DEF Pending
<1>1. CASE Ask(r)
  <2>1. request' \in [Requests -> Request]
    <3>1. [phase |-> "asked", filtered |-> project.filtered, facts |-> project.facts,
           version |-> attributes, page |-> {}] \in Request
      BY DEF OverviewTypeOK, Request, Revisions
    <3> QED BY <1>1, <3>1 DEF Ask, OverviewTypeOK
  <2> QED BY <1>0, <1>1, <2>1 DEF Ask, OverviewTypeOK, renameVars
<1>2. ASSUME NEW endpoint \in Endpoints, Look(r, endpoint)
      PROVE  OverviewTypeOK'
  <2>1. /\ task' \in [Tasks -> Task] /\ claimed' \in BOOLEAN /\ failures' \in Nat
    <3>1. [NoTask EXCEPT !.phase = "queued"] \in Task
      BY DEF NoTask, Task, TaskPhases
    <3>2. CASE UNCHANGED <<task, claimed, failures>>
      BY <3>2 DEF OverviewTypeOK
    <3>3. CASE QueueRebuild
      <4>1. claimed' \in BOOLEAN
        BY <3>3 DEF QueueRebuild, OverviewTypeOK
      <4>2. failures' \in Nat
        BY <3>3 DEF QueueRebuild, OverviewTypeOK
      <4>3. task' \in [Tasks -> Task]
        BY <3>1, <3>3 DEF QueueRebuild, OverviewTypeOK
      <4> QED BY <4>1, <4>2, <4>3
    <3> QED BY <1>2, <3>2, <3>3 DEF Look
  <2>2. row # NoRow => row.cohort \in SUBSET Nat
    BY DEF OverviewTypeOK, Row
  <2> DEFINE shown == IF Usable(request[r]) /\ endpoint # "table" THEN row.cohort ELSE {}
  <2>3. shown \in SUBSET Nat
    BY <2>2 DEF Usable
  <2>4. \/ /\ request' = [request EXCEPT ![r].phase = "gated", ![r].page = shown]
           /\ answer' = answer
        \/ /\ request' = [request EXCEPT ![r] = NoRequest]
           /\ answer' = [answer EXCEPT ![r] = [page |-> shown, table |-> {}]]
    BY <1>2 DEF Look
  <2> HIDE DEF shown
  <2>5. answer' \in [Requests -> [page: SUBSET Nat, table: SUBSET Nat]]
    <3>1. [page |-> shown, table |-> {}] \in [page: SUBSET Nat, table: SUBSET Nat]
      BY <2>3
    <3> QED BY <2>4, <3>1 DEF OverviewTypeOK
  <2>6. request' \in [Requests -> Request]
    <3>1. [request[r] EXCEPT !.phase = "gated", !.page = shown] \in Request
      <4>1. request[r] \in Request
        BY DEF OverviewTypeOK
      <4> QED BY <2>3, <4>1 DEF Request
    <3>2. NoRequest \in Request
      BY DEF Request, NoRequest
    <3> QED BY <2>4, <3>1, <3>2 DEF OverviewTypeOK
  <2> QED BY <1>2, <2>1, <2>5, <2>6 DEF Look, OverviewTypeOK, renameVars
<1>3. CASE Render(r)
  <2>1. row # NoRow => row.cohort \in SUBSET Nat
    BY DEF OverviewTypeOK, Row
  <2>2. request[r].page \in SUBSET Nat
    BY DEF OverviewTypeOK, Request
  <2>3. NoRequest \in Request
    BY DEF Request, NoRequest
  <2> QED BY <1>3, <2>1, <2>2, <2>3 DEF Render, OverviewTypeOK, renameVars
<1> QED BY <1>1, <1>2, <1>3 DEF Serve

LEMMA BuildKeepsTypes ==
    ASSUME OverviewTypeOK, NEW k \in Tasks, Build(k) \/ LoseTask(k)
    PROVE  OverviewTypeOK'
<1>0. NoTask \in Task
  BY DEF NoTask, Task, TaskPhases
<1>1. CASE StartBuild(k)
  BY <1>0, <1>1 DEF StartBuild, OverviewTypeOK, Task, TaskPhases, NoTask, Revisions,
                   renameVars
<1>2. CASE KeepRow(k)
  BY <1>0, <1>2 DEF KeepRow, OverviewTypeOK, renameVars
<1>3. CASE RetryOrDrop(k)
  <2>1. task[k] \in Task
    BY DEF OverviewTypeOK
  <2>2. [task[k] EXCEPT !.tries = task[k].tries + 1] \in Task
    BY <2>1 DEF Task
  <2>3. task' \in [Tasks -> Task]
    BY <1>0, <1>3, <2>2 DEF RetryOrDrop, OverviewTypeOK
  <2> QED BY <1>3, <2>3 DEF RetryOrDrop, OverviewTypeOK, renameVars
<1>4. CASE ReadValues(k)
  <2>1. task[k] \in Task /\ attributes \in Nat
    BY DEF OverviewTypeOK
  <2>2. [task[k] EXCEPT !.phase = "cohort", !.cohort = task[k].cohort \union {attributes}]
        \in Task
    BY <2>1 DEF Task, TaskPhases
  <2>3. task' \in [Tasks -> Task]
    BY <1>4, <2>2 DEF ReadValues, OverviewTypeOK
  <2> QED BY <1>4, <2>3 DEF ReadValues, OverviewTypeOK, renameVars
<1>5. CASE ReadFacts(k)
  <2>1. [task[k] EXCEPT !.phase = "payload", !.day = today, !.data = data] \in Task
    <3>1. task[k] \in Task /\ today \in Nat /\ data \in Nat
      BY DEF OverviewTypeOK
    <3> QED BY <3>1 DEF Task, TaskPhases
  <2> QED BY <1>5, <2>1 DEF ReadFacts, OverviewTypeOK, renameVars
<1>6. CASE Publish(k)
  <2>1. Built(k) \in Row
    BY BuiltIsRow DEF OverviewTypeOK
  <2> QED BY <1>0, <1>6, <2>1 DEF Publish, Reachable, OverviewTypeOK, renameVars
<1>7. CASE LoseTask(k)
  BY <1>0, <1>7 DEF LoseTask, OverviewTypeOK, renameVars
<1> QED BY <1>1, <1>2, <1>3, <1>4, <1>5, <1>6, <1>7 DEF Build

LEMMA StepKeepsTypes ==
    ASSUME OverviewTypeOK, [OverviewNext]_overviewVars
    PROVE  OverviewTypeOK'
<1>1. ASSUME NEW r \in Requests, Serve(r)
      PROVE  OverviewTypeOK'
  BY <1>1, ServeKeepsTypes
<1>2. ASSUME NEW k \in Tasks, Build(k) \/ LoseTask(k)
      PROVE  OverviewTypeOK'
  BY <1>2, BuildKeepsTypes
<1>3. CASE ClaimExpires
  BY <1>3 DEF ClaimExpires, OverviewTypeOK, renameVars
<1>4. CASE Save
  BY <1>4 DEF Save, OverviewTypeOK, Revisions, Version, Stands
<1>5. CASE DeleteVariants \/ LoseDeletion
  BY <1>5 DEF DeleteVariants, LoseDeletion, OverviewTypeOK, renameVars
<1>6. ASSUME NEW kind \in {"rebuild", "aggregate"}, StartRebuild(kind)
      PROVE  OverviewTypeOK'
  BY <1>6 DEF StartRebuild, OverviewTypeOK, renameVars
<1>7. CASE CommitRebuild \/ AbortRebuild
  <2>1. CASE CommitRebuild
    BY <2>1 DEF CommitRebuild, BothRevisions, Reachable, OverviewTypeOK, Revisions, Version,
                Stands
  <2>2. CASE AbortRebuild
    BY <2>2 DEF AbortRebuild, OverviewTypeOK, renameVars
  <2> QED BY <1>7, <2>1, <2>2
<1>11. ASSUME NEW n \in Renames, LoadProject(n) \/ FullSave(n)
       PROVE  OverviewTypeOK'
  <2>1. CASE LoadProject(n)
    BY <2>1 DEF LoadProject, OverviewTypeOK
  <2>2. CASE FullSave(n)
    <3>1. project' \in Revisions
      BY <2>2 DEF FullSave, OverviewTypeOK
    <3>2. given' \subseteq Version
      BY <2>2, <3>1 DEF FullSave, OverviewTypeOK, Revisions, Version, Stands
    <3>3. lowered' \in BOOLEAN
      BY <2>2 DEF FullSave, OverviewTypeOK
    <3>4. rename' \in [Renames -> Revisions \union {NotLoaded}]
      BY <2>2 DEF FullSave, OverviewTypeOK
    <3> QED BY <2>2, <3>1, <3>2, <3>3, <3>4 DEF FullSave, OverviewTypeOK
  <2> QED BY <1>11, <2>1, <2>2
<1>8. CASE RowStales
  BY <1>8 DEF RowStales, OverviewTypeOK, Row, renameVars
<1>9. CASE NextDay
  BY <1>9 DEF NextDay, OverviewTypeOK, renameVars
<1>10. CASE UNCHANGED overviewVars
  BY <1>10 DEF overviewVars, OverviewTypeOK
<1> QED BY <1>1, <1>2, <1>3, <1>4, <1>5, <1>6, <1>7, <1>8, <1>9, <1>10, <1>11
    DEF OverviewNext

-----------------------------------------------------------------------------
(* What the steps leave alone.                                             *)

\* A request changes no row, no revision and no lock, and no task past "queued".
LEMMA ServeLeaves ==
    ASSUME OverviewTypeOK, NEW r \in Requests, Serve(r)
    PROVE  /\ UNCHANGED <<project, attributes, data, row, lock, given, lowered>>
           /\ \A k \in Tasks : task'[k] = task[k] \/ task'[k].phase = "queued"
           /\ \A q \in Requests \ {r} : request'[q] = request[q]
           /\ \A q \in Requests \ {r} : answer'[q] = answer[q]
<1>1. CASE Ask(r)
  BY <1>1 DEF Ask, OverviewTypeOK, renameVars
<1>2. ASSUME NEW endpoint \in Endpoints, Look(r, endpoint)
      PROVE  /\ UNCHANGED <<project, attributes, data, row, lock, given, lowered>>
             /\ \A k \in Tasks : task'[k] = task[k] \/ task'[k].phase = "queued"
             /\ \A q \in Requests \ {r} : request'[q] = request[q]
             /\ \A q \in Requests \ {r} : answer'[q] = answer[q]
  <2>1. \A k \in Tasks : task'[k] = task[k] \/ task'[k].phase = "queued"
    <3>1. [NoTask EXCEPT !.phase = "queued"].phase = "queued"
      BY DEF NoTask
    <3>2. CASE UNCHANGED <<task, claimed, failures>>
      BY <3>2
    <3>3. CASE QueueRebuild
      BY <3>1, <3>3 DEF QueueRebuild, OverviewTypeOK
    <3> QED BY <1>2, <3>2, <3>3 DEF Look
  <2> QED BY <1>2, <2>1 DEF Look, OverviewTypeOK, renameVars
<1>3. CASE Render(r)
  BY <1>3 DEF Render, OverviewTypeOK, renameVars
<1> QED BY <1>1, <1>2, <1>3 DEF Serve

\* The steps of a task leave the other tasks, the writers' state and the requests.
LEMMA BuildLeaves ==
    ASSUME OverviewTypeOK, NEW k \in Tasks, Build(k) \/ LoseTask(k)
    PROVE  /\ UNCHANGED <<project, attributes, data, request, answer, given, lowered>>
           /\ \A j \in Tasks \ {k} : task'[j] = task[j]
           /\ ~Publish(k) => row' = row
BY DEF Build, StartBuild, KeepRow, RetryOrDrop, ReadValues, ReadFacts, Publish,
       LoseTask, OverviewTypeOK, renameVars

\* Everything but a request's step and a task's step leaves both alone.
Elsewhere ==
    \/ ClaimExpires \/ Save \/ DeleteVariants \/ LoseDeletion
    \/ \E kind \in {"rebuild", "aggregate"} : StartRebuild(kind)
    \/ CommitRebuild \/ AbortRebuild \/ RowStales \/ NextDay
    \/ \E n \in Renames : LoadProject(n) \/ FullSave(n)
    \/ UNCHANGED overviewVars

LEMMA StepSplits ==
    ASSUME [OverviewNext]_overviewVars
    PROVE  \/ \E r \in Requests : Serve(r)
           \/ \E k \in Tasks : Build(k) \/ LoseTask(k)
           \/ Elsewhere
BY DEF OverviewNext, Elsewhere

LEMMA ElsewhereLeaves ==
    ASSUME Elsewhere
    PROVE  UNCHANGED <<task, request, answer>>
BY DEF Elsewhere, ClaimExpires, Save, DeleteVariants, LoseDeletion, StartRebuild,
       CommitRebuild, AbortRebuild, RowStales, NextDay, LoadProject, FullSave, overviewVars

\* Edits, rebuilds and saves of the whole project apart, the revisions and what they
\* stand for are left alone.
LEMMA ElsewhereCounts ==
    ASSUME Elsewhere, ~Save, ~CommitRebuild, \A n \in Renames : ~FullSave(n)
    PROVE  UNCHANGED <<project, attributes, data, given, lowered>>
BY DEF Elsewhere, ClaimExpires, DeleteVariants, LoseDeletion, StartRebuild,
       AbortRebuild, RowStales, NextDay, LoadProject, overviewVars, renameVars

\* No step of the others stores a row; one of them flags it.
LEMMA ElsewhereRows ==
    ASSUME Elsewhere
    PROVE  row' = row \/ row' = NoRow \/ RowStales
BY DEF Elsewhere, ClaimExpires, Save, DeleteVariants, LoseDeletion, StartRebuild,
       CommitRebuild, AbortRebuild, NextDay, LoadProject, FullSave, overviewVars, Reachable

-----------------------------------------------------------------------------
(* The inductive invariant: what the revisions stand for.                  *)

\* One step further: values and facts go on by one at the most, what is current is
\* given, and the revisions count along unless a save writes back others.
Onward ==
    /\ attributes' = attributes \/ attributes' = attributes + 1
    /\ data' = data \/ data' = data + 1
    /\ given' = given \union {Stands(project', attributes', data')}
    /\ lowered' = FALSE =>
          /\ lowered = FALSE
          /\ project'.facts - project.facts = data' - data
          /\ project'.filtered - project.filtered = (attributes' - attributes) + (data' - data)

LEMMA Numbers ==
    ASSUME OverviewTypeOK
    PROVE  /\ project.filtered \in Nat /\ project.facts \in Nat
           /\ project = [filtered |-> project.filtered, facts |-> project.facts]
           /\ attributes \in Nat /\ data \in Nat
           /\ lowered \in BOOLEAN
           /\ \A v \in given : /\ v.filtered \in Nat /\ v.attributes \in Nat /\ v.data \in Nat
                               /\ v = [filtered |-> v.filtered, attributes |-> v.attributes,
                                       data |-> v.data]
BY DEF OverviewTypeOK, Revisions, Version

LEMMA StepOnward ==
    ASSUME IInv, [OverviewNext]_overviewVars
    PROVE  Onward
<1>0. OverviewTypeOK /\ Stands(project, attributes, data) \in given
  BY DEF IInv, GivenSound
<1>1. CASE Save
  <2>1. /\ project'.filtered = project.filtered + 1 /\ project'.facts = project.facts
        /\ attributes' = attributes + 1 /\ data' = data /\ lowered' = lowered
        /\ given' = given \union {Stands(project', attributes', data)}
    BY <1>0, <1>1, Numbers DEF Save
  <2> QED BY <1>0, <2>1, Numbers DEF Onward
<1>2. CASE CommitRebuild
  <2>1. /\ project'.filtered = project.filtered + 1 /\ project'.facts = project.facts + 1
        /\ attributes' = attributes /\ data' = data + 1 /\ lowered' = lowered
        /\ given' = given \union {Stands(project', attributes', data')}
    BY <1>0, <1>2, Numbers DEF CommitRebuild, BothRevisions
  <2> QED BY <1>0, <2>1, Numbers DEF Onward
<1>3. ASSUME NEW n \in Renames, FullSave(n)
      PROVE  Onward
  <2>1. /\ attributes' = attributes /\ data' = data
        /\ given' = given \union {Stands(project', attributes', data')}
        /\ lowered' = (lowered \/ project' # project)
    BY <1>3 DEF FullSave
  <2>2. ~lowered' => ~lowered /\ project' = project
    BY <2>1
  <2> QED BY <1>0, <2>1, <2>2, Numbers DEF Onward
<1>4. CASE UNCHANGED <<project, attributes, data, given, lowered>>
  BY <1>0, <1>4, Numbers DEF Onward
<1> QED BY <1>0, <1>1, <1>2, <1>3, <1>4, StepSplits, ServeLeaves, BuildLeaves, ElsewhereCounts

LEMMA OnwardKeepsGiven ==
    ASSUME OverviewTypeOK, OverviewTypeOK', GivenSound, RevisionsCount, Onward
    PROVE  GivenSound' /\ RevisionsCount'
<1> DEFINE now == Stands(project', attributes', data')
<1>0. /\ attributes \in Nat /\ data \in Nat /\ attributes' \in Nat /\ data' \in Nat
      /\ project.filtered \in Nat /\ project.facts \in Nat
      /\ project'.filtered \in Nat /\ project'.facts \in Nat
      /\ attributes <= attributes' /\ data <= data'
      /\ lowered \in BOOLEAN /\ lowered' \in BOOLEAN
  BY Numbers DEF Onward, OverviewTypeOK, Revisions
<1>1. now.filtered = project'.filtered /\ now.attributes = attributes' /\ now.data = data'
  BY DEF Stands
<1>2. \A v \in given : /\ v.attributes \in Nat /\ v.data \in Nat
                       /\ v.attributes <= attributes /\ v.data <= data
  BY Numbers DEF GivenSound
<1>3. given' = given \union {now}
  BY DEF Onward
<1> HIDE DEF now
<1>4. \A v \in given' : v.attributes <= attributes' /\ v.data <= data'
  BY <1>0, <1>1, <1>2, <1>3
<1>5. \A v, w \in given' : \/ v.attributes <= w.attributes /\ v.data <= w.data
                           \/ w.attributes <= v.attributes /\ w.data <= v.data
  BY <1>0, <1>1, <1>2, <1>3 DEF GivenSound
<1>6. GivenSound'
  BY <1>3, <1>4, <1>5 DEF GivenSound, now
<1>7. RevisionsCount'
  <2> SUFFICES ASSUME lowered' = FALSE
               PROVE  /\ project'.facts = data'
                      /\ \A v \in given' : v.filtered = v.attributes + v.data
    BY <1>0 DEF RevisionsCount
  <2>1. /\ lowered = FALSE
        /\ project'.facts - project.facts = data' - data
        /\ project'.filtered - project.filtered = (attributes' - attributes) + (data' - data)
    BY DEF Onward
  <2>2. project.facts = data /\ \A v \in given : v.filtered = v.attributes + v.data
    BY <2>1 DEF RevisionsCount
  <2>3. project.filtered = attributes + data
    BY <2>2 DEF GivenSound, Stands
  <2>4. project'.facts = data' /\ now.filtered = now.attributes + now.data
    BY <1>0, <1>1, <2>1, <2>2, <2>3
  <2> QED BY <1>3, <2>2, <2>4
<1> QED BY <1>6, <1>7

\* As long as no save has taken them back, each revision is given once.
LEMMA GivenOnce ==
    ASSUME OverviewTypeOK, GivenSound, RevisionsCount, ~lowered,
           NEW v \in given, NEW w \in given, v.filtered = w.filtered
    PROVE  v = w
<1>1. v.filtered = v.attributes + v.data /\ w.filtered = w.attributes + w.data
  BY DEF RevisionsCount
<1>2. /\ v.attributes \in Nat /\ v.data \in Nat /\ w.attributes \in Nat /\ w.data \in Nat
      /\ v = [filtered |-> v.filtered, attributes |-> v.attributes, data |-> v.data]
      /\ w = [filtered |-> w.filtered, attributes |-> w.attributes, data |-> w.data]
  BY Numbers
<1>3. v.attributes = w.attributes /\ v.data = w.data
  BY <1>1, <1>2 DEF GivenSound
<1> QED BY <1>2, <1>3

\* So a revision with one meaning has only that of any version it is given with.
LEMMA OneMeaning ==
    ASSUME OverviewTypeOK, GivenSound, RevisionsCount, NEW v \in given, Reliable(v.filtered)
    PROVE  Versions(v.filtered) = {v}
<1>1. v \in Versions(v.filtered)
  BY DEF Versions
<1>2. CASE lowered
  <2>1. PICK w \in given : Versions(v.filtered) = {w}
    BY <1>2 DEF Reliable
  <2> QED BY <1>1, <2>1
<1>3. CASE ~lowered
  <2>1. \A w \in Versions(v.filtered) : w = v
    BY <1>3, GivenOnce DEF Versions
  <2> QED BY <1>1, <2>1
<1> QED BY <1>2, <1>3

-----------------------------------------------------------------------------
(* The inductive invariant: builds.                                        *)

\* The steps of k's own build.
LEMMA OwnStepKeepsBuild ==
    ASSUME IInv, NEW k \in Tasks, Build(k) \/ LoseTask(k)
    PROVE  BuildSound(k)'
<1>0. OverviewTypeOK /\ GivenSound /\ RevisionsCount /\ BuildSound(k)
  BY DEF IInv
<1>1. CASE StartBuild(k)
  <2>1. /\ task'[k].phase = "revisions" /\ task'[k].cohort = {}
        /\ task'[k].filtered = project.filtered /\ task'[k].facts = project.facts
    BY <1>0, <1>1 DEF StartBuild, NoTask, OverviewTypeOK
  <2>2. /\ lock' = k /\ data' = data /\ attributes' = attributes
        /\ given' = given /\ lowered' = lowered
    BY <1>1 DEF StartBuild, renameVars
  <2>3. \E v \in given : v.filtered = task'[k].filtered /\ v.data = data
    BY <1>0, <2>1 DEF GivenSound, Stands
  <2>4. ~lowered => task'[k].facts = data
    BY <1>0, <2>1 DEF RevisionsCount
  <2> QED BY <2>1, <2>2, <2>3, <2>4 DEF BuildSound
<1>2. CASE KeepRow(k) \/ Publish(k) \/ LoseTask(k)
  <2>1. task'[k].phase = "none"
    BY <1>0, <1>2 DEF KeepRow, Publish, LoseTask, NoTask, OverviewTypeOK
  <2> QED BY <2>1 DEF BuildSound
<1>3. CASE RetryOrDrop(k)
  <2>1. task'[k].phase \in {"queued", "none"}
    BY <1>0, <1>3 DEF RetryOrDrop, NoTask, OverviewTypeOK, Task
  <2> QED BY <2>1 DEF BuildSound
<1>4. CASE ReadValues(k)
  <2>1. /\ task'[k].phase = "cohort" /\ task'[k].filtered = task[k].filtered
        /\ task'[k].facts = task[k].facts
        /\ task'[k].cohort = task[k].cohort \union {attributes}
    BY <1>0, <1>4 DEF ReadValues, OverviewTypeOK, Task
  <2>2. /\ lock' = lock /\ data' = data /\ attributes' = attributes
        /\ given' = given /\ lowered' = lowered
    BY <1>4 DEF ReadValues, renameVars
  <2>3. task[k].phase \in {"revisions", "cohort", "payload"}
    BY <1>4 DEF ReadValues
  <2>4. PICK v \in given : /\ v.filtered = task[k].filtered /\ v.data = data
                           /\ \A c \in task[k].cohort : v.attributes <= c /\ c <= attributes
    BY <1>0, <2>3 DEF BuildSound
  <2>5. v.attributes <= attributes /\ attributes <= attributes
    BY <1>0, Numbers DEF GivenSound
  <2>6. \A c \in task'[k].cohort : v.attributes <= c /\ c <= attributes
    BY <2>1, <2>4, <2>5
  <2>7. lock = k /\ (~lowered => task[k].facts = data)
    BY <1>0, <2>3 DEF BuildSound
  <2> QED BY <2>1, <2>2, <2>4, <2>6, <2>7 DEF BuildSound
<1>5. CASE ReadFacts(k)
  <2>1. /\ task'[k].phase = "payload" /\ task'[k].filtered = task[k].filtered
        /\ task'[k].facts = task[k].facts /\ task'[k].cohort = task[k].cohort
        /\ task'[k].data = data
    BY <1>0, <1>5 DEF ReadFacts, OverviewTypeOK, Task
  <2>2. /\ lock' = lock /\ data' = data /\ attributes' = attributes
        /\ given' = given /\ lowered' = lowered
    BY <1>5 DEF ReadFacts, renameVars
  <2>3. task[k].phase = "cohort"
    BY <1>5 DEF ReadFacts
  <2> QED BY <1>0, <2>1, <2>2, <2>3 DEF BuildSound
<1> QED BY <1>1, <1>2, <1>3, <1>4, <1>5 DEF Build

\* Another task takes the lock or gives it up only while k is not building.
LEMMA OtherStepKeepsBuild ==
    ASSUME IInv, NEW k \in Tasks, NEW j \in Tasks \ {k}, Build(j) \/ LoseTask(j)
    PROVE  BuildSound(k)'
<1>0. OverviewTypeOK /\ BuildSound(k) /\ BuildSound(j) /\ Free \notin Tasks
  BY OverviewAssumption DEF IInv
<1>1. UNCHANGED <<attributes, data, given, lowered>> /\ task'[k] = task[k]
  BY <1>0, BuildLeaves
<1>2. lock = k => lock' = k
  BY <1>0 DEF Build, StartBuild, KeepRow, RetryOrDrop, ReadValues, ReadFacts, Publish,
              LoseTask, BuildSound
<1> QED BY <1>0, <1>1, <1>2 DEF BuildSound

\* Nor does a rebuild of the facts run beside it; edits only add versions.
LEMMA ElsewhereKeepsBuild ==
    ASSUME IInv, NEW k \in Tasks, Elsewhere, Onward
    PROVE  BuildSound(k)'
<1>0. OverviewTypeOK /\ BuildSound(k)
  BY DEF IInv
<1>1. task'[k] = task[k]
  BY ElsewhereLeaves
<1> SUFFICES ASSUME task[k].phase \in {"revisions", "cohort", "payload"}
             PROVE  BuildSound(k)'
  BY <1>1 DEF BuildSound
<1>2. lock = k /\ lock \notin {Free, "rebuild", "aggregate"}
  BY <1>0, OverviewAssumption DEF BuildSound
<1>3. lock' = k
  BY <1>2 DEF Elsewhere, ClaimExpires, Save, DeleteVariants, LoseDeletion,
              StartRebuild, CommitRebuild, AbortRebuild, RowStales, NextDay, LoadProject,
              FullSave, overviewVars
<1>4. ~CommitRebuild
  BY <1>2 DEF CommitRebuild
<1>5. data' = data
  <2>1. Save \/ (\E n \in Renames : FullSave(n)) => data' = data
    BY DEF Save, FullSave
  <2> QED BY <1>4, <2>1, ElsewhereCounts
<1>6. given \subseteq given' /\ attributes \in Nat /\ attributes' \in Nat
      /\ attributes <= attributes' /\ (~lowered' => ~lowered)
  BY <1>0, Numbers DEF Onward
<1>7. PICK v \in given : /\ v.filtered = task[k].filtered /\ v.data = data
                         /\ \A c \in task[k].cohort : v.attributes <= c /\ c <= attributes
  BY <1>0 DEF BuildSound
<1>8. task[k].cohort \in SUBSET Nat
  BY <1>0 DEF OverviewTypeOK, Task
<1>9. \A c \in task[k].cohort : v.attributes <= c /\ c <= attributes'
  BY <1>6, <1>7, <1>8
<1> QED BY <1>0, <1>1, <1>2, <1>3, <1>5, <1>6, <1>7, <1>9 DEF BuildSound

LEMMA StepKeepsBuilds ==
    ASSUME IInv, [OverviewNext]_overviewVars, NEW k \in Tasks
    PROVE  BuildSound(k)'
<1>1. ASSUME NEW r \in Requests, Serve(r)
      PROVE  BuildSound(k)'
  <2>1. OverviewTypeOK /\ BuildSound(k)
    BY DEF IInv
  <2>2. /\ UNCHANGED <<attributes, data, lock, given, lowered>>
        /\ task'[k] = task[k] \/ task'[k].phase = "queued"
    BY <1>1, <2>1, ServeLeaves
  <2> QED BY <2>1, <2>2 DEF BuildSound
<1>2. ASSUME NEW j \in Tasks, Build(j) \/ LoseTask(j)
      PROVE  BuildSound(k)'
  BY <1>2, OwnStepKeepsBuild, OtherStepKeepsBuild
<1> QED BY <1>1, <1>2, ElsewhereKeepsBuild, StepOnward, StepSplits

-----------------------------------------------------------------------------
(* The inductive invariant: the row and the requests.                      *)

\* What is stored: under a revision with one meaning the cohort of the current values
\* and the current facts.  What was read after the revision is not younger than the
\* version it stood for, and the version it stands for now is the same.
LEMMA PublishStoresCurrent ==
    ASSUME IInv, NEW k \in Tasks, Publish(k), row' # row, row' # NoRow
    PROVE  /\ row' = Built(k)
           /\ \A c \in row'.cohort : c <= attributes
           /\ row'.filtered = project.filtered /\ row'.data = data
           /\ Reliable(project.filtered) => row'.cohort = {attributes}
           /\ ~lowered => row'.facts = data
<1>0. OverviewTypeOK /\ GivenSound /\ RevisionsCount /\ BuildSound(k)
  BY DEF IInv
<1>1. row' = Built(k) /\ project.filtered = task[k].filtered
      /\ task[k].phase = "payload"
  BY DEF Publish, Reachable
<1>2. PICK v \in given : /\ v.filtered = task[k].filtered /\ v.data = data
                         /\ \A c \in task[k].cohort : v.attributes <= c /\ c <= attributes
  BY <1>0, <1>1 DEF BuildSound
<1>3. task[k].cohort # {} /\ task[k].data = data /\ (~lowered => task[k].facts = data)
  BY <1>0, <1>1 DEF BuildSound
<1>4. /\ row'.cohort = task[k].cohort /\ row'.data = task[k].data
      /\ row'.facts = task[k].facts /\ row'.filtered = task[k].filtered
  BY <1>1 DEF Built
<1>5. ASSUME Reliable(project.filtered)
      PROVE  task[k].cohort = {attributes}
  <2>1. Versions(v.filtered) = {v}
    BY <1>0, <1>1, <1>2, <1>5, OneMeaning
  <2>2. Stands(project, attributes, data) \in Versions(v.filtered)
    BY <1>0, <1>1, <1>2 DEF GivenSound, Versions, Stands
  <2>3. v.attributes = attributes
    BY <2>1, <2>2 DEF Stands
  <2>4. attributes \in Nat /\ task[k].cohort \in SUBSET Nat
    BY <1>0 DEF OverviewTypeOK, Task
  <2>5. \A c \in task[k].cohort : c = attributes
    BY <1>2, <2>3, <2>4
  <2> QED BY <1>3, <2>5
<1> QED BY <1>1, <1>2, <1>3, <1>4, <1>5

\* The versions of a revision that has one meaning after a step were its versions before.
LEMMA StaysTruthful ==
    ASSUME OverviewTypeOK, OverviewTypeOK', GivenSound, RevisionsCount,
           GivenSound', RevisionsCount', Onward,
           NEW v \in given, Reliable(v.filtered)'
    PROVE  Reliable(v.filtered) /\ Versions(v.filtered)' = Versions(v.filtered)
<1>1. v \in given' /\ given \subseteq given'
  BY DEF Onward
<1>2. lowered \in BOOLEAN /\ lowered' \in BOOLEAN
  BY DEF OverviewTypeOK
<1>3. Versions(v.filtered)' = {v}
  <2>1. CASE lowered'
    <3>1. PICK w \in given' : Versions(v.filtered)' = {w}
      BY <2>1 DEF Reliable
    <3>2. v \in Versions(v.filtered)'
      BY <1>1 DEF Versions
    <3> QED BY <3>1, <3>2
  <2>2. CASE ~lowered'
    <3>1. \A w \in given' : w.filtered = v.filtered => w = v
      <4> SUFFICES ASSUME NEW w \in given', w.filtered = v.filtered PROVE w = v
        OBVIOUS
      <4>1. /\ v.attributes \in Nat /\ v.data \in Nat /\ w.attributes \in Nat /\ w.data \in Nat
            /\ v = [filtered |-> v.filtered, attributes |-> v.attributes, data |-> v.data]
            /\ w = [filtered |-> w.filtered, attributes |-> w.attributes, data |-> w.data]
        BY <1>1 DEF OverviewTypeOK, Version
      <4>2. v.filtered = v.attributes + v.data /\ w.filtered = w.attributes + w.data
        BY <1>1, <2>2 DEF RevisionsCount
      <4>3. v.attributes = w.attributes /\ v.data = w.data
        BY <1>1, <4>1, <4>2 DEF GivenSound
      <4> QED BY <4>1, <4>3
    <3> QED BY <1>1, <3>1 DEF Versions
  <2> QED BY <2>1, <2>2
<1>4. Versions(v.filtered) = {v}
  BY <1>1, <1>3 DEF Versions
<1>5. Reliable(v.filtered)
  BY <1>4 DEF Reliable
<1> QED BY <1>3, <1>4, <1>5

LEMMA StepKeepsRow ==
    ASSUME IInv, [OverviewNext]_overviewVars, OverviewTypeOK', Onward,
           GivenSound', RevisionsCount'
    PROVE  RowTruthful' /\ RowSound'
<1>0. OverviewTypeOK /\ GivenSound /\ RevisionsCount /\ RowTruthful /\ RowSound
  BY DEF IInv
<1>1. /\ attributes \in Nat /\ attributes' \in Nat /\ attributes <= attributes'
      /\ given \subseteq given' /\ (~lowered' => ~lowered)
  BY <1>0, Numbers DEF Onward
<1>2. ASSUME row # NoRow, row' # NoRow,
             row'.cohort = row.cohort, row'.data = row.data,
             row'.facts = row.facts, row'.filtered = row.filtered
      PROVE  RowTruthful' /\ RowSound'
  <2>1. row.cohort \in SUBSET Nat
    BY <1>0, <1>2 DEF OverviewTypeOK, Row
  <2>2. /\ \E v \in given : v.filtered = row.filtered
        /\ \A c \in row.cohort : c <= attributes
        /\ ~lowered => row.facts = row.data
    BY <1>0, <1>2 DEF RowSound
  <2>3. \A c \in row.cohort : c <= attributes'
    BY <1>1, <2>1, <2>2
  <2>4. RowSound'
    BY <1>1, <1>2, <2>2, <2>3 DEF RowSound
  <2>5. PICK v \in given : v.filtered = row.filtered
    BY <2>2
  <2>6. ASSUME Reliable(v.filtered)'
        PROVE  \E a \in row.cohort :
                  /\ row.cohort = {a}
                  /\ Versions(v.filtered)' =
                        {[filtered |-> row.filtered, attributes |-> a, data |-> row.data]}
    <3>1. Reliable(v.filtered) /\ Versions(v.filtered)' = Versions(v.filtered)
      BY <1>0, <2>6, StaysTruthful
    <3>2. Reliable(row.filtered)
      BY <2>5, <3>1
    <3>3. PICK a \in row.cohort :
             /\ row.cohort = {a}
             /\ Versions(row.filtered) =
                   {[filtered |-> row.filtered, attributes |-> a, data |-> row.data]}
      BY <1>0, <1>2, <3>2 DEF RowTruthful
    <3> QED BY <2>5, <3>1, <3>3
  <2>7. RowTruthful'
    BY <1>2, <2>5, <2>6 DEF RowTruthful, Reliable, Versions
  <2> QED BY <2>4, <2>7
<1>3. CASE row' = NoRow
  BY <1>3 DEF RowTruthful, RowSound
<1>4. CASE row' = row
  BY <1>2, <1>3, <1>4
<1>5. CASE RowStales
  <2>1. row # NoRow /\ row \in Row
    BY <1>0, <1>5 DEF RowStales, OverviewTypeOK
  <2>2. /\ row'.cohort = row.cohort /\ row'.data = row.data
        /\ row'.facts = row.facts /\ row'.filtered = row.filtered
    BY <1>5, <2>1 DEF RowStales, Row
  <2> QED BY <1>2, <1>3, <2>1, <2>2
<1>6. ASSUME NEW k \in Tasks, Publish(k), row' # row, row' # NoRow
      PROVE  RowTruthful' /\ RowSound'
  <2>1. UNCHANGED <<project, attributes, data, given, lowered>>
    BY <1>6 DEF Publish, renameVars
  <2>2. /\ \A c \in row'.cohort : c <= attributes
        /\ row'.filtered = project.filtered /\ row'.data = data
        /\ Reliable(project.filtered) => row'.cohort = {attributes}
        /\ ~lowered => row'.facts = data
    BY <1>6, PublishStoresCurrent
  <2> DEFINE now == Stands(project, attributes, data)
  <2>3. now \in given /\ now.filtered = project.filtered
        /\ now = [filtered |-> project.filtered, attributes |-> attributes, data |-> data]
    BY <1>0 DEF GivenSound, Stands
  <2> HIDE DEF now
  <2>4. RowSound'
    BY <2>1, <2>2, <2>3 DEF RowSound
  <2>5. ASSUME Reliable(project.filtered)
        PROVE  Versions(project.filtered) = {now}
    BY <1>0, <2>3, <2>5, OneMeaning
  <2>6. RowTruthful'
    <3> SUFFICES ASSUME Reliable(project.filtered)
                 PROVE  \E a \in row'.cohort :
                          /\ row'.cohort = {a}
                          /\ Versions(project.filtered) =
                               {[filtered |-> row'.filtered, attributes |-> a,
                                 data |-> row'.data]}
      BY <2>1, <2>2 DEF RowTruthful, Reliable, Versions
    <3> QED BY <2>2, <2>3, <2>5
  <2> QED BY <2>4, <2>6
<1> QED BY <1>0, <1>3, <1>4, <1>5, <1>6, StepSplits, ServeLeaves, BuildLeaves,
           ElsewhereRows

\* The attribute difference of a row, until a save takes revisions back.
LEMMA RowDifference ==
    ASSUME IInv, row # NoRow, ~lowered
    PROVE  /\ AttributeRevision(row) \in Nat
           /\ row.cohort = {AttributeRevision(row)}
<1>0. OverviewTypeOK /\ RowTruthful /\ RowSound /\ RevisionsCount
  BY DEF IInv
<1>1. PICK a \in row.cohort :
         /\ row.cohort = {a}
         /\ Versions(row.filtered) =
               {[filtered |-> row.filtered, attributes |-> a, data |-> row.data]}
  BY <1>0 DEF RowTruthful, Reliable
<1>2. [filtered |-> row.filtered, attributes |-> a, data |-> row.data] \in given
  BY <1>1 DEF Versions
<1>3. row.filtered = a + row.data
  BY <1>0, <1>2 DEF RevisionsCount
<1>4. row.facts = row.data /\ a \in Nat /\ row.data \in Nat
  BY <1>0 DEF RowSound, OverviewTypeOK, Row
<1> QED BY <1>1, <1>3, <1>4 DEF AttributeRevision

\* The request's own steps.
LEMMA OwnStepKeepsRequest ==
    ASSUME IInv, NEW r \in Requests, Serve(r)
    PROVE  RequestSound(r)'
<1>0. OverviewTypeOK /\ RequestSound(r) /\ GivenSound /\ RevisionsCount /\ RowSound
  BY DEF IInv
<1>1. CASE Ask(r)
  <2>1. /\ request'[r].phase = "asked" /\ request'[r].filtered = project.filtered
        /\ request'[r].facts = project.facts /\ request'[r].version = attributes
        /\ request'[r].page = {}
        /\ attributes' = attributes /\ lowered' = lowered
    BY <1>0, <1>1 DEF Ask, OverviewTypeOK, renameVars
  <2>2. ~lowered => project.filtered - project.facts = attributes
    BY <1>0, Numbers DEF GivenSound, RevisionsCount, Stands
  <2> QED BY <1>0, <2>1, <2>2, Numbers DEF RequestSound, AttributeRevision
<1>2. ASSUME NEW endpoint \in Endpoints, Look(r, endpoint)
      PROVE  RequestSound(r)'
  <2>1. request[r].phase = "asked" /\ attributes' = attributes /\ row' = row
        /\ lowered' = lowered
    BY <1>2 DEF Look, renameVars
  <2> DEFINE shown == IF Usable(request[r]) /\ endpoint # "table" THEN row.cohort ELSE {}
  <2>2. CASE Usable(request[r]) /\ endpoint # "page"
    <3>1. request' = [request EXCEPT ![r].phase = "gated", ![r].page = shown]
      BY <1>2, <2>2 DEF Look
    <3>2. row # NoRow /\ AttributeRevision(row) = AttributeRevision(request[r])
      BY <2>2 DEF Usable
    <3>3. shown \subseteq row.cohort
      OBVIOUS
    <3> HIDE DEF shown
    <3>4. /\ request'[r].phase = "gated" /\ request'[r].filtered = request[r].filtered
          /\ request'[r].facts = request[r].facts
          /\ request'[r].version = request[r].version
          /\ request'[r].page = shown
      BY <1>0, <3>1 DEF OverviewTypeOK, Request
    <3>5. request[r].version <= attributes /\ \A c \in shown : c <= attributes
      BY <1>0, <2>1, <3>2, <3>3 DEF RequestSound, RowSound
    <3>6. ~lowered => AttributeRevision(request[r]) = request[r].version
      BY <1>0, <2>1 DEF RequestSound
    <3>7. ~lowered => row.cohort = {request[r].version} /\ request[r].version \in Nat
      BY <3>2, <3>6, RowDifference
    <3>8. ~lowered => /\ shown \subseteq {request[r].version}
                      /\ \A c \in row.cohort : request[r].version <= c
      BY <3>3, <3>7
    <3> QED BY <2>1, <3>4, <3>5, <3>6, <3>8 DEF RequestSound, AttributeRevision
  <2>3. CASE ~(Usable(request[r]) /\ endpoint # "page")
    <3>1. request' = [request EXCEPT ![r] = NoRequest]
      BY <1>2, <2>3 DEF Look
    <3>2. request'[r].phase = "idle"
      BY <1>0, <3>1 DEF OverviewTypeOK, NoRequest
    <3> QED BY <3>2 DEF RequestSound
  <2> QED BY <2>2, <2>3
<1>3. CASE Render(r)
  <2>1. request'[r].phase = "idle"
    BY <1>0, <1>3 DEF Render, OverviewTypeOK, NoRequest
  <2> QED BY <2>1 DEF RequestSound
<1> QED BY <1>1, <1>2, <1>3 DEF Serve

LEMMA StepKeepsRequests ==
    ASSUME IInv, [OverviewNext]_overviewVars, Onward, NEW r \in Requests
    PROVE  RequestSound(r)'
<1>0. OverviewTypeOK /\ RequestSound(r)
  BY DEF IInv
<1>1. /\ request[r].version \in Nat /\ request[r].page \in SUBSET Nat
      /\ attributes \in Nat /\ attributes' \in Nat /\ attributes <= attributes'
      /\ (~lowered' => ~lowered)
  BY <1>0, Numbers DEF OverviewTypeOK, Request, Onward
<1>2. ASSUME request'[r] = request[r],
             row' # NoRow /\ ~lowered /\ request[r].phase = "gated" =>
                 \A c \in row'.cohort : request[r].version <= c
      PROVE  RequestSound(r)'
  <2> SUFFICES ASSUME request[r].phase # "idle"
               PROVE  RequestSound(r)'
    BY <1>2 DEF RequestSound
  <2>1. request[r].version <= attributes' /\ \A c \in request[r].page : c <= attributes'
    BY <1>0, <1>1 DEF RequestSound
  <2>2. ~lowered => /\ AttributeRevision(request[r]) = request[r].version
                    /\ request[r].page \subseteq {request[r].version}
    BY <1>0 DEF RequestSound
  <2> QED BY <1>1, <1>2, <2>1, <2>2 DEF RequestSound, AttributeRevision
<1>3. row # NoRow /\ ~lowered /\ request[r].phase = "gated" =>
          \A c \in row.cohort : request[r].version <= c
  BY <1>0 DEF RequestSound
<1>4. ASSUME NEW q \in Requests \ {r}, Serve(q)
      PROVE  RequestSound(r)'
  <2>1. row' = row /\ request'[r] = request[r]
    BY <1>0, <1>4, ServeLeaves
  <2> QED BY <1>2, <1>3, <2>1
<1>5. ASSUME NEW k \in Tasks, Build(k) \/ LoseTask(k)
      PROVE  RequestSound(r)'
  <2>1. request'[r] = request[r] /\ attributes' = attributes
    BY <1>0, <1>5, BuildLeaves
  <2>2. CASE row' = row \/ row' = NoRow
    BY <1>2, <1>3, <2>1, <2>2
  <2>3. CASE row' # row /\ row' # NoRow
    <3>1. ~lowered => row'.cohort = {attributes}
      BY <1>0, <1>5, <2>3, BuildLeaves, PublishStoresCurrent DEF Reliable
    <3>2. request[r].phase = "gated" => request[r].version <= attributes
      BY <1>0 DEF RequestSound
    <3> QED BY <1>2, <2>1, <3>1, <3>2
  <2> QED BY <2>2, <2>3
<1>6. CASE Elsewhere
  <2>1. request'[r] = request[r]
    BY <1>6, ElsewhereLeaves
  <2>2. row' # NoRow => row # NoRow /\ row'.cohort = row.cohort
    <3>1. CASE RowStales
      BY <1>0, <3>1 DEF RowStales, OverviewTypeOK, Row
    <3> QED BY <1>6, <3>1, ElsewhereRows
  <2> QED BY <1>2, <1>3, <2>1, <2>2
<1> QED BY <1>4, <1>5, <1>6, OwnStepKeepsRequest, StepSplits

LEMMA StepKeepsInvariant == IInv /\ [OverviewNext]_overviewVars => IInv'
<1> SUFFICES ASSUME IInv, [OverviewNext]_overviewVars PROVE IInv'
  OBVIOUS
<1>1. OverviewTypeOK' /\ Onward
  BY StepKeepsTypes, StepOnward DEF IInv
<1>2. GivenSound' /\ RevisionsCount'
  BY <1>1, OnwardKeepsGiven DEF IInv
<1>3. \A k \in Tasks : BuildSound(k)'
  BY StepKeepsBuilds
<1>4. \A r \in Requests : RequestSound(r)'
  BY <1>1, StepKeepsRequests
<1>5. RowTruthful' /\ RowSound'
  BY <1>1, <1>2, StepKeepsRow
<1> QED BY <1>1, <1>2, <1>3, <1>4, <1>5 DEF IInv

-----------------------------------------------------------------------------
(* The theorems.                                                           *)

\* The state of every run of one filtered variant satisfies the invariant.
THEOREM OverviewInvariant == OverviewSpec => []IInv
<1>1. OverviewInit => IInv
  BY InitEstablishes
<1>2. IInv /\ [OverviewNext]_overviewVars => IInv'
  BY StepKeepsInvariant
<1> QED BY <1>1, <1>2, PTL DEF OverviewSpec

\* Every variable keeps its type.
THEOREM OverviewTypeCorrect == OverviewSpec => []OverviewTypeOK
<1>1. IInv => OverviewTypeOK
  BY DEF IInv
<1> QED BY <1>1, OverviewInvariant, PTL

\* No cached row mixes two versions of the attribute values, or values of one version
\* with facts of another, unless a save of the whole project has given its revision
\* two meanings: builds that hold the advisory lock race only with edits and such
\* saves, and the revision check refuses what the edits spoilt.
THEOREM RowAlwaysTruthful == OverviewSpec => []RowTruthful
<1>1. IInv => RowTruthful
  BY DEF IInv
<1> QED BY <1>1, OverviewInvariant, PTL

\* A builder publishes only what is current when it publishes, under a revision with
\* one meaning.
THEOREM PublishesOnlyCurrent == OverviewSpec => PublishesCurrent
<1>1. ASSUME IInv, [OverviewNext]_overviewVars
      PROVE  [row' # row /\ row' # NoRow /\ ~row'.stale /\ Reliable(row'.filtered) =>
                 row'.cohort = {attributes} /\ row'.data = data]_overviewVars
  <2> SUFFICES ASSUME row' # row, row' # NoRow, ~row'.stale, Reliable(row'.filtered)
               PROVE  row'.cohort = {attributes} /\ row'.data = data
    OBVIOUS
  <2>0. OverviewTypeOK
    BY <1>1 DEF IInv
  <2>1. ~RowStales
    <3> SUFFICES ASSUME RowStales PROVE FALSE
      OBVIOUS
    <3>1. row \in Row
      BY <2>0 DEF RowStales, OverviewTypeOK
    <3>2. row'.stale = TRUE
      BY <3>1 DEF RowStales, Row
    <3> QED BY <3>2
  <2>2. PICK k \in Tasks : Publish(k)
    BY <1>1, <2>0, <2>1, StepSplits, ServeLeaves, BuildLeaves, ElsewhereRows
  <2>3. /\ row'.filtered = project.filtered /\ row'.data = data
        /\ Reliable(project.filtered) => row'.cohort = {attributes}
    BY <1>1, <2>2, PublishStoresCurrent
  <2> QED BY <2>3
<1> QED BY <1>1, OverviewInvariant, PTL DEF OverviewSpec, PublishesCurrent

-----------------------------------------------------------------------------
(* The refinement: what the clients see is the abstract service.           *)

\* The version of the values that request r was asked at.
Asked(r) == IF request[r].phase = "idle" THEN NotAsked ELSE request[r].version

AskedBy == [r \in Requests |-> Asked(r)]

LEMMA InitMaps == OverviewInit => Answers!AnswersInit
BY DEF OverviewInit, Answers!AnswersInit, Answers!Pending, Pending, NoRequest

\* What a request is given: committed versions, and until a save takes revisions
\* back, one for its page and the same or a later one for its table.
Due(r, parts) ==
    /\ parts \in [page: SUBSET (0 .. attributes), table: SUBSET (0 .. attributes)]
    /\ ~lowered =>
          /\ parts.page \subseteq {request[r].version}
          /\ \E c \in request[r].version .. attributes : parts.table \subseteq {c}

LEMMA GivenAnswers ==
    ASSUME OverviewTypeOK, NEW r \in Requests, request[r].phase # "idle",
           request[r].version <= attributes,
           request' = [request EXCEPT ![r] = NoRequest],
           UNCHANGED <<attributes, lowered>>,
           NEW parts, Due(r, parts), answer' = [answer EXCEPT ![r] = parts]
    PROVE  Answers!Answer(r) \/ Answers!AnswerAnyhow(r)
<1>0. /\ attributes \in Nat /\ request[r].version \in Nat
      /\ request \in [Requests -> Request]
  BY DEF OverviewTypeOK, Request
<1>1. /\ request'[r].phase = "idle"
      /\ \A q \in Requests \ {r} : request'[q] = request[q]
  BY <1>0 DEF NoRequest
<1>2. Asked(r)' = NotAsked /\ Asked(r) = request[r].version
  BY <1>1 DEF Asked
<1>3. Asked(r) # NotAsked /\ Asked(r) \in Nat
  BY <1>0, <1>2, OverviewAssumption
<1>4. \A q \in Requests \ {r} : Asked(q)' = Asked(q)
  BY <1>1 DEF Asked
<1>5. AskedBy' = [AskedBy EXCEPT ![r] = NotAsked] /\ AskedBy[r] = Asked(r)
  BY <1>2, <1>4 DEF AskedBy
<1>6. CASE lowered
  <2>1. \E p \in [page: SUBSET (0 .. attributes), table: SUBSET (0 .. attributes)] :
           answer' = [answer EXCEPT ![r] = p]
    BY DEF Due
  <2> QED BY <1>3, <1>5, <1>6, <2>1 DEF Answers!AnswerAnyhow, AskedBy, Asked
<1>7. CASE ~lowered
  <2> DEFINE v == request[r].version
  <2>1. PICK c \in v .. attributes : parts.table \subseteq {c}
    BY <1>7 DEF Due
  <2>2. parts.page \in {{}, {v}} /\ parts.table \in {{}, {c}}
    BY <1>7, <2>1 DEF Due
  <2>3. parts = [page |-> parts.page, table |-> parts.table]
    BY DEF Due
  <2>4. parts \in [page: {{}, {v}}, table: {{}, {c}}]
    BY <2>2, <2>3
  <2>5. v \in Nat /\ v \in v .. attributes /\ v <= c /\ c \in v .. attributes
    BY <1>0, <2>1
  <2>6. \E shown, table \in Asked(r) .. attributes :
           /\ shown <= table
           /\ \E p \in [page: {{}, {shown}}, table: {{}, {table}}] :
                 answer' = [answer EXCEPT ![r] = p]
    BY <1>2, <2>4, <2>5
  <2> QED BY <1>3, <1>5, <2>6 DEF Answers!Answer, AskedBy, Asked
<1> QED BY <1>6, <1>7

\* A request's step asks, answers, or stutters between its two reads of the row.
LEMMA ServeMaps ==
    ASSUME IInv, NEW r \in Requests, Serve(r)
    PROVE  \/ Answers!Request(r)
           \/ Answers!Answer(r) \/ Answers!AnswerAnyhow(r)
           \/ UNCHANGED <<attributes, lowered, AskedBy, answer>>
<1>0. /\ OverviewTypeOK /\ RequestSound(r) /\ RowSound
      /\ request[r] \in Request /\ attributes \in Nat
      /\ request \in [Requests -> Request]
      /\ lowered \in BOOLEAN
  BY DEF IInv, OverviewTypeOK
<1>1. CASE Ask(r)
  <2>1. /\ request'[r].phase = "asked" /\ request'[r].version = attributes
        /\ \A q \in Requests \ {r} : request'[q] = request[q]
    BY <1>0, <1>1 DEF Ask
  <2>2. Asked(r)' = attributes /\ Asked(r) = NotAsked
    BY <1>0, <1>1, <2>1 DEF Ask, Asked
  <2>3. \A q \in Requests \ {r} : Asked(q)' = Asked(q)
    BY <2>1 DEF Asked
  <2>4. AskedBy' = [AskedBy EXCEPT ![r] = attributes] /\ AskedBy[r] = NotAsked
    BY <2>2, <2>3 DEF AskedBy
  <2>5. UNCHANGED <<attributes, lowered>> /\ answer' = [answer EXCEPT ![r] = Pending]
    BY <1>1 DEF Ask, renameVars
  <2> QED BY <2>4, <2>5 DEF Answers!Request, AskedBy, Asked, Answers!Pending, Pending
<1>2. row # NoRow => row.cohort \in SUBSET (0 .. attributes)
  <2>1. row # NoRow => row.cohort \in SUBSET Nat
    BY <1>0 DEF OverviewTypeOK, Row
  <2> QED BY <1>0, <2>1 DEF RowSound
<1>3. ASSUME request[r].phase # "idle"
      PROVE  /\ request[r].version \in Nat /\ request[r].version <= attributes
             /\ request[r].page \in SUBSET (0 .. attributes)
             /\ ~lowered => /\ AttributeRevision(request[r]) = request[r].version
                            /\ request[r].page \subseteq {request[r].version}
  <2>1. request[r].version \in Nat /\ request[r].page \in SUBSET Nat
    BY <1>0 DEF Request
  <2> QED BY <1>0, <1>3, <2>1 DEF RequestSound
<1>4. ASSUME NEW endpoint \in Endpoints, Look(r, endpoint)
      PROVE  \/ Answers!Answer(r) \/ Answers!AnswerAnyhow(r)
             \/ UNCHANGED <<attributes, lowered, AskedBy, answer>>
  <2>1. request[r].phase = "asked" /\ UNCHANGED <<attributes, lowered>>
    BY <1>4 DEF Look, renameVars
  <2> DEFINE shown == IF Usable(request[r]) /\ endpoint # "table" THEN row.cohort ELSE {}
  <2>2. CASE Usable(request[r]) /\ endpoint # "page"
    <3>1. /\ request' = [request EXCEPT ![r].phase = "gated", ![r].page = shown]
          /\ answer' = answer
      BY <1>4, <2>2 DEF Look
    <3> HIDE DEF shown
    <3>2. /\ request'[r].phase = "gated" /\ request'[r].version = request[r].version
          /\ \A q \in Requests \ {r} : request'[q] = request[q]
      BY <1>0, <3>1 DEF Request
    <3>3. \A q \in Requests : Asked(q)' = Asked(q)
      BY <2>1, <3>2 DEF Asked
    <3> QED BY <2>1, <3>1, <3>3 DEF AskedBy
  <2>3. CASE ~(Usable(request[r]) /\ endpoint # "page")
    <3>1. /\ request' = [request EXCEPT ![r] = NoRequest]
          /\ answer' = [answer EXCEPT ![r] = [page |-> shown, table |-> {}]]
      BY <1>4, <2>3 DEF Look
    <3>2. shown \in SUBSET (0 .. attributes)
      BY <1>2 DEF Usable
    <3>3. ~lowered => shown \subseteq {request[r].version}
      BY <1>3, <2>1, RowDifference DEF Usable
    <3> HIDE DEF shown
    <3>4. request[r].version \in request[r].version .. attributes
      BY <1>0, <1>3, <2>1
    <3>5. Due(r, [page |-> shown, table |-> {}])
      BY <3>2, <3>3, <3>4 DEF Due
    <3> QED BY <1>0, <1>3, <2>1, <3>1, <3>5, GivenAnswers
  <2> QED BY <2>2, <2>3
<1>5. CASE Render(r)
  <2> DEFINE table == IF row = NoRow THEN {} ELSE row.cohort
  <2>1. /\ request[r].phase = "gated" /\ UNCHANGED <<attributes, lowered>>
        /\ request' = [request EXCEPT ![r] = NoRequest]
        /\ answer' = [answer EXCEPT ![r] = [page |-> request[r].page, table |-> table]]
    BY <1>5 DEF Render, renameVars
  <2>2. table \in SUBSET (0 .. attributes)
    BY <1>2
  <2>3. ASSUME ~lowered
        PROVE  \E c \in request[r].version .. attributes : table \subseteq {c}
    <3>1. CASE row = NoRow
      <4>1. request[r].version \in request[r].version .. attributes
        BY <1>0, <1>3, <2>1
      <4> QED BY <3>1, <4>1
    <3>2. CASE row # NoRow
      <4>1. row.cohort = {AttributeRevision(row)}
        BY <2>3, <3>2, RowDifference
      <4> DEFINE c == AttributeRevision(row)
      <4>2. request[r].version <= c
        BY <1>0, <2>1, <2>3, <3>2, <4>1 DEF RequestSound
      <4>3. c \in 0 .. attributes
        BY <1>2, <3>2, <4>1
      <4>4. row.cohort = {c}
        BY <4>1
      <4> HIDE DEF c
      <4>5. c \in request[r].version .. attributes
        BY <1>0, <1>3, <2>1, <4>2, <4>3
      <4> QED BY <3>2, <4>4, <4>5
    <3> QED BY <3>1, <3>2
  <2> HIDE DEF table
  <2>4. Due(r, [page |-> request[r].page, table |-> table])
    BY <1>3, <2>1, <2>2, <2>3 DEF Due
  <2> QED BY <1>0, <1>3, <2>1, <2>4, GivenAnswers
<1> QED BY <1>1, <1>4, <1>5 DEF Serve

LEMMA StepMaps ==
    ASSUME IInv, [OverviewNext]_overviewVars
    PROVE  Answers!AnswersNext \/ UNCHANGED Answers!answersVars
<1>0. OverviewTypeOK
  BY DEF IInv
<1> DEFINE Stutters == UNCHANGED <<attributes, lowered, AskedBy, answer>>
<1>1. Stutters => UNCHANGED Answers!answersVars
  BY DEF Answers!answersVars, AskedBy, Asked
<1>2. UNCHANGED <<request, answer>> => AskedBy' = AskedBy
  BY DEF AskedBy, Asked
<1>3. ASSUME NEW r \in Requests, Serve(r)
      PROVE  Answers!AnswersNext \/ UNCHANGED Answers!answersVars
  BY <1>1, <1>3, ServeMaps DEF Answers!AnswersNext
<1>4. ASSUME NEW k \in Tasks, Build(k) \/ LoseTask(k)
      PROVE  Answers!AnswersNext \/ UNCHANGED Answers!answersVars
  BY <1>0, <1>1, <1>2, <1>4, BuildLeaves
<1>5. CASE Save
  <2>1. attributes' = attributes + 1 /\ UNCHANGED <<request, answer, lowered>>
    BY <1>5 DEF Save
  <2>2. Answers!SaveValues
    BY <1>2, <2>1 DEF Answers!SaveValues, AskedBy, Asked
  <2> QED BY <2>2 DEF Answers!AnswersNext
<1>6. ASSUME NEW n \in Renames, FullSave(n)
      PROVE  Answers!AnswersNext \/ UNCHANGED Answers!answersVars
  <2>1. UNCHANGED <<request, answer, attributes>>
    BY <1>6 DEF FullSave
  <2>2. lowered' = TRUE \/ lowered' = lowered
    <3>1. lowered \in BOOLEAN /\ lowered' = (lowered \/ rename[n] # project)
      BY <1>0, <1>6 DEF OverviewTypeOK, FullSave
    <3> QED BY <3>1
  <2>3. CASE lowered' = TRUE
    <3>1. Answers!GoBack
      BY <1>2, <2>1, <2>3 DEF Answers!GoBack, AskedBy, Asked
    <3> QED BY <3>1 DEF Answers!AnswersNext
  <2>4. CASE lowered' = lowered
    BY <1>1, <1>2, <2>1, <2>4
  <2> QED BY <2>2, <2>3, <2>4
<1>7. CASE CommitRebuild
  <2>1. UNCHANGED <<request, answer, attributes, lowered>>
    BY <1>7 DEF CommitRebuild
  <2> QED BY <1>1, <1>2, <2>1
<1>8. CASE Elsewhere /\ ~Save /\ ~CommitRebuild /\ \A n \in Renames : ~FullSave(n)
  BY <1>1, <1>2, <1>8, ElsewhereCounts, ElsewhereLeaves
<1> QED BY <1>3, <1>4, <1>5, <1>6, <1>7, <1>8, StepSplits

\* A client is told to wait or given the figures of one version of the attribute
\* values, current at some instant between its request and the answer, whatever
\* edits, deletions, builds, retries and failures run meanwhile; the table of the users
\* page may be of a later version than the rest.  From the first save of the whole
\* project that takes revisions back, it is given committed versions.
THEOREM AnswersAreCurrentAlways == OverviewSpec => AnswersAreCurrent
<1>1. OverviewInit => Answers!AnswersInit
  BY InitMaps
<1>2. IInv /\ [OverviewNext]_overviewVars => [Answers!AnswersNext]_Answers!answersVars
  BY StepMaps
<1> QED BY <1>1, <1>2, OverviewInvariant, PTL
        DEF OverviewSpec, AnswersAreCurrent, Answers!AnswersSpec

-----------------------------------------------------------------------------
(* The replay: the order of delivery.                                      *)

\* Events that can be put in order.
Orderly(S) ==
    /\ IsFiniteSet(S) /\ None \notin S
    /\ \A e \in S : e.id \in Nat /\ e.at \in Nat
    /\ \A e, f \in S : e.id = f.id => e = f

\* So can fewer of them.
LEMMA OrderlyPart ==
    ASSUME NEW S, Orderly(S), NEW T, T \subseteq S
    PROVE  Orderly(T)
BY FS_Subset DEF Orderly

\* The order is total,
LEMMA OrderTotal ==
    ASSUME NEW S, Orderly(S), NEW e \in S, NEW f \in S
    PROVE  /\ ~ Precedes(e, e)
           /\ e = f \/ Precedes(e, f) \/ Precedes(f, e)
           /\ Precedes(e, f) => ~ Precedes(f, e) /\ e # f
BY DEF Orderly, Precedes

\* and transitive.
LEMMA OrderTransitive ==
    ASSUME NEW S, Orderly(S), NEW e \in S, NEW f \in S, NEW g \in S
    PROVE  /\ Precedes(e, f) /\ ~ Precedes(g, f) => Precedes(e, g)
           /\ ~ Precedes(f, e) /\ Precedes(f, g) => Precedes(e, g)
           /\ ~ Precedes(f, e) /\ ~ Precedes(g, f) => ~ Precedes(g, e)
BY DEF Orderly, Precedes

\* The place of an event.
Place(S, e) == Cardinality(UpTo(S, e))

\* Later events have later places.
LEMMA PlacesGrow ==
    ASSUME NEW S, Orderly(S), NEW e \in S
    PROVE  /\ Place(S, e) \in 1..Cardinality(S)
           /\ \A f \in S : Precedes(e, f) => Place(S, e) < Place(S, f)
<1>1. IsFiniteSet(S)
  BY DEF Orderly
<1>2. \A f \in S : /\ UpTo(S, f) \in SUBSET S /\ f \in UpTo(S, f)
                   /\ IsFiniteSet(UpTo(S, f)) /\ Place(S, f) \in Nat /\ Place(S, f) <= Cardinality(S)
  <2> SUFFICES ASSUME NEW f \in S
               PROVE  /\ UpTo(S, f) \in SUBSET S /\ f \in UpTo(S, f)
                      /\ IsFiniteSet(UpTo(S, f)) /\ Place(S, f) \in Nat /\ Place(S, f) <= Cardinality(S)
    OBVIOUS
  <2>1. UpTo(S, f) \in SUBSET S /\ f \in UpTo(S, f)
    BY OrderTotal DEF UpTo
  <2> QED
    BY <1>1, <2>1, FS_Subset, FS_CardinalityType DEF Place
<1>3. Place(S, e) # 0
  BY <1>2, FS_EmptySet DEF Place
<1>4. ASSUME NEW f \in S, Precedes(e, f) PROVE Place(S, e) < Place(S, f)
  <2>1. UpTo(S, e) \in SUBSET UpTo(S, f)
    <3> SUFFICES ASSUME NEW g \in S, ~ Precedes(e, g) PROVE ~ Precedes(f, g)
      BY DEF UpTo
    <3> QED
      BY <1>4, OrderTransitive, OrderTotal
  <2>2. f \notin UpTo(S, e)
    BY <1>4 DEF UpTo
  <2>3. UpTo(S, e) # UpTo(S, f)
    BY <1>2, <2>2
  <2> QED
    BY <1>2, <2>1, <2>3, FS_Subset DEF Place
<1>5. Cardinality(S) \in Nat
  BY <1>1, FS_CardinalityType
<1> QED
  BY <1>2, <1>3, <1>4, <1>5

\* A sequence has the events of a set in order.
Ordering(C, S) ==
    /\ C \in [1..Cardinality(S) -> S]
    /\ \A e \in S : \E i \in DOMAIN C : C[i] = e
    /\ \A i, j \in DOMAIN C : i < j => Precedes(C[i], C[j])

\* So has InOrder.
LEMMA InOrderOrders ==
    ASSUME NEW S, Orderly(S)
    PROVE  Ordering(InOrder(S), S) /\ Cardinality(S) \in Nat
<1> DEFINE n == Cardinality(S)
           r == [e \in S |-> Place(S, e)]
           C == InOrder(S)
<1>1. IsFiniteSet(S) /\ n \in Nat
  BY FS_CardinalityType DEF Orderly
<1>2. r \in [S -> 1..n]
  BY PlacesGrow
<1>3. \A e, f \in S : r[e] = r[f] => e = f
  <2> SUFFICES ASSUME NEW e \in S, NEW f \in S, e # f PROVE r[e] # r[f]
    OBVIOUS
  <2>1. Precedes(e, f) \/ Precedes(f, e)
    BY OrderTotal
  <2>2. r[e] \in Nat /\ r[f] \in Nat
    BY <1>2
  <2> QED
    BY <2>1, <2>2, PlacesGrow
<1>4. \A i \in 1..n : \E e \in S : r[e] = i
  <2> HIDE DEF r
  <2>1. r \in Injection(S, 1..n)
    BY <1>2, <1>3 DEF Injection, IsInjective
  <2>2. IsFiniteSet(1..n) /\ Cardinality(1..n) = n
    BY <1>1, FS_Interval
  <2>3. r \in Surjection(S, 1..n)
    BY <2>1, <2>2, FS_Injection
  <2> QED
    BY <2>3 DEF Surjection
<1>5. C = [i \in 1..n |-> CHOOSE e \in S : Cardinality(UpTo(S, e)) = i]
  BY DEF InOrder
<1>6. \A i \in 1..n : C[i] \in S /\ r[C[i]] = i
  <2> SUFFICES ASSUME NEW i \in 1..n PROVE C[i] \in S /\ r[C[i]] = i
    OBVIOUS
  <2>1. \E e \in S : Cardinality(UpTo(S, e)) = i
    BY <1>4 DEF Place
  <2>2. C[i] \in S /\ Cardinality(UpTo(S, C[i])) = i
    BY <1>5, <2>1
  <2> QED
    BY <2>2 DEF Place
<1>7. DOMAIN C = 1..n /\ C \in [1..n -> S]
  BY <1>5, <1>6
<1> HIDE DEF C, r
<1>8. \A e \in S : \E i \in DOMAIN C : C[i] = e
  <2> SUFFICES ASSUME NEW e \in S PROVE \E i \in DOMAIN C : C[i] = e
    OBVIOUS
  <2>1. r[e] \in 1..n
    BY <1>2
  <2>2. C[r[e]] = e
    BY <1>3, <1>6, <2>1
  <2> QED
    BY <1>7, <2>1, <2>2
<1>9. ASSUME NEW i \in DOMAIN C, NEW j \in DOMAIN C, i < j PROVE Precedes(C[i], C[j])
  <2>1. /\ i \in 1..n /\ j \in 1..n /\ C[i] \in S /\ C[j] \in S /\ r[C[i]] = i /\ r[C[j]] = j
    BY <1>6, <1>7
  <2>2. C[i] # C[j]
    BY <1>9, <2>1
  <2>3. ASSUME Precedes(C[j], C[i]) PROVE FALSE
    <3>1. Place(S, C[j]) < Place(S, C[i])
      BY <2>1, <2>3, PlacesGrow
    <3> QED
      BY <1>9, <2>1, <3>1 DEF r
  <2> QED
    BY <2>1, <2>2, <2>3, OrderTotal
<1> QED
  BY <1>1, <1>7, <1>8, <1>9 DEF Ordering, C

\* The latest of some events is one of them, and after all others.
LEMMA LatestIs ==
    ASSUME NEW S, Orderly(S), S # {}
    PROVE  Latest(S) \in S /\ Latest(S) # None /\ \A f \in S : f # Latest(S) => Precedes(f, Latest(S))
<1> DEFINE n == Cardinality(S)
           C == InOrder(S)
<1>1. Ordering(C, S) /\ n \in Nat
  BY InOrderOrders
<1>2. n # 0
  BY FS_EmptySet DEF Orderly
<1> HIDE DEF C, n
<1>3. DOMAIN C = 1..n /\ n \in 1..n
  BY <1>1, <1>2 DEF Ordering, n
<1>4. C[n] \in S
  BY <1>1, <1>3 DEF Ordering, n
<1>5. \A f \in S \ {C[n]} : Precedes(f, C[n])
  <2> SUFFICES ASSUME NEW f \in S, f # C[n] PROVE Precedes(f, C[n])
    OBVIOUS
  <2>1. PICK i \in DOMAIN C : C[i] = f
    BY <1>1 DEF Ordering
  <2>2. i < n
    BY <1>3, <2>1
  <2> QED
    BY <1>1, <1>3, <2>1, <2>2 DEF Ordering
<1>6. \E e \in S : \A f \in S \ {e} : Precedes(f, e)
  BY <1>4, <1>5
<1>7. Latest(S) \in S /\ \A f \in S \ {Latest(S)} : Precedes(f, Latest(S))
  BY <1>6 DEF Latest
<1> QED
  BY <1>7 DEF Orderly

\* There is one latest only.
LEMMA LatestOnly ==
    ASSUME NEW S, Orderly(S), NEW e \in S, \A f \in S : f # e => Precedes(f, e)
    PROVE  Latest(S) = e
<1>1. S # {}
  OBVIOUS
<1>2. Latest(S) \in S /\ \A f \in S : f # Latest(S) => Precedes(f, Latest(S))
  BY <1>1, LatestIs
<1> QED
  BY <1>2, OrderTotal

\* The earliest of some events is one of them.
LEMMA EarliestIs ==
    ASSUME NEW S, Orderly(S), S # {}
    PROVE  Earliest(S) \in S /\ Earliest(S) # None /\ \A f \in S : f # Earliest(S) => Precedes(Earliest(S), f)
<1> DEFINE n == Cardinality(S)
           C == InOrder(S)
<1>1. Ordering(C, S) /\ n \in Nat
  BY InOrderOrders
<1>2. n # 0
  BY FS_EmptySet DEF Orderly
<1> HIDE DEF C, n
<1>3. DOMAIN C = 1..n /\ 1 \in 1..n
  BY <1>1, <1>2 DEF Ordering, n
<1>4. C[1] \in S
  BY <1>1, <1>3 DEF Ordering, n
<1>5. \A f \in S \ {C[1]} : Precedes(C[1], f)
  <2> SUFFICES ASSUME NEW f \in S, f # C[1] PROVE Precedes(C[1], f)
    OBVIOUS
  <2>1. PICK i \in DOMAIN C : C[i] = f
    BY <1>1 DEF Ordering
  <2>2. 1 < i
    BY <1>3, <2>1
  <2> QED
    BY <1>1, <1>3, <2>1, <2>2 DEF Ordering
<1>6. \E e \in S : \A f \in S \ {e} : Precedes(e, f)
  BY <1>4, <1>5
<1>7. Earliest(S) \in S /\ \A f \in S \ {Earliest(S)} : Precedes(Earliest(S), f)
  BY <1>6 DEF Earliest
<1> QED
  BY <1>7 DEF Orderly

-----------------------------------------------------------------------------
(* Answers.                                                                *)

\* Every nonempty set of naturals has a least element.
LEMMA LeastNatural ==
    ASSUME NEW T, T \subseteq Nat, T # {}
    PROVE  \E x \in T : \A y \in T : x <= y
<1> DEFINE R == OpToRel(<, Nat)
<1>1. IsWellFoundedOn(R, Nat)
  BY NatLessThanWellFounded
<1>2. \A x, y \in Nat : <<y, x>> \in R <=> y < x
  BY DEF OpToRel
<1> HIDE DEF R
<1>3. PICK x \in T : \A y \in T : ~ (<<y, x>> \in R)
  BY <1>1, WFMin
<1>4. \A y \in T : x \in Nat /\ y \in Nat /\ ~ (y < x)
  BY <1>2, <1>3
<1> QED
  BY <1>3, <1>4

\* Max is the greatest of numbers up to n.
LEMMA GreatestUpTo ==
    ASSUME NEW n \in Nat, NEW T, T \subseteq 0..n, T # {}
    PROVE  Max(T) \in T /\ \A y \in T : y <= Max(T)
<1> DEFINE U == {n - y : y \in T}
<1>1. U \subseteq Nat /\ U # {}
  <2>1. \A y \in T : n - y \in Nat
    OBVIOUS
  <2> QED
    BY <2>1
<1> HIDE DEF U
<1>2. PICK u \in U : \A v \in U : u <= v
  BY <1>1, LeastNatural
<1>3. PICK x \in T : u = n - x
  BY <1>2 DEF U
<1>4. \A y \in T : n - y \in U /\ x \in Int /\ y \in Int
  BY DEF U
<1>5. \A y \in T : x >= y
  <2> SUFFICES ASSUME NEW y \in T PROVE x >= y
    OBVIOUS
  <2>1. n - x <= n - y /\ x \in Int /\ y \in Int
    BY <1>2, <1>3, <1>4
  <2> QED
    BY <2>1
<1>6. \E z \in T : \A y \in T : z >= y
  BY <1>5
<1>7. Max(T) \in T /\ \A y \in T : Max(T) >= y
  BY <1>6 DEF Max
<1>8. \A y \in T : y \in Int
  OBVIOUS
<1> QED
  BY <1>7, <1>8

\* An ordering is a sequence.
LEMMA OrderingSequence ==
    ASSUME NEW S, NEW C, Ordering(C, S), Cardinality(S) \in Nat
    PROVE  /\ C \in Seq(S) /\ Len(C) = Cardinality(S) /\ DOMAIN C = 1..Cardinality(S)
           /\ Range(C) = S /\ \A i \in DOMAIN C : C[i] \in S
BY DEF Ordering, Range

\* The metas with a URL of a tab up to an event,
MetasUpTo(E, e, tab) == MetasWithUrl(UpTo(E, e), tab)

\* of which the latest is in the answer, or none is and the context knows it.
ContextFits(E, K, context, e) ==
    LET M == MetasUpTo(E, e, e.tab)
    IN  IF M \cap K = {} THEN context[e.tab] = UrlOf(Latest(M)) ELSE Latest(M) \in K

\* Then a relative URL is resolved against the page the tab was at.
LEMMA BaseIs ==
    ASSUME NEW E, Orderly(E), NEW K, K \subseteq E, NEW C, Ordering(C, K), Cardinality(K) \in Nat,
           NEW context, NEW i \in DOMAIN C, ContextFits(E, K, context, C[i])
    PROVE  BaseUrl(C, context, i) = UrlOf(Latest(MetasUpTo(E, C[i], C[i].tab)))
<1> DEFINE tab == C[i].tab
           M == MetasUpTo(E, C[i], tab)
           metas == {j \in 1..i : C[j] \in MetasWithUrl(Range(C), tab)}
           L == Latest(M)
<1>1. DOMAIN C = 1..Cardinality(K) /\ Range(C) = K /\ \A j \in DOMAIN C : C[j] \in K
  BY OrderingSequence
<1>2. BaseUrl(C, context, i) = IF metas # {} THEN C[Max(metas)].url ELSE context[tab]
  BY DEF BaseUrl
<1>3. \A j \in DOMAIN C : j <= i <=> ~ Precedes(C[i], C[j])
  <2> SUFFICES ASSUME NEW j \in DOMAIN C PROVE j <= i <=> ~ Precedes(C[i], C[j])
    OBVIOUS
  <2>1. C[i] \in E /\ C[j] \in E /\ i \in Nat /\ j \in Nat
    BY <1>1
  <2>2. i < j => Precedes(C[i], C[j])
    BY DEF Ordering
  <2>3. j < i => Precedes(C[j], C[i])
    BY DEF Ordering
  <2>4. j = i => ~ Precedes(C[i], C[j])
    BY <2>1, OrderTotal
  <2>5. Precedes(C[j], C[i]) => ~ Precedes(C[i], C[j])
    BY <2>1, OrderTotal
  <2> QED
    BY <2>1, <2>2, <2>3, <2>4, <2>5
<1>4. \A j : j \in metas <=> j \in DOMAIN C /\ C[j] \in M
  <2>1. \A j : j \in 1..i <=> j \in DOMAIN C /\ j <= i
    BY <1>1
  <2>2. \A j \in DOMAIN C : C[j] \in M <=> j <= i /\ C[j] \in MetasWithUrl(K, tab)
    <3>1. \A j \in DOMAIN C : C[j] \in UpTo(E, C[i]) <=> j <= i
      BY <1>1, <1>3 DEF UpTo
    <3> QED
      BY <1>1, <3>1 DEF MetasUpTo, MetasWithUrl
  <2> QED
    BY <1>1, <2>1, <2>2
<1>5. M \subseteq E /\ Orderly(M)
  <2>1. M \subseteq E
    BY DEF MetasUpTo, MetasWithUrl, UpTo
  <2> QED
    BY <2>1, OrderlyPart
<1>6. IF M \cap K = {} THEN context[tab] = UrlOf(L) ELSE L \in K
  BY DEF ContextFits
<1>7. M \cap K = {} <=> metas = {}
  <2>1. \A e \in K : \E j \in DOMAIN C : C[j] = e
    BY DEF Ordering
  <2> HIDE DEF M, metas
  <2> QED
    BY <1>1, <1>4, <2>1
<1> HIDE DEF M, metas, L
<1>8. CASE metas = {}
  BY <1>2, <1>6, <1>7, <1>8 DEF L, M, tab
<1>9. CASE metas # {}
  <2>1. L \in K /\ M # {}
    BY <1>6, <1>7, <1>9
  <2>2. L \in M /\ L # None /\ \A f \in M : f # L => Precedes(f, L)
    BY <1>5, <2>1, LatestIs DEF L
  <2>3. PICK j \in DOMAIN C : C[j] = L
    BY <2>1 DEF Ordering
  <2>4. j \in metas
    BY <1>4, <2>2, <2>3
  <2>5. \A k \in metas : j >= k
    <3> SUFFICES ASSUME NEW k \in metas PROVE j >= k
      OBVIOUS
    <3>1. k \in DOMAIN C /\ C[k] \in M /\ j \in Nat /\ k \in Nat
      BY <1>1, <1>4
    <3>2. ASSUME j < k PROVE FALSE
      <4>1. Precedes(L, C[k])
        BY <2>3, <3>1, <3>2 DEF Ordering
      <4>2. C[k] \in E /\ L \in E
        BY <1>5, <2>2, <3>1
      <4>3. C[k] # L /\ ~ Precedes(C[k], L)
        BY <4>1, <4>2, OrderTotal
      <4> QED
        BY <2>2, <3>1, <4>3
    <3> QED
      BY <3>1, <3>2
  <2>6. Max(metas) = j
    <3>1. Max(metas) \in metas /\ \A y \in metas : Max(metas) >= y
      BY <2>4, <2>5 DEF Max
    <3>2. \A k \in metas : k \in Nat
      BY <1>1, <1>4
    <3> QED
      BY <2>4, <2>5, <3>1, <3>2
  <2>7. BaseUrl(C, context, i) = L.url
    BY <1>2, <1>9, <2>3, <2>6
  <2> QED
    BY <2>2, <2>7 DEF UrlOf, L, M, tab
<1> QED
  BY <1>8, <1>9

\* The URLs of recordings,
Urls == {e.url : e \in UNION Recordings} \cup {None}

\* and what a player holds.
Item == [event : UNION Recordings, base : Urls, at : Urls]

\* The URL of the latest of some events is one of these.
LEMMA UrlTyped ==
    ASSUME NEW S, Orderly(S), S \subseteq UNION Recordings
    PROVE  UrlOf(Latest(S)) \in Urls
<1>1. CASE S = {}
  BY <1>1 DEF Latest, UrlOf, Urls
<1>2. CASE S # {}
  <2>1. Latest(S) \in S
    BY <1>2, LatestIs
  <2> QED
    BY <2>1 DEF UrlOf, Urls
<1> QED
  BY <1>1, <1>2

\* D delivers the first events of K, in order and resolved.
Run(D, K) ==
    /\ D \in Seq(Item) /\ Len(D) # 0
    /\ \A i \in 1..Len(D) : D[i].event \in K /\ D[i].base = D[i].at
    /\ \A i, j \in 1..Len(D) : i < j => Precedes(D[i].event, D[j].event)
    /\ \A e \in K, i \in 1..Len(D) : ~ Precedes(D[i].event, e) => \E j \in 1..i : D[j].event = e

\* An answer takes no more than there is, and what it needs.
LEMMA TakenIs ==
    ASSUME NEW C, Len(C) \in Nat, NEW tab, NEW needed \in Nat, needed # 0, NEW windowEnd, NEW limit \in Nat,
           Taken(C, tab, needed, windowEnd, limit) # 0
    PROVE  Taken(C, tab, needed, windowEnd, limit) \in needed..Len(C)
<1> DEFINE bound == Min({limit, Len(C)})
           fitting == {i \in 1..bound : /\ \A j \in needed..(i - 1) : C[j].at < windowEnd
                                        /\ Bytes(C, tab, i) <= MaxBytes}
           taken == Max({0} \union fitting)
<1>1. bound \in Nat /\ bound <= Len(C)
  <2>1. \E x \in {limit, Len(C)} : \A y \in {limit, Len(C)} : x <= y
    OBVIOUS
  <2> QED
    BY <2>1 DEF Min
<1>2. Taken(C, tab, needed, windowEnd, limit) = IF taken >= needed THEN taken ELSE 0
  BY DEF Taken
<1> HIDE DEF bound
<1>3. {0} \union fitting \subseteq 0..bound
  BY <1>1
<1> HIDE DEF fitting
<1>4. taken \in 0..bound
  BY <1>1, <1>3, GreatestUpTo
<1> HIDE DEF taken
<1> QED
  BY <1>1, <1>2, <1>4

-----------------------------------------------------------------------------
(* Which tab is in use.                                                    *)

\* The tab that was used last before an event, and after all of them,
PrevTab(B, tab, e) ==
    LET before == {f \in B : Precedes(f, e)}
    IN  IF before = {} THEN tab ELSE Latest(before).tab
LastTab(B, tab) == IF B = {} THEN tab ELSE Latest(B).tab

\* the uses that change it,
Turns(B, tab) == {e \in B : PrevTab(B, tab, e) \notin {None, e.tab}}

\* and a sequence that tells of some events in order.
Tells(switches, W) ==
    /\ switches \in Seq(W)
    /\ \A e \in W : \E k \in 1..Len(switches) : switches[k] = e
    /\ \A j, k \in 1..Len(switches) : j < k => Precedes(switches[j], switches[k])

\* The tabs there are.
Tabs == {e.tab : e \in UNION Recordings} \union {None}

\* The uses among the events of an answer.
UsedIn(D) == Activities({D[i].event : i \in 1..Len(D)})

\* What comes before a place in order.
LEMMA TabBeforeIs ==
    ASSUME NEW K, Orderly(K), NEW C, Ordering(C, K), Cardinality(K) \in Nat,
           NEW n \in 1..Len(C), NEW i \in 1..(n + 1), NEW tab, NEW B, B \subseteq K,
           \A f \in B : \E j \in 1..(i - 1) : C[j] = f,
           \A j \in 1..(i - 1) : C[j].kind = "activity" <=> C[j] \in B
    PROVE  TabBefore(C, tab, i) = LastTab(B, tab)
<1> DEFINE used == {j \in 1..(i - 1) : C[j].kind = "activity"}
           m == Max(used)
<1>1. Len(C) \in Nat /\ DOMAIN C = 1..Len(C) /\ \A j \in DOMAIN C : C[j] \in K
  BY OrderingSequence
<1>2. i \in Nat /\ n \in Nat /\ i - 1 \in 0..n /\ n <= Len(C)
  BY <1>1
<1>3. \A j \in 1..(i - 1) : j \in DOMAIN C
  BY <1>1, <1>2
<1>4. TabBefore(C, tab, i) = IF used = {} THEN tab ELSE C[m].tab
  BY DEF TabBefore
<1>5. CASE used = {}
  <2>1. B = {}
    BY <1>5
  <2> QED
    BY <1>4, <1>5, <2>1 DEF LastTab
<1>6. CASE used # {}
  <2>1. used \subseteq 0..n /\ used \subseteq 1..(i - 1)
    BY <1>2
  <2>2. m \in used /\ \A j \in used : j <= m
    BY <1>2, <1>6, <2>1, GreatestUpTo
  <2>3. m \in 1..(i - 1) /\ C[m] \in B
    BY <2>2
  <2> HIDE DEF m
  <2>4. ASSUME NEW f \in B, f # C[m] PROVE Precedes(f, C[m])
    <3>1. PICK j \in 1..(i - 1) : C[j] = f
      OBVIOUS
    <3>2. j \in used
      BY <3>1
    <3>3. j <= m /\ j # m
      BY <2>2, <2>4, <3>1, <3>2
    <3>4. j < m /\ j \in DOMAIN C /\ m \in DOMAIN C
      BY <1>2, <1>3, <2>3, <3>1, <3>3
    <3> QED
      BY <3>1, <3>4 DEF Ordering
  <2>5. Orderly(B)
    BY OrderlyPart
  <2>6. Latest(B) = C[m]
    BY <2>3, <2>4, <2>5, LatestOnly
  <2> QED
    BY <1>4, <1>6, <2>3, <2>6 DEF LastTab, m
<1> QED
  BY <1>5, <1>6

-----------------------------------------------------------------------------
(* What the server answers.                                                *)

\* What is known of the URLs of tabs before an answer.
ContextOf(E, position) == [t \in {e.tab : e \in E} |-> MetaContextBefore(E, position, t)]

\* How many events an answer needs is a number.
LEMMA NeededIs ==
    ASSUME NEW C, Len(C) \in Nat, DOMAIN C = 1..Len(C), NEW snapshot
    PROVE  /\ Needed(C, snapshot) \in Nat /\ Needed(C, snapshot) # 0
           /\ snapshot # None => /\ Needed(C, snapshot) >= 2
                                 /\ \A i \in DOMAIN C : C[i] = snapshot => i <= Needed(C, snapshot)
<1> DEFINE T == {2} \union {i \in DOMAIN C : C[i] = snapshot}
<1>1. CASE snapshot = None
  BY <1>1 DEF Needed
<1>2. CASE snapshot # None
  <2>1. T \subseteq 0..(Len(C) + 2) /\ 2 \in T /\ \A i \in DOMAIN C : C[i] = snapshot => i \in T
    OBVIOUS
  <2>2. Needed(C, snapshot) = Max(T)
    BY <1>2 DEF Needed
  <2> HIDE DEF T
  <2>3. Max(T) \in T /\ \A y \in T : y <= Max(T)
    BY <2>1, GreatestUpTo, Len(C) + 2 \in Nat
  <2>4. Max(T) \in Nat /\ Max(T) >= 2
    <3>1. \A y \in 0..(Len(C) + 2) : y \in Nat
      OBVIOUS
    <3>2. Max(T) \in 0..(Len(C) + 2)
      BY <2>1, <2>3
    <3> QED
      BY <2>1, <2>3, <3>1, <3>2
  <2> QED
    BY <1>2, <2>1, <2>2, <2>3, <2>4
<1> QED
  BY <1>1, <1>2

\* An answer that leaves nothing out.
Whole(D, K) == \A e \in K : \E i \in 1..Len(D) : D[i].event = e

\* An answer that is none of errors delivers the first events of its candidates.
LEMMA PayloadIs ==
    ASSUME NEW E, Orderly(E), E \subseteq UNION Recordings, NEW K, K \subseteq E,
           NEW tab, NEW snapshot, NEW windowEnd, NEW limit \in Nat, NEW position,
           \A e \in K : ContextFits(E, K, ContextOf(E, position), e),
           ChunkPayload(E, InOrder(K), tab, snapshot, windowEnd, limit, position) # NoAnswer
    PROVE  LET P == ChunkPayload(E, InOrder(K), tab, snapshot, windowEnd, limit, position)
           IN  /\ Run(P.events, K) /\ Len(P.events) >= Needed(InOrder(K), snapshot)
               /\ \A i \in 1..Len(P.events) : i \in DOMAIN InOrder(K) /\ P.events[i].event = InOrder(K)[i]
               /\ P.last = P.events[Len(P.events)].event
               /\ P.more \/ Whole(P.events, K)
<1> DEFINE C == InOrder(K)
           P == ChunkPayload(E, C, tab, snapshot, windowEnd, limit, position)
           needed == Needed(C, snapshot)
           n == Taken(C, tab, needed, windowEnd, limit)
           context == ContextOf(E, position)
           D == [i \in 1..n |-> Delivered(E, C, context, i)]
<1>1. Orderly(K) /\ Ordering(C, K) /\ Cardinality(K) \in Nat
  BY OrderlyPart, InOrderOrders
<1> HIDE DEF C
<1>2. /\ Len(C) \in Nat /\ Len(C) = Cardinality(K) /\ DOMAIN C = 1..Len(C) /\ \A i \in DOMAIN C : C[i] \in K
  BY <1>1, OrderingSequence
<1>3. n # 0
  <2>1. n = 0 => P = NoAnswer
    BY DEF ChunkPayload
  <2> QED
    BY <2>1 DEF C
<1>4. P.events = D /\ P.last = C[n] /\ (P.more <=> Len(C) > n)
  BY <1>3 DEF ChunkPayload, ContextOf
<1>5. needed \in Nat /\ needed # 0
  BY <1>2, NeededIs
<1> HIDE DEF needed
<1>6. n \in needed..Len(C)
  BY <1>2, <1>3, <1>5, TakenIs
<1> HIDE DEF P, n
<1>7. n \in Nat /\ 1..n \subseteq DOMAIN C /\ needed <= n
  BY <1>2, <1>5, <1>6
<1>8. \A i \in 1..n : D[i] \in Item /\ D[i].event = C[i] /\ D[i].base = D[i].at
  <2> SUFFICES ASSUME NEW i \in 1..n PROVE D[i] \in Item /\ D[i].event = C[i] /\ D[i].base = D[i].at
    OBVIOUS
  <2>1. i \in DOMAIN C /\ C[i] \in K /\ C[i] \in UNION Recordings
    BY <1>2, <1>7
  <2> DEFINE at == UrlOf(Latest(MetasUpTo(E, C[i], C[i].tab)))
  <2>2. at \in Urls
    <3>1. MetasUpTo(E, C[i], C[i].tab) \subseteq E
      BY DEF MetasUpTo, MetasWithUrl, UpTo
    <3> QED
      BY <3>1, OrderlyPart, UrlTyped
  <2>3. BaseUrl(C, context, i) = at
    BY <1>1, <2>1, BaseIs
  <2>4. D[i] = [event |-> C[i], base |-> BaseUrl(C, context, i), at |-> at]
    BY DEF Delivered, MetasUpTo
  <2> HIDE DEF at, D
  <2> QED
    BY <2>1, <2>2, <2>3, <2>4 DEF Item
<1>9. D \in Seq(Item) /\ Len(D) = n
  BY <1>7, <1>8
<1> HIDE DEF D
<1>10. \A i, j \in 1..Len(D) : i < j => Precedes(D[i].event, D[j].event)
  BY <1>1, <1>7, <1>8, <1>9 DEF Ordering
<1>11. ASSUME NEW e \in K, NEW i \in 1..Len(D), ~ Precedes(D[i].event, e)
       PROVE  \E j \in 1..i : D[j].event = e
  <2>1. PICK j \in DOMAIN C : C[j] = e
    BY <1>1 DEF Ordering
  <2>2. ~ (i < j)
    BY <1>1, <1>7, <1>8, <1>9, <1>11, <2>1 DEF Ordering
  <2>3. j \in 1..i /\ j \in 1..n
    BY <1>2, <1>7, <1>9, <2>1, <2>2
  <2> QED
    BY <1>8, <2>1, <2>3
<1>12. Run(D, K)
  BY <1>2, <1>3, <1>7, <1>8, <1>9, <1>10, <1>11 DEF Run
<1>13. ASSUME ~ P.more PROVE Whole(D, K)
  <2> SUFFICES ASSUME NEW e \in K PROVE \E i \in 1..Len(D) : D[i].event = e
    BY DEF Whole
  <2>1. n = Len(C)
    BY <1>2, <1>4, <1>5, <1>6, <1>7, <1>13
  <2>2. PICK i \in DOMAIN C : C[i] = e
    BY <1>1 DEF Ordering
  <2> QED
    BY <1>2, <1>8, <1>9, <2>1, <2>2
<1> QED
  BY <1>4, <1>7, <1>8, <1>9, <1>12, <1>13, <1>3 DEF P, C, needed

\* An answer tells of the uses in it that change the tab.
LEMMA PayloadTabs ==
    ASSUME NEW E, Orderly(E), NEW K, K \subseteq E,
           NEW tab, NEW snapshot, NEW windowEnd, NEW limit \in Nat, NEW position,
           ChunkPayload(E, InOrder(K), tab, snapshot, windowEnd, limit, position) # NoAnswer
    PROVE  LET P == ChunkPayload(E, InOrder(K), tab, snapshot, windowEnd, limit, position)
               B == UsedIn(P.events)
           IN  Tells(P.switches, Turns(B, tab)) /\ P.tab = LastTab(B, tab)
<1> DEFINE C == InOrder(K)
           P == ChunkPayload(E, C, tab, snapshot, windowEnd, limit, position)
           needed == Needed(C, snapshot)
           n == Taken(C, tab, needed, windowEnd, limit)
           context == ContextOf(E, position)
           D == [i \in 1..n |-> Delivered(E, C, context, i)]
           switching == {C[i] : i \in {j \in 1..n : SwitchesAt(C, tab, j)}}
           B == UsedIn(P.events)
<1>1. Orderly(K) /\ Ordering(C, K) /\ Cardinality(K) \in Nat
  BY OrderlyPart, InOrderOrders
<1> HIDE DEF C
<1>2. /\ Len(C) \in Nat /\ Len(C) = Cardinality(K) /\ DOMAIN C = 1..Len(C) /\ \A i \in DOMAIN C : C[i] \in K
  BY <1>1, OrderingSequence
<1>3. n # 0
  <2>1. n = 0 => P = NoAnswer
    BY DEF ChunkPayload
  <2> QED
    BY <2>1 DEF C
<1>4. /\ P.events = D /\ P.switches = InOrder(switching) /\ P.tab = TabBefore(C, tab, n + 1)
  BY <1>3 DEF ChunkPayload, ContextOf
<1>5. n \in 1..Len(C)
  <2>1. needed \in Nat /\ needed # 0
    BY <1>2, NeededIs
  <2> HIDE DEF needed
  <2>2. n \in needed..Len(C)
    BY <1>2, <1>3, <2>1, TakenIs
  <2> QED
    BY <1>2, <2>1, <2>2
<1> HIDE DEF P, n
<1>6. Len(D) = n /\ \A i \in 1..n : D[i].event = C[i]
  BY <1>2, <1>5 DEF Delivered
<1> HIDE DEF D
<1>7. /\ \A f \in B : f.kind = "activity" /\ \E i \in 1..n : C[i] = f
      /\ \A i \in 1..n : C[i].kind = "activity" => C[i] \in B
  BY <1>4, <1>6 DEF UsedIn, Activities
<1>8. \A i \in 1..n : i \in DOMAIN C
  BY <1>2, <1>5
<1>9. B \subseteq K
  BY <1>2, <1>7, <1>8
<1> HIDE DEF B
<1>10. P.tab = LastTab(B, tab)
  <2> DEFINE i == n + 1
  <2>1. i \in 1..(n + 1) /\ i - 1 = n
    BY <1>2, <1>5
  <2>2. \A f \in B : \E j \in 1..(i - 1) : C[j] = f
    BY <1>7, <2>1
  <2>3. \A j \in 1..(i - 1) : C[j].kind = "activity" <=> C[j] \in B
    BY <1>7, <2>1
  <2>4. P.tab = TabBefore(C, tab, i)
    BY <1>4
  <2> HIDE DEF i
  <2>5. TabBefore(C, tab, i) = LastTab(B, tab)
    BY <1>1, <1>5, <1>9, <2>1, <2>2, <2>3, TabBeforeIs
  <2> QED
    BY <2>4, <2>5
<1>11. ASSUME NEW i \in 1..n PROVE TabBefore(C, tab, i) = PrevTab(B, tab, C[i])
  <2> DEFINE A == {f \in B : Precedes(f, C[i])}
  <2>1. ASSUME NEW j \in 1..n PROVE Precedes(C[j], C[i]) <=> j < i
    <3>1. i \in DOMAIN C /\ j \in DOMAIN C /\ i \in Nat /\ j \in Nat /\ C[i] \in K /\ C[j] \in K
      BY <1>2, <1>5, <1>8
    <3>2. /\ j < i => Precedes(C[j], C[i])
          /\ i < j => Precedes(C[i], C[j])
      BY <1>1, <3>1 DEF Ordering
    <3>3. /\ Precedes(C[i], C[j]) => ~ Precedes(C[j], C[i])
          /\ ~ Precedes(C[i], C[i])
      BY <1>1, <3>1, OrderTotal
    <3>4. CASE i < j
      BY <3>1, <3>2, <3>3, <3>4
    <3>5. CASE i = j
      BY <3>1, <3>3, <3>5
    <3>6. CASE j < i
      BY <3>2, <3>6
    <3> QED
      BY <3>1, <3>4, <3>5, <3>6
  <2>2. \A j \in 1..(i - 1) : j \in 1..n /\ j < i
    BY <1>2, <1>5
  <2>3. \A j \in 1..n : j < i => j \in 1..(i - 1)
    BY <1>2, <1>5
  <2>4. \A f \in A : \E j \in 1..(i - 1) : C[j] = f
    BY <1>7, <2>1, <2>3
  <2>5. \A j \in 1..(i - 1) : C[j].kind = "activity" <=> C[j] \in A
    BY <1>7, <2>1, <2>2
  <2>6. A \subseteq K /\ i \in 1..(n + 1)
    BY <1>2, <1>5, <1>9
  <2> HIDE DEF A
  <2>7. TabBefore(C, tab, i) = LastTab(A, tab)
    BY <1>1, <1>5, <2>4, <2>5, <2>6, TabBeforeIs
  <2> QED
    BY <2>7 DEF LastTab, PrevTab, A
<1>12. switching = Turns(B, tab)
  <2>1. ASSUME NEW i \in 1..n PROVE SwitchesAt(C, tab, i) <=> C[i] \in Turns(B, tab)
    BY <1>7, <1>11 DEF SwitchesAt, Turns
  <2>2. \A f \in Turns(B, tab) : \E i \in 1..n : C[i] = f
    BY <1>7 DEF Turns
  <2> QED
    BY <2>1, <2>2
<1> HIDE DEF switching
<1>13. Turns(B, tab) \subseteq K
  BY <1>9 DEF Turns
<1>14. Tells(InOrder(switching), Turns(B, tab))
  <2> DEFINE W == Turns(B, tab)
  <2>1. Orderly(W)
    BY <1>1, <1>13, OrderlyPart
  <2> HIDE DEF W
  <2>2. Ordering(InOrder(W), W) /\ Cardinality(W) \in Nat
    BY <2>1, InOrderOrders
  <2> DEFINE I == InOrder(W)
  <2> HIDE DEF I
  <2>3. I \in Seq(W) /\ DOMAIN I = 1..Len(I)
    BY <2>2, OrderingSequence DEF I
  <2>4. Tells(I, W)
    BY <2>2, <2>3 DEF Ordering, Tells, I
  <2> QED
    BY <1>12, <2>4 DEF I, W
<1> QED
  BY <1>4, <1>10, <1>14 DEF P, B, C

\* What is stored can be put in order.
StoredOrderly == Orderly(stored) /\ stored \subseteq UNION Recordings

\* So can the part that is older than a watermark.
LEMMA OpenedOrderly ==
    ASSUME StoredOrderly, NEW w
    PROVE  Orderly(OrderedEvents(w)) /\ OrderedEvents(w) \subseteq UNION Recordings
<1>1. OrderedEvents(w) \subseteq stored
  BY DEF OrderedEvents
<1> QED
  BY <1>1, OrderlyPart DEF StoredOrderly

\* What an answer goes on with.
Continues(cursor, w, e) == cursor = None \/ (cursor.watermark = w /\ cursor.after = e)

\* and the tab it goes on with.
Carries(cursor, tab) == cursor = None \/ cursor.tab = tab

\* Whether an answer D, after a tab, to a cursor with the target or without, is the last of K.
Ending(cursor, w, tab, target, D, K) ==
    w \in Nat /\ tab \in Tabs /\ target \in Nat \union {None} =>
      /\ cursor = None => Whole(D, K)
      /\ cursor # None => cursor \in Cursors /\ cursor.target = target

\* There is a next answer where one leaves something out.
LEMMA EndingIs ==
    ASSUME StreamAssumption, NEW K, Orderly(K), K \subseteq UNION Recordings, NEW P, Run(P.events, K),
           P.last = P.events[Len(P.events)].event, P.more \/ Whole(P.events, K), NEW tab,
           P.tab = LastTab(UsedIn(P.events), tab), NEW w, NEW target
    PROVE  Ending(Cursor(w, P, target), w, tab, target, P.events, K)
<1> DEFINE B == UsedIn(P.events)
           cursor == Cursor(w, P, target)
<1> SUFFICES ASSUME w \in Nat, tab \in Tabs, target \in Nat \union {None}
             PROVE  /\ cursor = None => Whole(P.events, K)
                    /\ cursor # None => cursor \in Cursors /\ cursor.target = target
  BY DEF Ending
<1>1. \A i \in 1..Len(P.events) : P.events[i].event \in K
  BY DEF Run
<1>2. P.last \in UNION Recordings
  <2>1. Len(P.events) \in 1..Len(P.events)
    BY DEF Run
  <2> QED
    BY <1>1, <2>1
<1>3. P.tab \in Tabs
  <2>1. B \subseteq K
    BY <1>1 DEF UsedIn, Activities
  <2> HIDE DEF B
  <2>2. B # {} => Latest(B) \in K
    BY <2>1, OrderlyPart, LatestIs
  <2> QED
    BY <2>2 DEF LastTab, Tabs, B
<1>4. CASE P.more
  <2> DEFINE record == [watermark |-> w, after |-> P.last, tab |-> P.tab, target |-> target]
  <2>1. record \in Cursors /\ record.target = target
    BY <1>2, <1>3 DEF Cursors, Tabs
  <2>2. cursor = record
    BY <1>4 DEF Cursor
  <2>3. cursor # None
    BY <2>1, <2>2 DEF StreamAssumption
  <2> HIDE DEF record, cursor
  <2> QED
    BY <2>1, <2>2, <2>3
<1>5. CASE ~ P.more
  <2>1. cursor = None
    BY <1>5 DEF Cursor
  <2> QED
    BY <1>5, <2>1
<1> QED
  BY <1>4, <1>5

\* A chunk delivers the events after its cursor.
LEMMA ChunkIs ==
    ASSUME StreamAssumption, StoredOrderly, NEW cursor,
           cursor.after \in OrderedEvents(cursor.watermark), NextChunk(cursor) # NoAnswer
    PROVE  LET chunk == NextChunk(cursor)
           IN  /\ Run(chunk.events, PositionAfter(OrderedEvents(cursor.watermark), cursor.after))
               /\ chunk.through = chunk.events[Len(chunk.events)].event.at
               /\ Continues(chunk.cursor, cursor.watermark, chunk.events[Len(chunk.events)].event)
               /\ Tells(chunk.switches, Turns(UsedIn(chunk.events), cursor.tab))
               /\ Carries(chunk.cursor, LastTab(UsedIn(chunk.events), cursor.tab))
               /\ Ending(chunk.cursor, cursor.watermark, cursor.tab, cursor.target, chunk.events,
                         PositionAfter(OrderedEvents(cursor.watermark), cursor.after))
               /\ chunk.ready = IF cursor.target = None THEN None
                                ELSE TargetBoundaryReady(OrderedEvents(cursor.watermark),
                                       chunk.events[Len(chunk.events)].event, cursor.target)
<1> DEFINE E == OrderedEvents(cursor.watermark)
           after == cursor.after
           K == PositionAfter(E, after)
           end == Head(InOrder(K)).at + ChunkWindow
           P == ChunkPayload(E, InOrder(K), cursor.tab, None, end, ChunkLimit, after)
           chunk == NextChunk(cursor)
<1>1. Orderly(E) /\ E \subseteq UNION Recordings /\ K \subseteq E /\ after \in E /\ ChunkLimit \in Nat
  BY OpenedOrderly DEF PositionAfter, StreamAssumption
<1>2. after # None
  BY <1>1 DEF Orderly
<1>3. K = {e \in E : Precedes(after, e)}
  BY <1>2 DEF PositionAfter
<1>4. chunk = IF P = NoAnswer THEN NoAnswer
              ELSE Answer(cursor.watermark, P, cursor.target,
                     IF cursor.target = None THEN None
                     ELSE TargetBoundaryReady(E, P.last, cursor.target), None)
  BY Zenon DEF NextChunk
<1>5. P # NoAnswer
  BY <1>4
<1> HIDE DEF E, K, after, end
<1>6. ASSUME NEW e \in K PROVE ContextFits(E, K, ContextOf(E, after), e)
  <2> DEFINE M == MetasUpTo(E, e, e.tab)
             N == MetasWithUrl(UpTo(E, after), e.tab)
  <2>1. e \in E /\ Precedes(after, e)
    BY <1>3
  <2>2. ContextOf(E, after)[e.tab] = UrlOf(Latest(N))
    BY <1>2, <2>1 DEF ContextOf, MetaContextBefore
  <2>3. CASE M \cap K = {}
    <3>1. \A f \in E : ~ Precedes(after, f) => ~ Precedes(e, f)
      BY <1>1, <2>1, OrderTransitive, OrderTotal
    <3>2. M = N
      BY <1>3, <2>3, <3>1 DEF MetasUpTo, MetasWithUrl, UpTo
    <3> QED
      BY <2>2, <2>3, <3>2 DEF ContextFits
  <2>4. CASE M \cap K # {}
    <3>1. M \subseteq E /\ Orderly(M)
      <4>1. M \subseteq E
        BY DEF MetasUpTo, MetasWithUrl, UpTo
      <4> QED
        BY <1>1, <4>1, OrderlyPart
    <3>2. PICK f : f \in M /\ f \in K
      BY <2>4
    <3> HIDE DEF M
    <3>3. Latest(M) \in M /\ (f # Latest(M) => Precedes(f, Latest(M)))
      BY <3>1, <3>2, LatestIs
    <3>4. Precedes(after, Latest(M))
      <4>1. f \in E /\ Precedes(after, f) /\ Latest(M) \in E
        BY <1>3, <3>1, <3>2, <3>3
      <4> QED
        BY <1>1, <3>3, <4>1, OrderTransitive, OrderTotal
    <3>5. Latest(M) \in K
      BY <1>3, <3>1, <3>3, <3>4
    <3> QED
      BY <2>4, <3>5 DEF ContextFits, M
  <2> QED
    BY <2>3, <2>4
<1>7. /\ Run(P.events, K) /\ P.last = P.events[Len(P.events)].event
      /\ P.more \/ Whole(P.events, K)
  BY <1>1, <1>5, <1>6, PayloadIs
<1> DEFINE ready == IF cursor.target = None THEN None ELSE TargetBoundaryReady(E, P.last, cursor.target)
<1>8. /\ chunk.events = P.events /\ chunk.switches = P.switches /\ chunk.through = P.last.at
      /\ chunk.cursor = Cursor(cursor.watermark, P, cursor.target) /\ chunk.ready = ready
  <2>1. chunk = Answer(cursor.watermark, P, cursor.target, ready, None)
    BY <1>4, <1>5
  <2> HIDE DEF P, chunk, ready
  <2> QED
    BY <2>1 DEF Answer
<1>9. /\ Continues(Cursor(cursor.watermark, P, cursor.target), cursor.watermark, P.last)
      /\ Carries(Cursor(cursor.watermark, P, cursor.target), P.tab)
  <2> HIDE DEF P
  <2> QED
    BY DEF Cursor, Continues, Carries
<1>10. Tells(P.switches, Turns(UsedIn(P.events), cursor.tab)) /\ P.tab = LastTab(UsedIn(P.events), cursor.tab)
  BY <1>1, <1>5, PayloadTabs
<1> HIDE DEF P, chunk
<1>11. Ending(chunk.cursor, cursor.watermark, cursor.tab, cursor.target, chunk.events, K)
  <2>1. Orderly(K) /\ K \subseteq UNION Recordings
    BY <1>1, OrderlyPart
  <2>2. P.tab = LastTab(UsedIn(P.events), cursor.tab)
    BY <1>10
  <2>3. Ending(Cursor(cursor.watermark, P, cursor.target), cursor.watermark, cursor.tab, cursor.target, P.events, K)
    BY <1>7, <2>1, <2>2, EndingIs
  <2> QED
    BY <1>8, <2>3
<1>12. chunk.ready = IF cursor.target = None THEN None
                     ELSE TargetBoundaryReady(E, chunk.events[Len(chunk.events)].event, cursor.target)
  BY <1>7, <1>8
<1> HIDE DEF ready
<1> QED
  BY <1>7, <1>8, <1>9, <1>10, <1>11, <1>12 DEF E, K, after, chunk

\* A bootstrap delivers the recording from its first event.
LEMMA BootstrapIs ==
    ASSUME StreamAssumption, StoredOrderly, NEW w, Snapshots(OrderedEvents(w)) # {},
           Bootstrap(w) # NoAnswer
    PROVE  LET reply == Bootstrap(w)
           IN  /\ Run(reply.events, OrderedEvents(w)) /\ Len(reply.events) >= 2
               /\ reply.through = reply.events[Len(reply.events)].event.at
               /\ Continues(reply.cursor, w, reply.events[Len(reply.events)].event)
               /\ reply.start.from = 0 /\ reply.start.duration = Latest(OrderedEvents(w)).at
               /\ Tells(reply.switches, Turns(UsedIn(reply.events), None))
               /\ Carries(reply.cursor, LastTab(UsedIn(reply.events), None))
               /\ Ending(reply.cursor, w, None, None, reply.events, OrderedEvents(w))
               /\ Activities(OrderedEvents(w)) # {}
                     => reply.start.initialTab = Earliest(Activities(OrderedEvents(w))).tab
<1> DEFINE E == OrderedEvents(w)
           first == Earliest(Snapshots(E))
           P == ChunkPayload(E, InOrder(E), None, first, BootstrapWindow, BootstrapLimit, None)
           tab == FirstActivityTab(E)
           reply == Bootstrap(w)
           initialTab == IF tab # None THEN tab ELSE Head(InOrder(E)).tab
           start == [initialTab |-> initialTab, from |-> 0, duration |-> Latest(E).at]
<1>1. Orderly(E) /\ E \subseteq UNION Recordings /\ BootstrapLimit \in Nat
  BY OpenedOrderly DEF StreamAssumption
<1>2. first # None
  <2>1. Snapshots(E) \subseteq E /\ Snapshots(E) # {}
    BY DEF Snapshots
  <2> QED
    BY <1>1, <2>1, OrderlyPart, EarliestIs
<1>3. reply = IF P = NoAnswer THEN NoAnswer ELSE Answer(w, P, None, None, start)
  BY Zenon DEF Bootstrap
<1>4. P # NoAnswer
  BY <1>3
<1> HIDE DEF E, first
<1>5. ASSUME NEW e \in E PROVE ContextFits(E, E, ContextOf(E, None), e)
  <2> DEFINE M == MetasUpTo(E, e, e.tab)
  <2>1. M \subseteq E /\ Orderly(M)
    <3>1. M \subseteq E
      BY DEF MetasUpTo, MetasWithUrl, UpTo
    <3> QED
      BY <1>1, <3>1, OrderlyPart
  <2>2. ContextOf(E, None)[e.tab] = None
    BY DEF ContextOf, MetaContextBefore
  <2> HIDE DEF M
  <2>3. M = {} => UrlOf(Latest(M)) = None
    BY DEF Latest, UrlOf
  <2>4. M # {} => Latest(M) \in E /\ M \cap E # {}
    BY <2>1, LatestIs
  <2> QED
    BY <2>2, <2>3, <2>4 DEF ContextFits, M
<1>6. /\ Run(P.events, E) /\ P.last = P.events[Len(P.events)].event
      /\ Len(P.events) >= Needed(InOrder(E), first) /\ (P.more \/ Whole(P.events, E))
  <2>1. \A e \in E : ContextFits(E, E, ContextOf(E, None), e)
    BY <1>5
  <2>2. E \subseteq E
    OBVIOUS
  <2> QED
    BY <1>1, <1>4, <2>1, <2>2, PayloadIs, SMTT(60)
<1>7. Needed(InOrder(E), first) \in Nat /\ Needed(InOrder(E), first) >= 2
  <2>1. Ordering(InOrder(E), E) /\ Cardinality(E) \in Nat
    BY <1>1, InOrderOrders
  <2>2. Len(InOrder(E)) \in Nat /\ DOMAIN InOrder(E) = 1..Len(InOrder(E))
    BY <2>1, OrderingSequence
  <2> QED
    BY <1>2, <2>2, NeededIs
<1>8. Len(P.events) \in Nat
  BY <1>6 DEF Run
<1>9. /\ reply.events = P.events /\ reply.through = P.last.at /\ reply.cursor = Cursor(w, P, None)
      /\ reply.switches = P.switches
      /\ reply.start = start
  <2> HIDE DEF P, reply, start
  <2> QED
    BY <1>3, <1>4 DEF Answer
<1>10. Continues(Cursor(w, P, None), w, P.last) /\ Carries(Cursor(w, P, None), P.tab)
  <2> HIDE DEF P
  <2> QED
    BY DEF Cursor, Continues, Carries
<1>11. reply.start.from = 0 /\ reply.start.duration = Latest(E).at /\ reply.start.initialTab = initialTab
  <2> HIDE DEF reply, initialTab
  <2> QED
    BY <1>9
<1>12. Tells(P.switches, Turns(UsedIn(P.events), None)) /\ P.tab = LastTab(UsedIn(P.events), None)
  BY <1>1, <1>4, PayloadTabs
<1>13. ASSUME Activities(E) # {} PROVE initialTab = Earliest(Activities(E)).tab
  <2>1. Activities(E) \subseteq E
    BY DEF Activities
  <2>2. Earliest(Activities(E)) \in E /\ Earliest(Activities(E)) # None
    BY <1>1, <1>13, <2>1, OrderlyPart, EarliestIs
  <2>3. Earliest(Activities(E)).tab # None
    BY <1>1, <2>2 DEF StreamAssumption
  <2> QED
    BY <2>2, <2>3 DEF FirstActivityTab, TabOf
<1> HIDE DEF P, reply, start, initialTab
<1>14. Ending(reply.cursor, w, None, None, reply.events, E)
  <2>1. Ending(Cursor(w, P, None), w, None, None, P.events, E)
    BY <1>1, <1>6, <1>12, EndingIs
  <2> QED
    BY <1>9, <2>1
<1> QED
  BY <1>6, <1>7, <1>8, <1>9, <1>10, <1>11, <1>12, <1>13, <1>14 DEF E, reply

\* Where a seek starts.
SeekSnapshot(E, requested) ==
    LET target == Min({requested, Latest(E).at})
        prior == LatestReplayableSnapshotAt(E, target)
    IN  IF prior # None THEN prior ELSE Earliest(Snapshots(E))

\* Where it ends.
SeekTarget(E, requested) ==
    Max({Min({requested, Latest(E).at}), SeekSnapshot(E, requested).at})

\* A seek starts at a snapshot.
LEMMA SnapshotIs ==
    ASSUME NEW E, Orderly(E), Snapshots(E) # {}, NEW requested
    PROVE  SeekSnapshot(E, requested) \in Snapshots(E)
<1> DEFINE target == Min({requested, Latest(E).at})
           S == {e \in Snapshots(E) : e.at <= target}
<1>1. Snapshots(E) \subseteq E
  BY DEF Snapshots
<1>2. S \subseteq Snapshots(E)
  OBVIOUS
<1> HIDE DEF target
<1>3. CASE S = {}
  <2>1. Latest(S) = None
    BY <1>3 DEF Latest
  <2>2. SeekSnapshot(E, requested) = Earliest(Snapshots(E))
    BY <2>1 DEF SeekSnapshot, LatestReplayableSnapshotAt, target
  <2> QED
    BY <1>1, <2>2, OrderlyPart, EarliestIs
<1>4. CASE S # {}
  <2>1. Latest(S) \in S /\ Latest(S) # None
    BY <1>1, <1>2, <1>4, OrderlyPart, LatestIs
  <2>2. SeekSnapshot(E, requested) = Latest(S)
    BY <2>1 DEF SeekSnapshot, LatestReplayableSnapshotAt, target
  <2> QED
    BY <1>2, <2>1, <2>2
<1> QED
  BY <1>3, <1>4

\* The Meta before it is the last of its tab.
LEMMA MetaIs ==
    ASSUME NEW E, Orderly(E), NEW snapshot \in E, NEW meta, meta = LatestInitializerMetaAt(E, snapshot),
           meta # None
    PROVE  /\ meta \in E /\ Precedes(meta, snapshot)
           /\ \A e \in E : e.kind = "meta" /\ e.tab = meta.tab /\ Precedes(e, snapshot) /\ e # meta
                              => Precedes(e, meta)
           /\ \A e \in E : e.kind = "meta" /\ e.tab = snapshot.tab /\ Precedes(e, snapshot)
                              => meta.tab = snapshot.tab
<1> DEFINE before == {e \in E : e.kind = "meta" /\ Precedes(e, snapshot)}
           sameTab == {e \in before : e.tab = snapshot.tab}
<1>1. meta = Latest(IF sameTab # {} THEN sameTab ELSE before)
  BY DEF LatestInitializerMetaAt
<1>2. Orderly(before) /\ Orderly(sameTab)
  BY OrderlyPart
<1>3. CASE sameTab # {}
  <2> HIDE DEF sameTab
  <2>1. meta \in sameTab /\ \A f \in sameTab : f # meta => Precedes(f, meta)
    BY <1>1, <1>2, <1>3, LatestIs
  <2> QED
    BY <2>1 DEF sameTab
<1>4. CASE sameTab = {}
  <2>1. before # {}
    BY <1>1, <1>4 DEF Latest
  <2>2. meta = Latest(before)
    BY <1>1, <1>4
  <2> HIDE DEF before
  <2>3. meta \in before /\ \A f \in before : f # meta => Precedes(f, meta)
    BY <1>2, <2>1, <2>2, LatestIs
  <2> QED
    BY <1>4, <2>3 DEF before
<1> QED
  BY <1>3, <1>4

\* What a seek delivers: a Meta and all from the snapshot on.
SeekEvents(E, snapshot) ==
    {e \in E : ~ Precedes(e, snapshot)} \union {LatestInitializerMetaAt(E, snapshot)}

\* The URLs of tabs before it are known from before the snapshot.
LEMMA SeekContext ==
    ASSUME NEW E, Orderly(E), NEW snapshot \in Snapshots(E), LatestInitializerMetaAt(E, snapshot) # None,
           NEW e \in SeekEvents(E, snapshot)
    PROVE  ContextFits(E, SeekEvents(E, snapshot), ContextOf(E, snapshot), e)
<1> DEFINE meta == LatestInitializerMetaAt(E, snapshot)
           K == SeekEvents(E, snapshot)
           M == MetasUpTo(E, e, e.tab)
           N == MetasWithUrl(UpTo(E, snapshot), e.tab)
<1>1. snapshot \in E /\ snapshot.kind = "snapshot" /\ snapshot # None
  BY DEF Snapshots, Orderly
<1>2. /\ meta \in E /\ Precedes(meta, snapshot)
      /\ \A f \in E : f.kind = "meta" /\ f.tab = meta.tab /\ Precedes(f, snapshot) /\ f # meta
                         => Precedes(f, meta)
  BY <1>1, MetaIs
<1>3. \A f : f \in K <=> f = meta \/ (f \in E /\ ~ Precedes(f, snapshot))
  BY DEF SeekEvents
<1> HIDE DEF meta, K
<1>4. e \in E /\ K \subseteq E
  BY <1>2, <1>3 DEF K
<1>5. ContextOf(E, snapshot)[e.tab] = UrlOf(Latest(N))
  BY <1>1, <1>4 DEF ContextOf, MetaContextBefore
<1>6. /\ \A f : f \in M <=> f \in E /\ f.kind = "meta" /\ f.tab = e.tab /\ f.url # None /\ ~ Precedes(e, f)
      /\ \A f : f \in N <=> f \in E /\ f.kind = "meta" /\ f.tab = e.tab /\ f.url # None /\ ~ Precedes(snapshot, f)
  BY DEF MetasUpTo, MetasWithUrl, UpTo
<1>7. M \subseteq E /\ Orderly(M)
  <2>1. M \subseteq E
    BY <1>6
  <2> QED
    BY <2>1, OrderlyPart
<1> HIDE DEF M, N
<1>8. CASE M \cap K = {}
  <2>1. ASSUME NEW f \in M PROVE f \in N
    <3>1. f \in E /\ f \notin K
      BY <1>6, <1>8
    <3>2. Precedes(f, snapshot)
      BY <1>3, <3>1
    <3>3. ~ Precedes(snapshot, f)
      BY <1>1, <3>1, <3>2, OrderTotal
    <3> QED
      BY <1>6, <3>3
  <2>2. ASSUME NEW f \in N PROVE f \in M
    <3>1. f \in E /\ f.kind = "meta" /\ f.tab = e.tab /\ f.url # None /\ ~ Precedes(snapshot, f)
      BY <1>6
    <3>2. Precedes(f, snapshot)
      <4>1. f # snapshot
        BY <1>1, <3>1
      <4> QED
        BY <1>1, <3>1, <4>1, OrderTotal
    <3>3. CASE ~ Precedes(e, snapshot)
      <4>1. ~ Precedes(e, f)
        <5>1. Precedes(f, e)
          BY <1>1, <1>4, <3>1, <3>2, <3>3, OrderTransitive
        <5> QED
          BY <1>4, <3>1, <5>1, OrderTotal
      <4> QED
        BY <1>6, <3>1, <4>1
    <3>4. CASE Precedes(e, snapshot)
      <4>1. e = meta
        BY <1>3, <3>4 DEF K
      <4>2. f = meta \/ Precedes(f, meta)
        BY <1>2, <3>1, <3>2, <4>1
      <4>3. ~ Precedes(e, f)
        BY <1>4, <3>1, <4>1, <4>2, OrderTotal
      <4> QED
        BY <1>6, <3>1, <4>3
    <3> QED
      BY <3>3, <3>4
  <2>3. M = N
    BY <2>1, <2>2
  <2> QED
    BY <1>5, <1>8, <2>3 DEF ContextFits, M, K
<1>9. CASE M \cap K # {}
  <2> DEFINE L == Latest(M)
  <2>1. PICK f : f \in M /\ f \in K
    BY <1>9
  <2>2. L \in M /\ (f = L \/ Precedes(f, L))
    BY <1>7, <2>1, LatestIs
  <2> HIDE DEF L
  <2>3. ASSUME ~ Precedes(L, snapshot) PROVE L \in K
    BY <1>3, <1>7, <2>2, <2>3
  <2>4. ASSUME Precedes(L, snapshot) PROVE L \in K
    <3>1. L \in E /\ f \in E /\ L.kind = "meta" /\ L.tab = f.tab
      BY <1>6, <2>1, <2>2
    <3>2. Precedes(f, snapshot)
      BY <1>1, <2>2, <2>4, <3>1, OrderTransitive, OrderTotal
    <3>3. f = meta
      BY <1>3, <2>1, <3>2
    <3>4. L = meta
      <4>1. L # meta => Precedes(L, meta)
        BY <1>2, <2>4, <3>1, <3>3
      <4> QED
        BY <2>2, <3>1, <3>3, <4>1, OrderTotal
    <3> QED
      BY <1>3, <3>4
  <2>5. L \in K
    BY <2>3, <2>4
  <2> QED
    BY <1>9, <2>5 DEF ContextFits, M, K, L
<1> QED
  BY <1>8, <1>9

\* A seek delivers the recording from a snapshot on.
LEMMA SeekIs ==
    ASSUME StreamAssumption, StoredOrderly, NEW w, Snapshots(OrderedEvents(w)) # {}, NEW requested,
           SeekAnswer(w, requested) # NoAnswer
    PROVE  LET reply == SeekAnswer(w, requested)
               E == OrderedEvents(w)
               snapshot == SeekSnapshot(E, requested)
               target == SeekTarget(E, requested)
           IN  /\ snapshot \in E /\ LatestInitializerMetaAt(E, snapshot) # None
               /\ Run(reply.events, SeekEvents(E, snapshot)) /\ Len(reply.events) >= 2
               /\ reply.events[2].event = snapshot
               /\ reply.through = reply.events[Len(reply.events)].event.at
               /\ Continues(reply.cursor, w, reply.events[Len(reply.events)].event)
               /\ reply.start.from = snapshot.at /\ reply.start.target = target
               /\ reply.ready = TargetBoundaryReady(E, reply.events[Len(reply.events)].event, target)
               /\ Tells(reply.switches, Turns(UsedIn(reply.events), LatestActivityTabAt(E, snapshot)))
               /\ Carries(reply.cursor, LastTab(UsedIn(reply.events), LatestActivityTabAt(E, snapshot)))
               /\ Ending(reply.cursor, w, LatestActivityTabAt(E, snapshot), target, reply.events,
                         SeekEvents(E, snapshot))
               /\ LatestActivityTabAt(E, snapshot) # None
                     => reply.start.initialTab = LatestActivityTabAt(E, snapshot)
               /\ LatestActivityTabAt(E, snapshot) = None
                     => \A e \in Activities(E) : ~ Precedes(e, snapshot)
<1> DEFINE reply == SeekAnswer(w, requested)
           E == OrderedEvents(w)
           snapshot == SeekSnapshot(E, requested)
           target == SeekTarget(E, requested)
           meta == LatestInitializerMetaAt(E, snapshot)
           K == SeekEvents(E, snapshot)
           C == InOrder(K)
           used == LatestActivityTabAt(E, snapshot)
           end == snapshot.at + Min({ChunkWindow, Max({1, target - snapshot.at + Prefetch})})
           P == ChunkPayload(E, C, used, snapshot, end, ChunkLimit, snapshot)
           initialTab == IF used # None THEN used ELSE snapshot.tab
           start == [initialTab |-> initialTab, from |-> snapshot.at, target |-> target]
<1>1. Orderly(E) /\ E \subseteq UNION Recordings /\ ChunkLimit \in Nat
  BY OpenedOrderly DEF StreamAssumption
<1>2. snapshot \in Snapshots(E) /\ snapshot \in E /\ snapshot # None
  <2>1. snapshot \in Snapshots(E)
    BY <1>1, SnapshotIs
  <2> QED
    BY <1>1, <2>1 DEF Snapshots, Orderly
<1>3. reply = IF meta = None \/ P = NoAnswer THEN NoAnswer
               ELSE Answer(w, P, target, TargetBoundaryReady(E, P.last, target), start)
  BY Zenon DEF SeekAnswer, SeekSnapshot, SeekTarget, SeekEvents
<1>4. meta # None /\ P # NoAnswer
  BY <1>3
<1> HIDE DEF E, snapshot, target, end
<1>19. ASSUME used = None, NEW e \in Activities(E) PROVE ~ Precedes(e, snapshot)
  <2> DEFINE A == Activities(UpTo(E, snapshot))
  <2>1. A \subseteq E
    BY DEF Activities, UpTo
  <2>2. A # {} => Latest(A) \in E /\ Latest(A) # None
    BY <1>1, <2>1, OrderlyPart, LatestIs
  <2>3. used = TabOf(Latest(A))
    BY DEF LatestActivityTabAt
  <2> HIDE DEF A, used
  <2>4. A = {}
    BY <1>1, <1>19, <2>2, <2>3 DEF StreamAssumption, TabOf
  <2>5. Precedes(snapshot, e)
    BY <2>4 DEF A, Activities, UpTo
  <2> QED
    BY <1>1, <1>2, <2>5, OrderTotal DEF Activities
<1> HIDE DEF used
<1>5. \A e \in K : ContextFits(E, K, ContextOf(E, snapshot), e)
  BY <1>1, <1>2, <1>4, SeekContext
<1>6. meta \in E /\ Precedes(meta, snapshot)
  BY <1>1, <1>2, <1>4, MetaIs
<1>7. \A f : f \in K <=> f = meta \/ (f \in E /\ ~ Precedes(f, snapshot))
  BY DEF SeekEvents
<1> HIDE DEF meta, K
<1>8. K \subseteq E /\ snapshot \in K /\ meta \in K
  BY <1>1, <1>2, <1>6, <1>7, OrderTotal
<1>9. /\ Run(P.events, K) /\ Len(P.events) >= Needed(C, snapshot)
      /\ \A i \in 1..Len(P.events) : i \in DOMAIN C /\ P.events[i].event = C[i]
      /\ P.last = P.events[Len(P.events)].event /\ (P.more \/ Whole(P.events, K))
  BY <1>1, <1>4, <1>5, <1>8, PayloadIs
<1>10. Orderly(K) /\ Ordering(C, K) /\ Cardinality(K) \in Nat
  BY <1>1, <1>8, OrderlyPart, InOrderOrders
<1> HIDE DEF C
<1>11. /\ Len(C) \in Nat /\ DOMAIN C = 1..Len(C)
  BY <1>10, OrderingSequence
<1>12. /\ Needed(C, snapshot) \in Nat /\ Needed(C, snapshot) >= 2
       /\ \A i \in DOMAIN C : C[i] = snapshot => i <= Needed(C, snapshot)
  BY <1>2, <1>11, NeededIs
<1>13. Len(P.events) \in Nat
  BY <1>9 DEF Run
<1>20. Tells(P.switches, Turns(UsedIn(P.events), used)) /\ P.tab = LastTab(UsedIn(P.events), used)
  BY <1>1, <1>4, <1>8, PayloadTabs DEF C
<1> HIDE DEF P
<1>14. P.events[2].event = snapshot
  <2>1. PICK i \in DOMAIN C : C[i] = snapshot
    BY <1>8, <1>10 DEF Ordering
  <2>2. PICK m \in DOMAIN C : C[m] = meta
    BY <1>8, <1>10 DEF Ordering
  <2>3. i \in Nat /\ m \in Nat /\ i <= Len(C) /\ 1 <= m /\ m < i
    <3>1. i # m
      BY <1>2, <1>6, <2>1, <2>2, OrderTotal, <1>1
    <3>2. i < m => Precedes(snapshot, meta)
      BY <1>10, <2>1, <2>2 DEF Ordering
    <3>3. ~ Precedes(snapshot, meta)
      BY <1>1, <1>2, <1>6, OrderTotal
    <3> QED
      BY <1>11, <2>1, <2>2, <3>1, <3>2, <3>3
  <2>4. ASSUME NEW j \in DOMAIN C, j < i PROVE C[j] = meta
    <3>1. C[j] \in K /\ Precedes(C[j], snapshot)
      BY <1>10, <2>1, <2>4 DEF Ordering
    <3> QED
      BY <1>7, <3>1
  <2>5. m = 1 /\ i = 2
    <3>1. \A j, k \in DOMAIN C : j < k => C[j] # C[k]
      BY <1>8, <1>10, <1>1, OrderTotal DEF Ordering
    <3>2. \A j \in DOMAIN C : j < i => j = m
      <4> SUFFICES ASSUME NEW j \in DOMAIN C, j < i PROVE j = m
        OBVIOUS
      <4>1. C[j] = C[m]
        BY <2>2, <2>4
      <4> QED
        BY <1>11, <2>2, <3>1, <4>1
    <3>3. 1 \in DOMAIN C /\ (i > 2 => 2 \in DOMAIN C)
      BY <1>11, <2>3
    <3> QED
      BY <2>3, <3>2, <3>3
  <2>6. 2 \in 1..Len(P.events)
    BY <1>9, <1>12, <1>13
  <2> QED
    BY <1>9, <2>1, <2>5, <2>6
<1>15. /\ reply.events = P.events /\ reply.through = P.last.at /\ reply.cursor = Cursor(w, P, target)
       /\ reply.switches = P.switches /\ reply.start = start /\ reply.ready = TargetBoundaryReady(E, P.last, target)
  <2> HIDE DEF reply, start
  <2> QED
    BY <1>3, <1>4 DEF Answer
<1>16. Continues(Cursor(w, P, target), w, P.last) /\ Carries(Cursor(w, P, target), P.tab)
  BY DEF Cursor, Continues, Carries
<1>17. /\ reply.start.from = snapshot.at /\ reply.start.target = target
       /\ reply.start.initialTab = initialTab
  <2> HIDE DEF reply, initialTab
  <2> QED
    BY <1>15
<1>18. Len(P.events) >= 2
  BY <1>9, <1>12, <1>13
<1>21. used # None => initialTab = used
  OBVIOUS
<1> HIDE DEF reply, start, initialTab
<1>22. Ending(reply.cursor, w, used, target, reply.events, K)
  <2>1. K \subseteq UNION Recordings
    BY <1>1, <1>8
  <2>2. Ending(Cursor(w, P, target), w, used, target, P.events, K)
    BY <1>9, <1>10, <1>20, <2>1, EndingIs
  <2> QED
    BY <1>15, <2>2
<1> QED
  BY <1>2, <1>4, <1>9, <1>14, <1>15, <1>16, <1>17, <1>18, <1>19, <1>20, <1>21, <1>22
  DEF E, reply, snapshot, target, meta, K, used

-----------------------------------------------------------------------------
(* What the operations of a page leave alone.                              *)

PageFields ==
    {"held", "switches", "initialTab", "from", "through", "cursor", "watermark", "duration",
     "time", "running", "intent", "buffering", "waiting", "error", "failed", "wanted",
     "pending", "seeking", "gen", "seekGen", "pumps", "seeks"}

\* The parts that only answers and seeks change.
Alike(p, r) ==
    /\ r.held = p.held /\ r.switches = p.switches /\ r.initialTab = p.initialTab
    /\ r.from = p.from /\ r.through = p.through /\ r.cursor = p.cursor
    /\ r.watermark = p.watermark /\ r.duration = p.duration /\ r.failed = p.failed
    /\ r.seeking = p.seeking /\ r.gen = p.gen /\ r.seekGen = p.seekGen /\ r.seeks = p.seeks

\* A pump that has asked for its first chunk.
Fresh(p) == [gen |-> p.gen, cursor |-> p.cursor, chunk |-> NoAnswer, added |-> 0]

\* What is left alone, and the pumps with it, or but for one that starts.
Same(p, r) == DOMAIN r = PageFields /\ Alike(p, r) /\ r.pumps = p.pumps
Pumps(p, r) ==
    /\ DOMAIN r = PageFields /\ Alike(p, r)
    /\ \/ r.pumps = p.pumps
       \/ ~ p.seeking /\ p.cursor # None /\ r.pumps = p.pumps \union {Fresh(p)}

\* A player that plays is meant to, and does not wait at the end of what it holds.
PlaySound(p) ==
    /\ p.running \in BOOLEAN /\ p.intent \in BOOLEAN
    /\ p.running => p.intent /\ p.waiting = None

\* What leaves these alone twice leaves them alone.
LEMMA SameTwice ==
    ASSUME NEW p, NEW q, NEW r, Same(p, q)
    PROVE  (Same(q, r) => Same(p, r)) /\ (Pumps(q, r) => Pumps(p, r))
BY DEF Same, Pumps, Alike, Fresh

\* Moving the time,
LEMMA GotoAlike ==
    ASSUME NEW p, DOMAIN p = PageFields, NEW time, NEW play
    PROVE  /\ Same(p, Goto(p, time, play)) /\ Goto(p, time, play).pending = p.pending
           /\ Goto(p, time, play).time = time
BY DEF Same, Alike, Goto, PageFields

\* the end of the recording,
LEMMA EndAlike ==
    ASSUME NEW p, DOMAIN p = PageFields
    PROVE  /\ Same(p, NotifyTrueEnd(p)) /\ NotifyTrueEnd(p).pending = p.pending
           /\ NotifyTrueEnd(p).time = p.time
           /\ PlaySound(p) /\ ~ p.running => PlaySound(NotifyTrueEnd(p))
BY DEF Same, Alike, NotifyTrueEnd, PageFields, PlaySound

\* the end of a wait,
LEMMA SettleAlike ==
    ASSUME NEW p, DOMAIN p = PageFields
    PROVE  /\ Same(p, SettleBoundaryWait(p)) /\ SettleBoundaryWait(p).pending = p.pending
           /\ SettleBoundaryWait(p).time = p.time
           /\ PlaySound(p) => PlaySound(SettleBoundaryWait(p))
<1> DEFINE again == Goto(p, p.time, p.intent \/ p.running)
           on == [again EXCEPT !.waiting = None, !.buffering = FALSE]
<1>1. Same(p, on) /\ on.pending = p.pending /\ on.time = p.time
  BY DEF Same, Alike, Goto, PageFields
<1>2. PlaySound(p) => PlaySound(on)
  BY DEF PlaySound, Goto, PageFields
<1> HIDE DEF on
<1>3. \/ SettleBoundaryWait(p) = p
      \/ SettleBoundaryWait(p) = on
      \/ p.waiting # None /\ SettleBoundaryWait(p) = NotifyTrueEnd(p)
  BY DEF SettleBoundaryWait, on
<1>4. Same(p, p)
  BY DEF Same, Alike
<1>5. PlaySound(p) /\ p.waiting # None => ~ p.running
  BY DEF PlaySound
<1> QED
  BY <1>1, <1>2, <1>3, <1>4, <1>5, EndAlike

\* the end of a seek and
LEMMA CompleteAlike ==
    ASSUME NEW p, DOMAIN p = PageFields
    PROVE  /\ Same(p, CompletePendingSeekIfReady(p))
           /\ PlaySound(p) => PlaySound(CompletePendingSeekIfReady(p))
BY DEF Same, Alike, CompletePendingSeekIfReady, Goto, PageFields, PlaySound

\* the end of a pump leave them alone.
LEMMA PumpEndsAlike ==
    ASSUME NEW p, DOMAIN p = PageFields
    PROVE  /\ Same(p, PumpEnds(p)) /\ PumpEnds(p).pending = p.pending /\ PumpEnds(p).time = p.time
           /\ PlaySound(p) => PlaySound(PumpEnds(p))
<1> DEFINE settled == SettleBoundaryWait(p)
           ended == [settled EXCEPT !.buffering =
                        @ /\ (settled.waiting # None \/ settled.pending # None)]
<1>1. PumpEnds(p) = IF p.error THEN p ELSE ended
  BY DEF PumpEnds
<1>2. Same(p, settled) /\ (PlaySound(p) => PlaySound(settled)) /\ settled.pending = p.pending
      /\ settled.time = p.time
  BY SettleAlike
<1> HIDE DEF settled
<1>3. DOMAIN settled = PageFields
  BY <1>2 DEF Same
<1>4. Same(settled, ended) /\ (PlaySound(settled) => PlaySound(ended)) /\ ended.pending = settled.pending
      /\ ended.time = settled.time
  BY <1>3 DEF Same, Alike, PlaySound, PageFields
<1>5. Same(p, p)
  BY DEF Same, Alike
<1> HIDE DEF ended
<1> QED
  BY <1>1, <1>2, <1>4, <1>5, SameTwice

\* A turn of the pump starts one where more is to be fetched.
LEMMA PumpAlike ==
    ASSUME NEW p, DOMAIN p = PageFields
    PROVE  /\ Pumps(p, Pump(p)) /\ Pump(p).pending = p.pending /\ Pump(p).time = p.time
           /\ PlaySound(p) => PlaySound(Pump(p))
<1>1. CASE ShouldFetch(p)
  <2> DEFINE r == [p EXCEPT !.wanted = FALSE, !.pumps = @ \union {Fresh(p)}]
  <2>1. Pump(p) = r
    BY <1>1 DEF Pump, Fresh
  <2>2. ~ p.seeking /\ p.cursor # None
    BY <1>1 DEF ShouldFetch, More
  <2>3. Alike(p, r) /\ DOMAIN r = PageFields /\ r.pumps = p.pumps \union {Fresh(p)}
        /\ r.pending = p.pending /\ r.time = p.time
    BY DEF Alike, PageFields
  <2>4. PlaySound(p) => PlaySound(r)
    BY DEF PlaySound, PageFields
  <2> HIDE DEF r
  <2> QED
    BY <2>1, <2>2, <2>3, <2>4 DEF Pumps
<1>2. CASE ~ ShouldFetch(p)
  <2>1. Pump(p) = PumpEnds(p)
    BY <1>2 DEF Pump
  <2> QED
    BY <2>1, PumpEndsAlike DEF Same, Pumps
<1> QED
  BY <1>1, <1>2

\* A pump starts where there is none.
Starts(p, r) == Pumps(p, r) /\ (r.pumps = p.pumps \/ ~ Pumping(p))

\* _ensurePump starts one where there is none,
LEMMA EnsureAlike ==
    ASSUME NEW p, DOMAIN p = PageFields
    PROVE  /\ Starts(p, EnsurePump(p)) /\ EnsurePump(p).pending = p.pending /\ EnsurePump(p).time = p.time
           /\ PlaySound(p) => PlaySound(EnsurePump(p))
<1>1. Pumps(p, p)
  BY DEF Pumps, Alike
<1> QED
  BY <1>1, PumpAlike DEF EnsurePump, Starts

\* and so does a fetch that is asked for.
LEMMA FetchAlike ==
    ASSUME NEW p, DOMAIN p = PageFields
    PROVE  /\ Starts(p, FetchOne(p)) /\ FetchOne(p).pending = p.pending /\ FetchOne(p).time = p.time
           /\ PlaySound(p) => PlaySound(FetchOne(p))
<1> DEFINE r == [p EXCEPT !.wanted = @ \/ ~ Pumping(p)]
<1>1. Same(p, r) /\ (PlaySound(p) => PlaySound(r)) /\ r.pending = p.pending /\ r.time = p.time
  BY DEF Same, Alike, PlaySound, PageFields
<1>2. FetchOne(p) = EnsurePump(r)
  BY DEF FetchOne
<1> HIDE DEF r
<1>3. DOMAIN r = PageFields /\ (Pumping(r) <=> Pumping(p)) /\ r.pumps = p.pumps
  BY <1>1 DEF Same, Alike, Pumping
<1>4. /\ Starts(r, EnsurePump(r)) /\ (PlaySound(r) => PlaySound(EnsurePump(r)))
      /\ EnsurePump(r).pending = r.pending /\ EnsurePump(r).time = r.time
  BY <1>3, EnsureAlike
<1> QED
  BY <1>1, <1>2, <1>3, <1>4, SameTwice DEF Starts

-----------------------------------------------------------------------------
(* What a page holds: S is stored, F was when the recording was opened, and*)
(* c tells whether a chunk was cut off.                                    *)

Older(S, w) == {e \in S : e.id <= w}

PageShape(p, S, F) ==
    /\ DOMAIN p = PageFields
    /\ p.gen \in Nat /\ p.seekGen \in Nat
    /\ F \subseteq Older(S, p.watermark)
    /\ Snapshots(F) # {}

\* An event of the segment that is held.
HeldAt(p, e) == \E k \in 2..Len(p.held) : p.held[k].event = e

\* A stretch of the recording.
HoldsSound(p, S, F) ==
    /\ p.held \in Seq(Item) /\ Len(p.held) >= 2
    /\ \A i \in 1..Len(p.held) :
         p.held[i].event \in Older(S, p.watermark) /\ p.held[i].base = p.held[i].at
    /\ \A i \in 2..Len(p.held), e \in F :
         ~ Precedes(e, p.held[2].event) /\ ~ Precedes(p.held[i].event, e) => HeldAt(p, e)

\* The next chunk starts in it.
CursorSound(p) ==
    p.cursor # None => p.cursor.watermark = p.watermark /\ HeldAt(p, p.cursor.after)

\* An answer for events after a position.
ChunkSound(chunk, after, w, S, F) ==
    /\ chunk.events \in Seq(Item) /\ Len(chunk.events) # 0
    /\ \A i \in 1..Len(chunk.events) :
         /\ chunk.events[i].event \in Older(S, w) /\ chunk.events[i].base = chunk.events[i].at
         /\ Precedes(after, chunk.events[i].event)
    /\ \A i, j \in 1..Len(chunk.events) : i < j => Precedes(chunk.events[i].event, chunk.events[j].event)
    /\ \A i \in 1..Len(chunk.events), e \in F :
         Precedes(after, e) /\ ~ Precedes(chunk.events[i].event, e)
            => \E j \in 1..i : chunk.events[j].event = e
    /\ Continues(chunk.cursor, w, chunk.events[Len(chunk.events)].event)

\* What of it has been added is held.
AddedSound(p, q) ==
    /\ q.added \in 1..Len(q.chunk.events)
    /\ \A i \in 1..q.added : HeldAt(p, q.chunk.events[i].event)

CurrentSound(p, q, S, F) ==
    /\ DOMAIN q = {"gen", "cursor", "chunk", "added"}
    /\ ~ p.seeking /\ p.cursor # None /\ q.cursor = p.cursor
    /\ q.chunk = NoAnswer => q.added = 0
    /\ q.chunk # NoAnswer =>
         ChunkSound(q.chunk, p.cursor.after, p.watermark, S, F) /\ AddedSound(p, q)

PumpsSound(p, S, F) ==
    /\ \A q \in p.pumps : q.gen \in Nat /\ q.gen <= p.gen
    /\ \A q1, q2 \in p.pumps : q1.gen = p.gen /\ q2.gen = p.gen => q1 = q2
    /\ \A q \in p.pumps : q.gen = p.gen => CurrentSound(p, q, S, F)

SeeksSound(p) ==
    /\ p.seeking \in BOOLEAN
    /\ \A s \in p.seeks : s.gen \in Nat /\ s.gen <= p.seekGen
    /\ \A s \in p.seeks : s.gen = p.seekGen => p.seeking
    /\ \A s1, s2 \in p.seeks : s1.gen = s2.gen => s1 = s2

\* In order, each once, up to where the next events follow.
OrderSound(p) ==
    /\ \A i \in 2..Len(p.held) : Precedes(p.held[i - 1].event, p.held[i].event)
    /\ \A q \in p.pumps : q.gen = p.gen /\ q.chunk # NoAnswer =>
         LastHeld(p) = q.chunk.events[q.added].event
    /\ p.cursor # None /\ (\A q \in p.pumps : q.gen = p.gen => q.chunk = NoAnswer) =>
         LastHeld(p) = p.cursor.after

Sound(p, S, F, c) ==
    /\ PageShape(p, S, F)
    /\ HoldsSound(p, S, F)
    /\ CursorSound(p)
    /\ PumpsSound(p, S, F)
    /\ SeeksSound(p)
    /\ c \/ OrderSound(p)

\* A page stays sound when a pump starts, where there is none.
LEMMA StartKeeps ==
    ASSUME NEW p, NEW r, Starts(p, r), NEW S, NEW F, NEW c, Sound(p, S, F, c)
    PROVE  Sound(r, S, F, c)
<1>1. PageShape(r, S, F)
  BY DEF Starts, Pumps, Alike, Sound, PageShape
<1>2. \A e : HeldAt(r, e) <=> HeldAt(p, e)
  BY DEF Starts, Pumps, Alike, HeldAt
<1>3. HoldsSound(r, S, F)
  BY <1>2 DEF Starts, Pumps, Alike, Sound, HoldsSound
<1>4. CursorSound(r)
  BY <1>2 DEF Starts, Pumps, Alike, Sound, CursorSound
<1>5. SeeksSound(r)
  BY DEF Starts, Pumps, Alike, Sound, SeeksSound
<1>6. ASSUME NEW q, CurrentSound(p, q, S, F) PROVE CurrentSound(r, q, S, F)
  <2>1. AddedSound(p, q) => AddedSound(r, q)
    BY <1>2 DEF AddedSound
  <2> QED
    BY <1>6, <2>1 DEF Starts, Pumps, Alike, CurrentSound
<1>7. r.gen = p.gen /\ r.held = p.held /\ r.cursor = p.cursor
  BY DEF Starts, Pumps, Alike
<1>8. CASE r.pumps = p.pumps
  <2>1. PumpsSound(r, S, F)
    BY <1>6, <1>7, <1>8 DEF Sound, PumpsSound
  <2>2. c \/ OrderSound(r)
    BY <1>7, <1>8 DEF Sound, OrderSound, LastHeld
  <2> QED
    BY <1>1, <1>3, <1>4, <1>5, <2>1, <2>2 DEF Sound
<1>9. CASE r.pumps # p.pumps
  <2>1. /\ ~ p.seeking /\ p.cursor # None /\ r.pumps = p.pumps \union {Fresh(p)}
        /\ \A q \in p.pumps : q.gen # p.gen
    BY <1>9 DEF Starts, Pumps, Pumping
  <2>2. /\ Fresh(p).gen = p.gen /\ Fresh(p).chunk = NoAnswer /\ p.gen \in Nat
        /\ \A q \in p.pumps : q.gen \in Nat /\ q.gen <= p.gen
    BY DEF Fresh, Sound, PageShape, PumpsSound
  <2>3. CurrentSound(p, Fresh(p), S, F)
    BY <2>1 DEF CurrentSound, Fresh
  <2>4. PumpsSound(r, S, F)
    <3> HIDE DEF Fresh
    <3>1. CurrentSound(r, Fresh(p), S, F)
      BY <1>6, <2>3
    <3>2. \A q \in r.pumps : q = Fresh(p) \/ (q \in p.pumps /\ q.gen # r.gen)
      BY <1>7, <2>1
    <3> QED
      BY <1>7, <2>2, <3>1, <3>2 DEF PumpsSound
  <2>5. c \/ OrderSound(r)
    <3>1. \A q \in r.pumps : q.gen = r.gen => q.chunk = NoAnswer
      BY <1>7, <2>1, <2>2
    <3> QED
      BY <1>7, <2>1, <3>1 DEF Sound, OrderSound, LastHeld
  <2> QED
    BY <1>1, <1>3, <1>4, <1>5, <2>4, <2>5 DEF Sound
<1> QED
  BY <1>8, <1>9

\* More may be stored, of which the recording that was opened knows nothing.
LEMMA StoredKeeps ==
    ASSUME NEW p, NEW S, NEW T, S \subseteq T, NEW F, NEW c, Sound(p, S, F, c)
    PROVE  Sound(p, T, F, c)
<1>1. \A w : Older(S, w) \subseteq Older(T, w)
  BY DEF Older
<1>2. PageShape(p, T, F)
  BY <1>1 DEF Sound, PageShape
<1>3. HoldsSound(p, T, F)
  BY <1>1 DEF Sound, HoldsSound
<1>4. \A chunk, after, w : ChunkSound(chunk, after, w, S, F) => ChunkSound(chunk, after, w, T, F)
  BY <1>1 DEF ChunkSound
<1>5. \A q : CurrentSound(p, q, S, F) => CurrentSound(p, q, T, F)
  BY <1>4 DEF CurrentSound
<1>6. PumpsSound(p, T, F)
  BY <1>5 DEF Sound, PumpsSound
<1> QED
  BY <1>2, <1>3, <1>6 DEF Sound

-----------------------------------------------------------------------------
(* Chunks that are added.                                                  *)

\* The lesser of two numbers.
LEMMA MinIs ==
    ASSUME NEW a \in Nat, NEW b \in Nat
    PROVE  Min({a, b}) = IF a <= b THEN a ELSE b
<1> DEFINE m == IF a <= b THEN a ELSE b
<1>1. m \in {a, b} /\ \A y \in {a, b} : m <= y
  OBVIOUS
<1>2. \A x \in {a, b} : (\A y \in {a, b} : x <= y) => x = m
  OBVIOUS
<1> HIDE DEF m
<1>3. \A x : (x \in {a, b} /\ \A y \in {a, b} : x <= y) <=> x = m
  BY <1>1, <1>2
<1> QED
  BY <1>3 DEF Min, m

\* One sequence after another.
LEMMA Joined ==
    ASSUME NEW T, NEW s \in Seq(T), NEW t \in Seq(T), NEW h, h = s \o t
    PROVE  /\ h \in Seq(T) /\ Len(h) = Len(s) + Len(t)
           /\ \A i \in 1..Len(s) : h[i] = s[i]
           /\ \A k \in 1..Len(t) : h[Len(s) + k] = t[k]
OBVIOUS

\* What adding more of a chunk does: r holds what p holds, and then the
\* chunk's events up to a greater number.
Added(p, q, r, x, upTo) ==
    /\ upTo \in Nat /\ q.added < upTo /\ upTo <= Len(q.chunk.events)
    /\ DOMAIN r = PageFields /\ r.pumps = (p.pumps \ {q}) \union {x}
    /\ r.watermark = p.watermark /\ r.gen = p.gen /\ r.seekGen = p.seekGen /\ r.cursor = p.cursor
    /\ r.seeking = p.seeking /\ r.seeks = p.seeks
    /\ r.switches = p.switches /\ r.initialTab = p.initialTab
    /\ r.from = p.from /\ r.duration = p.duration /\ r.failed = p.failed /\ r.pending = p.pending
    /\ x.gen = q.gen /\ x.cursor = q.cursor /\ x.chunk = q.chunk /\ x.added = upTo
    /\ DOMAIN x = {"gen", "cursor", "chunk", "added"}
    /\ r.held \in Seq(Item) /\ Len(r.held) = Len(p.held) + (upTo - q.added)
    /\ \A i \in 1..Len(p.held) : r.held[i] = p.held[i]
    /\ \A k \in 1..(upTo - q.added) : r.held[Len(p.held) + k] = q.chunk.events[q.added + k]

\* A batch, or all that is left of the chunk, is more of it.
LEMMA AddIs ==
    ASSUME PlayerAssumption, NEW p, DOMAIN p = PageFields, p.held \in Seq(Item), NEW q,
           DOMAIN q = {"gen", "cursor", "chunk", "added"}, q.chunk.events \in Seq(Item),
           q.added \in Nat, q.added < Len(q.chunk.events)
    PROVE  /\ \E x, upTo : Added(p, q, AddBatch(p, q), x, upTo)
           /\ PlaySound(p) => PlaySound(AddBatch(p, q))
<1> DEFINE D == q.chunk.events
           a == q.added
           upTo == Min({a + BatchSize, Len(D)})
           more == SubSeq(D, a + 1, upTo)
           x == [q EXCEPT !.added = upTo]
           r == AddBatch(p, q)
           n == Len(p.held)
           held == p.held \o more
           pumps == (p.pumps \ {q}) \union {x}
<1>1. D \in Seq(Item) /\ Len(D) \in Nat /\ a \in Nat /\ a < Len(D) /\ BatchSize \in Nat /\ BatchSize # 0
  BY DEF PlayerAssumption
<1>2. p.held \in Seq(Item) /\ n \in Nat
  OBVIOUS
<1>3. r = [p EXCEPT !.held = held, !.pumps = pumps]
  BY DEF AddBatch
<1> HIDE DEF held, pumps, r
<1>4. /\ DOMAIN r = PageFields /\ r.held = held /\ r.pumps = pumps
      /\ r.watermark = p.watermark /\ r.gen = p.gen /\ r.seekGen = p.seekGen /\ r.cursor = p.cursor
      /\ r.seeking = p.seeking /\ r.seeks = p.seeks
      /\ r.switches = p.switches /\ r.initialTab = p.initialTab
      /\ r.from = p.from /\ r.duration = p.duration /\ r.failed = p.failed /\ r.pending = p.pending
  BY <1>3 DEF PageFields
<1>10. PlaySound(p) => PlaySound(r)
  BY <1>3 DEF PageFields, PlaySound
<1>5. /\ x.gen = q.gen /\ x.cursor = q.cursor /\ x.chunk = q.chunk /\ x.added = upTo
      /\ DOMAIN x = {"gen", "cursor", "chunk", "added"}
  <2> HIDE DEF upTo
  <2> QED
    OBVIOUS
<1>6. a + BatchSize \in Nat
  BY <1>1
<1> HIDE DEF D, a, n, x
<1>7. upTo \in Nat /\ a < upTo /\ upTo <= Len(D)
  <2> DEFINE b == a + BatchSize
             l == Len(D)
  <2>1. b \in Nat /\ l \in Nat /\ a < b /\ a < l
    BY <1>1, <1>6
  <2> HIDE DEF b, l
  <2>2. Min({b, l}) = IF b <= l THEN b ELSE l
    BY <2>1, MinIs
  <2>3. upTo = Min({b, l})
    BY DEF b, l
  <2> HIDE DEF upTo
  <2>4. upTo \in Nat /\ a < upTo /\ upTo <= l
    BY <2>1, <2>2, <2>3
  <2> QED
    BY <2>4 DEF l
<1> HIDE DEF upTo
<1>8. /\ held \in Seq(Item) /\ Len(held) = n + (upTo - a)
      /\ \A i \in 1..n : held[i] = p.held[i]
      /\ \A k \in 1..(upTo - a) : held[n + k] = D[a + k]
  <2>1. /\ more \in Seq(Item) /\ Len(more) = upTo - a
        /\ \A k \in 1..(upTo - a) : more[k] = D[a + k]
    BY <1>1, <1>7
  <2> HIDE DEF more
  <2> DEFINE first == p.held
  <2>2. held = first \o more /\ first \in Seq(Item) /\ n = Len(first)
    BY <1>2 DEF held, n
  <2> HIDE DEF first
  <2>3. /\ held \in Seq(Item) /\ Len(held) = Len(first) + Len(more)
        /\ \A i \in 1..Len(first) : held[i] = first[i]
        /\ \A k \in 1..Len(more) : held[Len(first) + k] = more[k]
    <3>1. more \in Seq(Item)
      BY <2>1
    <3>2. first \in Seq(Item)
      BY <2>2
    <3>3. held = first \o more
      BY <2>2
    <3> QED
      BY <3>1, <3>2, <3>3, Joined
  <2>4. Len(held) = n + (upTo - a) /\ \A k \in 1..(upTo - a) : held[n + k] = D[a + k]
    BY <2>1, <2>2, <2>3
  <2> QED
    BY <2>2, <2>3, <2>4 DEF first
<1>9. Added(p, q, r, x, upTo)
  <2>1. pumps = (p.pumps \ {q}) \union {x}
    BY DEF pumps
  <2>2. /\ r.held \in Seq(Item) /\ Len(r.held) = n + (upTo - a)
        /\ \A i \in 1..n : r.held[i] = p.held[i]
        /\ \A k \in 1..(upTo - a) : r.held[n + k] = D[a + k]
    BY <1>4, <1>8
  <2> QED
    BY <1>4, <1>5, <1>7, <2>1, <2>2 DEF Added, D, a, n
<1> QED
  BY <1>9, <1>10 DEF r

\* A pump that is about to add more of its chunk.
Adding(p, q, S, F) ==
    /\ q \in p.pumps /\ q.gen = p.gen
    /\ DOMAIN q = {"gen", "cursor", "chunk", "added"}
    /\ ~ p.seeking /\ p.cursor # None /\ q.cursor = p.cursor
    /\ ChunkSound(q.chunk, p.cursor.after, p.watermark, S, F)
    /\ q.chunk # NoAnswer
    /\ q.added \in Nat /\ q.added < Len(q.chunk.events)
    /\ \A i \in 1..q.added : HeldAt(p, q.chunk.events[i].event)

\* What is held ends where it goes on.
AddsInOrder(p, q) ==
    /\ \A i \in 2..Len(p.held) : Precedes(p.held[i - 1].event, p.held[i].event)
    /\ LastHeld(p) = IF q.added = 0 THEN p.cursor.after ELSE q.chunk.events[q.added].event

\* More of a chunk makes the stretch longer.
LEMMA AddKeeps ==
    ASSUME PlayerAssumption, NEW p, NEW q, NEW S, NEW F, NEW c,
           PageShape(p, S, F), HoldsSound(p, S, F), CursorSound(p), SeeksSound(p),
           \A x \in p.pumps : x.gen \in Nat /\ x.gen <= p.gen,
           \A x \in p.pumps : x.gen = p.gen => x = q,
           Adding(p, q, S, F), c \/ AddsInOrder(p, q)
    PROVE  Sound(AddBatch(p, q), S, F, c)
<1> DEFINE D == q.chunk.events
           a == q.added
           r == AddBatch(p, q)
           n == Len(p.held)
<1>1. D \in Seq(Item) /\ Len(D) \in Nat /\ a \in Nat /\ a < Len(D)
  BY DEF Adding, ChunkSound
<1>2. p.held \in Seq(Item) /\ n \in Nat /\ n >= 2
  BY DEF HoldsSound
<1>3. /\ \A i \in 1..Len(D) :
           /\ D[i].event \in Older(S, p.watermark) /\ D[i].base = D[i].at
           /\ Precedes(p.cursor.after, D[i].event)
      /\ \A i, j \in 1..Len(D) : i < j => Precedes(D[i].event, D[j].event)
      /\ \A i \in 1..Len(D), e \in F :
           Precedes(p.cursor.after, e) /\ ~ Precedes(D[i].event, e) => \E j \in 1..i : D[j].event = e
      /\ \A i \in 1..a : HeldAt(p, D[i].event)
  BY DEF Adding, ChunkSound
<1>6. PICK x, upTo : Added(p, q, r, x, upTo)
  BY <1>1, <1>2, AddIs DEF Adding, PageShape
<1> HIDE DEF D, a, n, r
<1>4. /\ DOMAIN r = PageFields /\ r.pumps = (p.pumps \ {q}) \union {x}
      /\ r.watermark = p.watermark /\ r.gen = p.gen /\ r.seekGen = p.seekGen /\ r.cursor = p.cursor
      /\ r.seeking = p.seeking /\ r.seeks = p.seeks
  BY <1>6 DEF Added
<1>5. /\ x.gen = p.gen /\ x.cursor = p.cursor /\ x.chunk = q.chunk /\ x.added = upTo
      /\ DOMAIN x = {"gen", "cursor", "chunk", "added"}
  BY <1>6 DEF Added, Adding
<1>7. upTo \in Nat /\ a < upTo /\ upTo <= Len(D)
  BY <1>6 DEF Added, D, a
<1>8. /\ r.held \in Seq(Item) /\ Len(r.held) = n + (upTo - a)
      /\ \A i \in 1..n : r.held[i] = p.held[i]
      /\ \A k \in 1..(upTo - a) : r.held[n + k] = D[a + k]
  BY <1>6 DEF Added, D, a, n
<1>9. \A e : HeldAt(p, e) => HeldAt(r, e)
  <2> SUFFICES ASSUME NEW e, HeldAt(p, e) PROVE HeldAt(r, e)
    OBVIOUS
  <2>1. PICK k \in 2..n : p.held[k].event = e
    BY DEF HeldAt, n
  <2>2. k \in 2..Len(r.held) /\ k \in 1..n
    BY <1>1, <1>2, <1>7, <1>8
  <2> QED
    BY <1>8, <2>1, <2>2 DEF HeldAt
<1>10. ASSUME NEW i \in 1..upTo PROVE HeldAt(r, D[i].event)
  <2>1. CASE i <= a
    <3>1. i \in 1..a
      BY <1>1, <1>7, <2>1
    <3> QED
      BY <1>9, <1>3, <3>1
  <2>2. CASE i > a
    <3>1. i - a \in 1..(upTo - a) /\ n + (i - a) \in 2..Len(r.held) /\ a + (i - a) = i
      BY <1>1, <1>7, <1>2, <1>8, <2>2
    <3>2. r.held[n + (i - a)].event = D[i].event
      BY <1>8, <3>1
    <3> QED
      BY <3>1, <3>2 DEF HeldAt
  <2> QED
    BY <1>1, <1>7, <2>1, <2>2
<1>11. \A i \in 1..Len(r.held) : i \in 1..n \/ \E k \in 1..(upTo - a) : i = n + k /\ a + k \in 1..Len(D)
  <2> SUFFICES ASSUME NEW i \in 1..Len(r.held), i \notin 1..n
               PROVE  \E k \in 1..(upTo - a) : i = n + k /\ a + k \in 1..Len(D)
    OBVIOUS
  <2>1. i - n \in 1..(upTo - a) /\ i = n + (i - n) /\ a + (i - n) \in 1..Len(D)
    BY <1>1, <1>7, <1>2, <1>8
  <2> QED
    BY <2>1
<1>12. ChunkSound(q.chunk, p.cursor.after, p.watermark, S, F)
  BY DEF Adding
<1>13. HoldsSound(r, S, F)
  <2>1. ASSUME NEW i \in 1..Len(r.held)
        PROVE  r.held[i].event \in Older(S, r.watermark) /\ r.held[i].base = r.held[i].at
    <3>1. CASE i \in 1..n
      BY <1>4, <1>8, <3>1 DEF HoldsSound, n
    <3>2. ASSUME NEW k \in 1..(upTo - a), i = n + k, a + k \in 1..Len(D)
          PROVE  r.held[i].event \in Older(S, r.watermark) /\ r.held[i].base = r.held[i].at
      BY <1>3, <1>4, <1>8, <3>2
    <3> QED
      BY <1>11, <3>1, <3>2
  <2>2. ASSUME NEW i \in 2..Len(r.held), NEW e \in F,
               ~ Precedes(e, r.held[2].event), ~ Precedes(r.held[i].event, e)
        PROVE  HeldAt(r, e)
    <3>1. r.held[2] = p.held[2]
      BY <1>2, <1>8
    <3>2. ASSUME NEW k \in 2..n, ~ Precedes(p.held[k].event, e)
          PROVE  HeldAt(r, e)
      BY <1>9, <2>2, <3>1, <3>2 DEF HoldsSound, n
    <3>3. CASE i \in 1..n
      <4>1. i \in 2..n /\ r.held[i] = p.held[i]
        BY <1>2, <1>8, <3>3
      <4> QED
        BY <2>2, <3>2, <4>1
    <3>4. ASSUME NEW k \in 1..(upTo - a), i = n + k, a + k \in 1..Len(D)
          PROVE  HeldAt(r, e)
      <4>1. r.held[i] = D[a + k]
        BY <1>8, <3>4
      <4>2. CASE ~ Precedes(p.cursor.after, e)
        <5>1. PICK j \in 2..n : p.held[j].event = p.cursor.after
          BY DEF CursorSound, Adding, HeldAt, n
        <5> QED
          BY <3>2, <4>2, <5>1
      <4>3. CASE Precedes(p.cursor.after, e)
        <5>1. PICK j \in 1..(a + k) : D[j].event = e
          BY <1>3, <2>2, <3>4, <4>1, <4>3
        <5>2. j \in 1..upTo
          BY <1>1, <1>7
        <5> QED
          BY <1>10, <5>1, <5>2
      <4> QED
        BY <4>2, <4>3
    <3> QED
      BY <1>2, <1>11, <3>3, <3>4
  <2>3. Len(r.held) >= 2
    BY <1>1, <1>2, <1>7, <1>8
  <2> QED
    BY <1>8, <2>1, <2>2, <2>3 DEF HoldsSound
<1>14. PageShape(r, S, F)
  BY <1>4 DEF PageShape
<1>15. CursorSound(r)
  BY <1>4, <1>9 DEF CursorSound
<1>16. SeeksSound(r)
  BY <1>4 DEF SeeksSound
<1>17. CurrentSound(r, x, S, F)
  <2>1. AddedSound(r, x)
    BY <1>7, <1>1, <1>5, <1>10 DEF AddedSound, D
  <2> QED
    BY <1>4, <1>5, <1>12, <2>1 DEF CurrentSound, Adding
<1>18. \A y \in r.pumps : y = x \/ (y \in p.pumps /\ y.gen # r.gen)
  BY <1>4
<1>19. PumpsSound(r, S, F)
  <2>1. p.gen \in Nat
    BY DEF PageShape
  <2> QED
    BY <1>4, <1>5, <1>17, <1>18, <2>1 DEF PumpsSound
<1>20. CASE ~ c
  <2>1. ASSUME NEW i \in 2..Len(r.held)
        PROVE  Precedes(r.held[i - 1].event, r.held[i].event)
    <3>1. CASE i \in 1..n
      <4>1. i \in 2..n /\ i - 1 \in 1..n
        BY <1>2, <3>1
      <4> QED
        BY <1>8, <1>20, <4>1 DEF AddsInOrder, n
    <3>2. ASSUME NEW k \in 1..(upTo - a), i = n + k, a + k \in 1..Len(D)
          PROVE  Precedes(r.held[i - 1].event, r.held[i].event)
      <4>1. r.held[i] = D[a + k]
        BY <1>8, <3>2
      <4>2. CASE k = 1
        <5>1. r.held[i - 1].event = LastHeld(p)
          BY <1>2, <1>8, <3>2, <4>2 DEF LastHeld, n
        <5>2. a # 0 => a \in 1..Len(D) /\ a < a + k
          BY <1>1, <1>7, <4>2
        <5>3. LastHeld(p) = IF a = 0 THEN p.cursor.after ELSE D[a].event
          BY <1>20 DEF AddsInOrder, D, a
        <5>4. CASE a = 0
          BY <1>3, <3>2, <4>1, <5>1, <5>3, <5>4
        <5>5. CASE a # 0
          BY <1>3, <3>2, <4>1, <5>1, <5>2, <5>3, <5>5
        <5> QED
          BY <5>4, <5>5
      <4>3. CASE k # 1
        <5>1. /\ k - 1 \in 1..(upTo - a) /\ i - 1 = n + (k - 1) /\ a + (k - 1) \in 1..Len(D)
              /\ a + (k - 1) < a + k
          <6>1. k \in Nat /\ k >= 1 /\ k <= upTo - a /\ i = n + k
            BY <1>1, <1>7, <3>2
          <6>2. upTo \in Nat /\ a \in Nat /\ n \in Nat /\ Len(D) \in Nat /\ upTo <= Len(D) /\ k # 1
            BY <1>1, <1>7, <1>2, <4>3
          <6> QED
            BY <6>1, <6>2
        <5>2. r.held[i - 1] = D[a + (k - 1)]
          BY <1>8, <5>1
        <5> QED
          BY <1>3, <3>2, <4>1, <5>1, <5>2
      <4> QED
        BY <4>2, <4>3
    <3> QED
      BY <1>2, <1>11, <3>1, <3>2
  <2>2. LastHeld(r) = D[upTo].event
    <3>1. upTo - a \in 1..(upTo - a) /\ Len(r.held) = n + (upTo - a) /\ a + (upTo - a) = upTo
      BY <1>1, <1>7, <1>2, <1>8
    <3> QED
      BY <1>8, <3>1 DEF LastHeld
  <2>3. x \in r.pumps /\ x.chunk # NoAnswer
    BY <1>4, <1>5 DEF Adding
  <2>4. \A y \in r.pumps : y.gen = r.gen => y = x
    BY <1>18
  <2>5. OrderSound(r)
    BY <1>4, <1>5, <2>1, <2>2, <2>3, <2>4 DEF OrderSound, D
  <2> QED
    BY <2>5, <1>13, <1>14, <1>15, <1>16, <1>19 DEF Sound, r
<1>21. CASE c
  BY <1>13, <1>14, <1>15, <1>16, <1>19, <1>21 DEF Sound, r
<1> QED
  BY <1>20, <1>21

\* An answer that starts a player makes a page sound.
LEMMA StartSound ==
    ASSUME NEW p, NEW S, NEW F, NEW c, NEW K, PageShape(p, S, F), SeeksSound(p),
           Run(p.held, K), Len(p.held) >= 2, K \subseteq Older(S, p.watermark),
           \A e \in F : ~ Precedes(e, p.held[2].event) => e \in K,
           Continues(p.cursor, p.watermark, p.held[Len(p.held)].event),
           \A q \in p.pumps : q.gen \in Nat /\ q.gen <= p.gen /\ q.gen # p.gen
    PROVE  Sound(p, S, F, c)
<1>1. Len(p.held) \in Nat
  BY DEF Run
<1>2. HoldsSound(p, S, F)
  <2>1. ASSUME NEW i \in 2..Len(p.held), NEW e \in F,
               ~ Precedes(e, p.held[2].event), ~ Precedes(p.held[i].event, e)
        PROVE  HeldAt(p, e)
    <3>1. PICK j \in 1..i : p.held[j].event = e
      BY <1>1, <2>1 DEF Run
    <3>2. j # 1
      <4>1. Precedes(p.held[1].event, p.held[2].event)
        BY <1>1 DEF Run
      <4> QED
        BY <2>1, <3>1, <4>1
    <3>3. j \in 2..Len(p.held)
      BY <1>1, <3>2
    <3> QED
      BY <3>1, <3>3 DEF HeldAt
  <2> QED
    BY <1>1, <2>1 DEF Run, HoldsSound
<1>3. CursorSound(p)
  <2>1. Len(p.held) \in 2..Len(p.held)
    BY <1>1
  <2> QED
    BY <2>1 DEF Continues, CursorSound, HeldAt
<1>4. PumpsSound(p, S, F)
  BY DEF PumpsSound
<1>5. OrderSound(p)
  <2>1. \A i \in 2..Len(p.held) : Precedes(p.held[i - 1].event, p.held[i].event)
    <3> SUFFICES ASSUME NEW i \in 2..Len(p.held) PROVE Precedes(p.held[i - 1].event, p.held[i].event)
      OBVIOUS
    <3>1. i - 1 \in 1..Len(p.held) /\ i \in 1..Len(p.held) /\ i - 1 < i
      BY <1>1
    <3> QED
      BY <3>1 DEF Run
  <2> QED
    BY <2>1 DEF OrderSound, Continues, LastHeld
<1> QED
  BY <1>2, <1>3, <1>4, <1>5 DEF Sound

\* What the server answers for a cursor is sound.
LEMMA ChunkIsSound ==
    ASSUME StreamAssumption, StoredOrderly, NEW cursor, NEW F, F \subseteq Older(stored, cursor.watermark),
           cursor.after \in Older(stored, cursor.watermark), NextChunk(cursor) # NoAnswer
    PROVE  ChunkSound(NextChunk(cursor), cursor.after, cursor.watermark, stored, F)
<1> DEFINE E == OrderedEvents(cursor.watermark)
           after == cursor.after
           K == PositionAfter(E, after)
           chunk == NextChunk(cursor)
<1>1. E = Older(stored, cursor.watermark)
  BY DEF OrderedEvents, Older
<1>2. Orderly(E) /\ after \in E
  BY <1>1, OpenedOrderly
<1>3. after # None
  BY <1>2 DEF Orderly
<1>4. K = {e \in E : Precedes(after, e)}
  BY <1>3 DEF PositionAfter
<1>5. /\ Run(chunk.events, K)
      /\ Continues(chunk.cursor, cursor.watermark, chunk.events[Len(chunk.events)].event)
  BY <1>2, ChunkIs
<1> HIDE DEF chunk, K
<1>6. chunk.events \in Seq(Item) /\ Len(chunk.events) # 0 /\ Len(chunk.events) \in Nat
  BY <1>5 DEF Run
<1>7. \A i \in 1..Len(chunk.events) :
         /\ chunk.events[i].event \in E /\ chunk.events[i].base = chunk.events[i].at
         /\ Precedes(after, chunk.events[i].event)
  BY <1>4, <1>5 DEF Run
<1>8. \A i, j \in 1..Len(chunk.events) : i < j => Precedes(chunk.events[i].event, chunk.events[j].event)
  BY <1>5 DEF Run
<1>9. \A i \in 1..Len(chunk.events), e \in F :
         Precedes(after, e) /\ ~ Precedes(chunk.events[i].event, e)
            => \E j \in 1..i : chunk.events[j].event = e
  BY <1>1, <1>4, <1>5 DEF Run
<1> HIDE DEF E, after
<1> QED
  BY <1>1, <1>5, <1>6, <1>7, <1>8, <1>9 DEF ChunkSound, chunk, after

\* The events of a cursor are stored.
LEMMA CursorStored ==
    ASSUME NEW p, NEW S, NEW F, HoldsSound(p, S, F), CursorSound(p), p.cursor # None
    PROVE  p.cursor.watermark = p.watermark /\ p.cursor.after \in Older(S, p.watermark)
<1>1. PICK k \in 2..Len(p.held) : p.held[k].event = p.cursor.after
  BY DEF CursorSound, HeldAt
<1>2. k \in 1..Len(p.held)
  BY DEF HoldsSound
<1> QED
  BY <1>1, <1>2 DEF HoldsSound, CursorSound

\* A pump goes on with a chunk it has,
LEMMA MoreKeeps ==
    ASSUME PlayerAssumption, NEW p, NEW q, NEW S, NEW F, NEW c, Sound(p, S, F, c),
           q \in p.pumps, q.gen = p.gen, q.chunk # NoAnswer, q.added < Len(q.chunk.events)
    PROVE  Sound(AddBatch(p, q), S, F, c)
<1>1. /\ PageShape(p, S, F) /\ HoldsSound(p, S, F) /\ CursorSound(p) /\ SeeksSound(p)
      /\ PumpsSound(p, S, F) /\ (c \/ OrderSound(p))
  BY DEF Sound
<1>2. /\ CurrentSound(p, q, S, F)
      /\ \A x \in p.pumps : x.gen \in Nat /\ x.gen <= p.gen
      /\ \A x \in p.pumps : x.gen = p.gen => x = q
  BY <1>1 DEF PumpsSound
<1>3. Adding(p, q, S, F) /\ q.added # 0
  <2>1. q.added \in Nat /\ q.added # 0
    BY <1>2 DEF CurrentSound, AddedSound, ChunkSound
  <2> QED
    BY <1>2, <2>1 DEF CurrentSound, AddedSound, Adding
<1>4. c \/ AddsInOrder(p, q)
  BY <1>1, <1>3 DEF OrderSound, AddsInOrder
<1> QED
  BY <1>1, <1>2, <1>3, <1>4, AddKeeps

\* or with one that has arrived.
LEMMA ArrivalKeeps ==
    ASSUME PlayerAssumption, NEW p, NEW q, NEW S, NEW F, NEW c, Sound(p, S, F, c),
           q \in p.pumps, q.gen = p.gen, q.chunk = NoAnswer, NEW chunk, chunk # NoAnswer,
           ChunkSound(chunk, p.cursor.after, p.watermark, S, F), NEW x, x = [q EXCEPT !.chunk = chunk],
           NEW r, r = [p EXCEPT !.switches = @ \o chunk.switches, !.pumps = (@ \ {q}) \union {x}]
    PROVE  Sound(AddBatch(r, x), S, F, c)
<1>1. /\ PageShape(p, S, F) /\ HoldsSound(p, S, F) /\ CursorSound(p) /\ SeeksSound(p)
      /\ PumpsSound(p, S, F) /\ (c \/ OrderSound(p))
  BY DEF Sound
<1>2. /\ CurrentSound(p, q, S, F)
      /\ \A y \in p.pumps : y.gen \in Nat /\ y.gen <= p.gen
      /\ \A y \in p.pumps : y.gen = p.gen => y = q
  BY <1>1 DEF PumpsSound
<1>3. /\ DOMAIN r = PageFields /\ r.held = p.held /\ r.cursor = p.cursor /\ r.watermark = p.watermark
      /\ r.gen = p.gen /\ r.seekGen = p.seekGen /\ r.seeking = p.seeking /\ r.seeks = p.seeks
      /\ r.pumps = (p.pumps \ {q}) \union {x}
  <2> DEFINE switches == p.switches \o chunk.switches
             pumps == (p.pumps \ {q}) \union {x}
  <2>1. r = [p EXCEPT !.switches = switches, !.pumps = pumps]
    OBVIOUS
  <2> HIDE DEF switches, pumps
  <2>2. /\ DOMAIN r = PageFields /\ r.held = p.held /\ r.cursor = p.cursor /\ r.watermark = p.watermark
        /\ r.gen = p.gen /\ r.seekGen = p.seekGen /\ r.seeking = p.seeking /\ r.seeks = p.seeks
        /\ r.pumps = pumps
    BY <1>1, <2>1 DEF PageShape, PageFields
  <2> QED
    BY <2>2 DEF pumps
<1>4. /\ x.gen = p.gen /\ x.cursor = p.cursor /\ x.chunk = chunk /\ x.added = 0
      /\ DOMAIN x = {"gen", "cursor", "chunk", "added"}
  BY <1>2 DEF CurrentSound
<1>5. \A e : HeldAt(p, e) <=> HeldAt(r, e)
  BY <1>3 DEF HeldAt
<1>6. PageShape(r, S, F) /\ HoldsSound(r, S, F) /\ CursorSound(r) /\ SeeksSound(r)
  BY <1>1, <1>3, <1>5 DEF PageShape, HoldsSound, CursorSound, SeeksSound
<1>7. /\ \A y \in r.pumps : y.gen \in Nat /\ y.gen <= r.gen
      /\ \A y \in r.pumps : y.gen = r.gen => y = x
  <2>1. p.gen \in Nat
    BY <1>1 DEF PageShape
  <2> QED
    BY <1>2, <1>3, <1>4, <2>1
<1>8. Adding(r, x, S, F)
  <2>1. 0 < Len(chunk.events)
    BY DEF ChunkSound
  <2>2. ~ p.seeking /\ p.cursor # None
    BY <1>2 DEF CurrentSound
  <2> QED
    BY <1>3, <1>4, <2>1, <2>2 DEF Adding
<1>9. c \/ AddsInOrder(r, x)
  BY <1>1, <1>2, <1>3, <1>4 DEF OrderSound, AddsInOrder, LastHeld, CurrentSound
<1> QED
  BY <1>6, <1>7, <1>8, <1>9, AddKeeps

\* What is known of the target of a seek once a chunk has been added.
Awaited(p, q) ==
    IF p.pending = None \/ q.chunk.ready = None THEN p.pending
    ELSE [p.pending EXCEPT !.ready = q.chunk.ready]

\* What the turn of a pump does once its chunk has been added, before it may
\* start again.
Turned(p, q, x) ==
    /\ DOMAIN x = PageFields /\ x.held = p.held /\ x.cursor = q.chunk.cursor
    /\ x.watermark = p.watermark /\ x.gen = p.gen /\ x.seekGen = p.seekGen
    /\ x.seeking = p.seeking /\ x.seeks = p.seeks /\ x.pumps = p.pumps \ {q}
    /\ x.switches = p.switches /\ x.initialTab = p.initialTab
    /\ x.from = p.from /\ x.duration = p.duration /\ x.failed = p.failed
    /\ \/ x.pending = Awaited(p, q)
       \/ /\ Awaited(p, q) # None /\ x.pending = None /\ x.time = Awaited(p, q).boundary
          /\ q.chunk.cursor = None \/ Awaited(p, q).ready = TRUE

\* The turn of a pump whose chunk has been added.
LEMMA TurnIs ==
    ASSUME NEW p, DOMAIN p = PageFields, NEW q
    PROVE  /\ \E x : Turned(p, q, x) /\ ChunkAdded(p, q) = Pump(x)
           /\ PlaySound(p) => PlaySound(ChunkAdded(p, q))
<1> DEFINE waiting == IF p.waiting = None THEN None ELSE [p.waiting EXCEPT !.received = TRUE]
           through == Max({p.through, q.chunk.through})
           pending == Awaited(p, q)
           cursor == q.chunk.cursor
           advanced == [p EXCEPT !.waiting = waiting, !.cursor = cursor, !.through = through, !.pending = pending]
           sought == CompletePendingSeekIfReady(advanced)
           done == IF advanced.pending # None /\ sought.pending = None THEN sought
                   ELSE SettleBoundaryWait(advanced)
           x == [done EXCEPT !.pumps = @ \ {q}]
<1>1. ChunkAdded(p, q) = Pump(x)
  BY DEF ChunkAdded, Awaited
<1>2. p.waiting = None => waiting = None
  OBVIOUS
<1> HIDE DEF waiting, through, pending, cursor
<1>3. /\ DOMAIN advanced = PageFields /\ advanced.held = p.held /\ advanced.cursor = cursor
      /\ advanced.watermark = p.watermark /\ advanced.gen = p.gen /\ advanced.seekGen = p.seekGen
      /\ advanced.seeking = p.seeking /\ advanced.seeks = p.seeks /\ advanced.pumps = p.pumps
      /\ advanced.switches = p.switches /\ advanced.initialTab = p.initialTab
      /\ advanced.from = p.from /\ advanced.duration = p.duration /\ advanced.failed = p.failed
      /\ advanced.pending = pending
      /\ PlaySound(p) => PlaySound(advanced)
  BY <1>2 DEF PageFields, PlaySound
<1> HIDE DEF advanced
<1>4. Same(advanced, done) /\ (PlaySound(advanced) => PlaySound(done))
  BY <1>3, CompleteAlike, SettleAlike
<1>8. \/ done.pending = pending
      \/ /\ pending # None /\ done.pending = None
         /\ done.time = pending.boundary /\ (cursor = None \/ pending.ready = TRUE)
  <2>1. CASE advanced.pending # None /\ sought.pending = None
    <3>1. sought = advanced \/ (sought.time = pending.boundary /\ (cursor = None \/ pending.ready = TRUE))
      BY <1>3 DEF CompletePendingSeekIfReady, Goto, PageFields, More
    <3> QED
      BY <1>3, <2>1, <3>1
  <2>2. CASE ~ (advanced.pending # None /\ sought.pending = None)
    <3>1. SettleBoundaryWait(advanced).pending = pending
      BY <1>3, SettleAlike
    <3> QED
      BY <2>2, <3>1
  <2> QED
    BY <2>1, <2>2
<1> HIDE DEF done
<1>5. Turned(p, q, x)
  <2>1. /\ DOMAIN x = PageFields /\ x.held = done.held /\ x.cursor = done.cursor
        /\ x.watermark = done.watermark /\ x.gen = done.gen /\ x.seekGen = done.seekGen
        /\ x.seeking = done.seeking /\ x.seeks = done.seeks /\ x.pumps = done.pumps \ {q}
        /\ x.switches = done.switches /\ x.initialTab = done.initialTab
        /\ x.from = done.from /\ x.duration = done.duration /\ x.failed = done.failed
        /\ x.pending = done.pending /\ x.time = done.time
    BY <1>4 DEF Same, PageFields
  <2> HIDE DEF x
  <2> QED
    BY <1>3, <1>4, <1>8, <2>1 DEF Turned, Same, Alike, cursor, pending
<1>6. PlaySound(done) => PlaySound(x)
  BY <1>4 DEF Same, PageFields, PlaySound
<1> HIDE DEF x
<1>7. PlaySound(x) => PlaySound(Pump(x))
  BY <1>5, PumpAlike DEF Turned
<1> QED
  BY <1>1, <1>3, <1>4, <1>5, <1>6, <1>7

\* It keeps the page sound.
LEMMA TurnKeeps ==
    ASSUME NEW p, NEW q, NEW S, NEW F, NEW c, Sound(p, S, F, c),
           q \in p.pumps, q.gen = p.gen, q.chunk # NoAnswer, ~ (q.added < Len(q.chunk.events))
    PROVE  Sound(ChunkAdded(p, q), S, F, c)
<1>1. /\ PageShape(p, S, F) /\ HoldsSound(p, S, F) /\ SeeksSound(p)
      /\ PumpsSound(p, S, F) /\ (c \/ OrderSound(p))
  BY DEF Sound
<1>2. PICK x : Turned(p, q, x) /\ ChunkAdded(p, q) = Pump(x)
  BY <1>1, TurnIs DEF PageShape
<1>5. /\ DOMAIN x = PageFields /\ x.held = p.held /\ x.cursor = q.chunk.cursor
      /\ x.watermark = p.watermark /\ x.gen = p.gen /\ x.seekGen = p.seekGen
      /\ x.seeking = p.seeking /\ x.seeks = p.seeks /\ x.pumps = p.pumps \ {q}
  BY <1>2 DEF Turned
<1>6. /\ \A y \in x.pumps : y.gen \in Nat /\ y.gen <= x.gen /\ y.gen # x.gen
      /\ CurrentSound(p, q, S, F)
  BY <1>1, <1>5 DEF PumpsSound
<1>7. /\ q.added = Len(q.chunk.events) /\ Len(q.chunk.events) \in Nat
      /\ Continues(q.chunk.cursor, p.watermark, q.chunk.events[Len(q.chunk.events)].event)
      /\ HeldAt(p, q.chunk.events[Len(q.chunk.events)].event)
  <2>1. ChunkSound(q.chunk, p.cursor.after, p.watermark, S, F) /\ AddedSound(p, q)
    BY <1>6 DEF CurrentSound
  <2>2. Len(q.chunk.events) \in Nat
    BY <2>1 DEF ChunkSound
  <2>3. q.added = Len(q.chunk.events) /\ q.added \in 1..q.added
    BY <2>1, <2>2 DEF AddedSound
  <2> QED
    BY <2>1, <2>2, <2>3 DEF AddedSound, ChunkSound
<1>8. \A e : HeldAt(p, e) <=> HeldAt(x, e)
  BY <1>5 DEF HeldAt
<1>9. PageShape(x, S, F) /\ HoldsSound(x, S, F) /\ SeeksSound(x)
  BY <1>1, <1>5, <1>8 DEF PageShape, HoldsSound, SeeksSound
<1>10. CursorSound(x)
  BY <1>5, <1>7, <1>8 DEF CursorSound, Continues
<1>11. PumpsSound(x, S, F)
  BY <1>6 DEF PumpsSound
<1>12. c \/ OrderSound(x)
  <2>1. x.cursor = None \/ x.cursor.after = q.chunk.events[q.added].event
    BY <1>5, <1>7 DEF Continues
  <2> QED
    BY <1>1, <1>5, <1>6, <2>1 DEF OrderSound, LastHeld
<1>13. Sound(x, S, F, c)
  BY <1>9, <1>10, <1>11, <1>12 DEF Sound
<1>14. Starts(x, Pump(x))
  <2>1. ~ Pumping(x)
    BY <1>6 DEF Pumping
  <2> QED
    BY <1>5, <2>1, PumpAlike DEF Starts
<1> QED
  BY <1>2, <1>13, <1>14, StartKeeps

\* A pump or a request that is over and has done nothing changes nothing.
LEMMA LessKeeps ==
    ASSUME NEW p, NEW r, NEW S, NEW F, NEW c, Sound(p, S, F, c),
           DOMAIN r = PageFields, r.held = p.held, r.cursor = p.cursor, r.watermark = p.watermark,
           r.gen = p.gen, r.seekGen = p.seekGen, r.seeking \in BOOLEAN, r.seeking => p.seeking,
           r.seeks \subseteq p.seeks, \A s \in r.seeks : s.gen = p.seekGen => r.seeking,
           r.pumps \subseteq p.pumps,
           \A q \in p.pumps \ r.pumps : q.gen # p.gen \/ q.chunk = NoAnswer
    PROVE  Sound(r, S, F, c)
<1>1. /\ PageShape(p, S, F) /\ HoldsSound(p, S, F) /\ CursorSound(p) /\ SeeksSound(p)
      /\ PumpsSound(p, S, F) /\ (c \/ OrderSound(p))
  BY DEF Sound
<1>2. \A e : HeldAt(p, e) <=> HeldAt(r, e)
  BY DEF HeldAt
<1>3. PageShape(r, S, F) /\ HoldsSound(r, S, F) /\ CursorSound(r) /\ SeeksSound(r)
  BY <1>1, <1>2 DEF PageShape, HoldsSound, CursorSound, SeeksSound
<1>4. ASSUME NEW q, CurrentSound(p, q, S, F) PROVE CurrentSound(r, q, S, F)
  <2>1. AddedSound(p, q) => AddedSound(r, q)
    BY <1>2 DEF AddedSound
  <2> QED
    BY <1>4, <2>1 DEF CurrentSound
<1>5. PumpsSound(r, S, F)
  BY <1>1, <1>4 DEF PumpsSound
<1>6. c \/ OrderSound(r)
  BY <1>1 DEF OrderSound, LastHeld
<1> QED
  BY <1>3, <1>5, <1>6 DEF Sound

\* A seek within what is held leaves it as it is, any other one abandons the pump.
LEMMA SeekKeeps ==
    ASSUME NEW p, NEW S, NEW F, NEW c, Sound(p, S, F, c), NEW target,
           NEW d, d <=> (c \/ (SeekTo(p, target).gen # p.gen /\ HalfAdded(p)))
    PROVE  Sound(SeekTo(p, target), S, F, d)
<1> DEFINE r == SeekTo(p, target)
<1>1. /\ PageShape(p, S, F) /\ HoldsSound(p, S, F) /\ CursorSound(p) /\ SeeksSound(p)
      /\ PumpsSound(p, S, F) /\ (c \/ OrderSound(p))
  BY DEF Sound
<1>2. PICK boundary : r = LocalSeek(p, boundary) \/ r = RemoteSeek(p, target)
  BY DEF SeekTo
<1>3. p.gen \in Nat /\ p.seekGen \in Nat /\ DOMAIN p = PageFields
  BY <1>1 DEF PageShape
<1>4. CASE r = LocalSeek(p, boundary)
  <2> HIDE DEF r
  <2>1. /\ DOMAIN r = PageFields /\ r.held = p.held /\ r.cursor = p.cursor /\ r.watermark = p.watermark
        /\ r.gen = p.gen /\ r.seekGen = p.seekGen + 1 /\ r.seeking = FALSE /\ r.seeks = p.seeks
        /\ r.pumps = p.pumps
    BY <1>3, <1>4 DEF LocalSeek, Goto, PageFields
  <2>2. \A e : HeldAt(p, e) <=> HeldAt(r, e)
    BY <2>1 DEF HeldAt
  <2>3. PageShape(r, S, F) /\ HoldsSound(r, S, F) /\ CursorSound(r)
    BY <1>1, <1>3, <2>1, <2>2 DEF PageShape, HoldsSound, CursorSound
  <2>4. SeeksSound(r)
    <3>1. \A s \in r.seeks : s.gen \in Nat /\ s.gen <= p.seekGen
      BY <1>1, <2>1 DEF SeeksSound
    <3>2. \A s \in r.seeks : s.gen <= r.seekGen /\ s.gen # r.seekGen
      BY <1>3, <2>1, <3>1
    <3> QED
      BY <1>1, <2>1, <3>1, <3>2 DEF SeeksSound
  <2>5. ASSUME NEW q, CurrentSound(p, q, S, F) PROVE CurrentSound(r, q, S, F)
    <3>1. AddedSound(p, q) => AddedSound(r, q)
      BY <2>2 DEF AddedSound
    <3> QED
      BY <2>1, <2>5, <3>1 DEF CurrentSound
  <2>6. PumpsSound(r, S, F)
    BY <1>1, <2>1, <2>5 DEF PumpsSound
  <2>7. d \/ OrderSound(r)
    BY <1>1, <2>1 DEF OrderSound, LastHeld
  <2> QED
    BY <2>3, <2>4, <2>6, <2>7 DEF Sound, r
<1>5. CASE r = RemoteSeek(p, target)
  <2> HIDE DEF r
  <2> DEFINE new == [gen |-> p.seekGen + 1, target |-> target]
  <2>1. /\ DOMAIN r = PageFields /\ r.held = p.held /\ r.cursor = p.cursor /\ r.watermark = p.watermark
        /\ r.gen = p.gen + 1 /\ r.seekGen = p.seekGen + 1 /\ r.seeking = TRUE
        /\ r.seeks = p.seeks \union {new}
        /\ r.pumps = p.pumps
    BY <1>3, <1>5 DEF RemoteSeek, CancelChunkPump, PageFields
  <2>2. \A e : HeldAt(p, e) <=> HeldAt(r, e)
    BY <2>1 DEF HeldAt
  <2>3. PageShape(r, S, F) /\ HoldsSound(r, S, F) /\ CursorSound(r)
    BY <1>1, <1>3, <2>1, <2>2 DEF PageShape, HoldsSound, CursorSound
  <2>4. SeeksSound(r)
    <3>1. \A s \in p.seeks : s.gen \in Nat /\ s.gen <= p.seekGen
      BY <1>1 DEF SeeksSound
    <3>2. new.gen = p.seekGen + 1
      OBVIOUS
    <3> HIDE DEF new
    <3>3. \A s \in r.seeks : s.gen \in Nat /\ s.gen <= r.seekGen
      BY <1>3, <2>1, <3>1, <3>2
    <3>4. \A s \in p.seeks : s.gen # new.gen
      BY <1>3, <3>1, <3>2
    <3>5. \A s1, s2 \in r.seeks : s1.gen = s2.gen => s1 = s2
      BY <1>1, <2>1, <3>4 DEF SeeksSound
    <3> QED
      BY <2>1, <3>3, <3>5 DEF SeeksSound
  <2> HIDE DEF new
  <2>5. \A q \in r.pumps : q.gen \in Nat /\ q.gen <= r.gen /\ q.gen # r.gen
    <3>1. \A q \in r.pumps : q.gen \in Nat /\ q.gen <= p.gen
      BY <1>1, <2>1 DEF PumpsSound
    <3> QED
      BY <1>3, <2>1, <3>1
  <2>6. PumpsSound(r, S, F)
    BY <2>5 DEF PumpsSound
  <2>7. CASE ~ d
    <3>1. r.gen # p.gen
      BY <1>3, <2>1
    <3>2. OrderSound(p) /\ ~ HalfAdded(p)
      BY <1>1, <2>7, <3>1 DEF r
    <3>3. \A q \in p.pumps : q.gen = p.gen => q.chunk = NoAnswer
      <4> SUFFICES ASSUME NEW q \in p.pumps, q.gen = p.gen PROVE q.chunk = NoAnswer
        OBVIOUS
      <4>1. CurrentSound(p, q, S, F)
        BY <1>1 DEF PumpsSound
      <4>2. q.chunk # NoAnswer => q.added \in Nat /\ q.added > 0
        BY <4>1 DEF CurrentSound, AddedSound, ChunkSound
      <4> QED
        BY <3>2, <4>2 DEF HalfAdded
    <3>4. OrderSound(r)
      BY <2>1, <2>5, <3>2, <3>3 DEF OrderSound, LastHeld
    <3> QED
      BY <2>3, <2>4, <2>6, <3>4 DEF Sound, r
  <2>8. CASE d
    BY <2>3, <2>4, <2>6, <2>8 DEF Sound, r
  <2> QED
    BY <2>7, <2>8
<1> QED
  BY <1>2, <1>4, <1>5

-----------------------------------------------------------------------------
(* What a viewer does.                                                     *)

\* What is left alone may have a pump start after it.
LEMMA SameStarts ==
    ASSUME NEW p, NEW q, NEW r, Same(p, q)
    PROVE  Starts(p, q) /\ (Starts(q, r) => Starts(p, r)) /\ (Same(q, r) => Same(p, r))
           /\ DOMAIN q = PageFields
BY DEF Same, Starts, Pumps, Alike, Fresh, Pumping

\* Playing and pausing.
LEMMA PlayKeeps ==
    ASSUME Play, DOMAIN page = PageFields, PlaySound(page)
    PROVE  Starts(page, page') /\ PlaySound(page') /\ page'.pending = page.pending
<1> DEFINE p == [page EXCEPT !.intent = TRUE]
           settled == SettleBoundaryWait(p)
           b == [p EXCEPT !.buffering = TRUE]
           s == [settled EXCEPT !.buffering = TRUE]
           g == Goto(p, p.time, TRUE)
<1>1. Same(page, p) /\ PlaySound(p) /\ p.intent = TRUE /\ p.pending = page.pending
  BY DEF Same, Alike, PageFields, PlaySound
<1>2. \/ page' = b
      \/ page' = p
      \/ page' = FetchOne(b)
      \/ page' = settled
      \/ page' = FetchOne(s)
      \/ page' = EnsurePump(s)
      \/ p.waiting = None /\ page' = g
  BY DEF Play, Changes
<1> HIDE DEF p
<1>3. DOMAIN p = PageFields
  BY <1>1 DEF Same
<1>4. Same(p, b) /\ PlaySound(b) /\ b.pending = p.pending
  BY <1>1, <1>3 DEF Same, Alike, PageFields, PlaySound
<1>5. Same(p, settled) /\ PlaySound(settled) /\ settled.pending = p.pending
  BY <1>1, <1>3, SettleAlike
<1> HIDE DEF settled, b
<1>6. DOMAIN settled = PageFields /\ DOMAIN b = PageFields
  BY <1>4, <1>5 DEF Same
<1>7. Same(settled, s) /\ PlaySound(s) /\ s.pending = settled.pending
  BY <1>5, <1>6 DEF Same, Alike, PageFields, PlaySound
<1> HIDE DEF s
<1>8. DOMAIN s = PageFields
  BY <1>7 DEF Same
<1>9. /\ Starts(b, FetchOne(b)) /\ PlaySound(FetchOne(b))
      /\ Starts(s, FetchOne(s)) /\ PlaySound(FetchOne(s))
      /\ Starts(s, EnsurePump(s)) /\ PlaySound(EnsurePump(s))
      /\ FetchOne(b).pending = b.pending /\ FetchOne(s).pending = s.pending
      /\ EnsurePump(s).pending = s.pending
  BY <1>4, <1>6, <1>7, <1>8, FetchAlike, EnsureAlike
<1>10. Same(p, g) /\ g.pending = p.pending /\ (p.waiting = None => PlaySound(g))
  BY <1>1, <1>3 DEF Same, Alike, Goto, PageFields, PlaySound
<1> HIDE DEF g
<1>11. Same(page, b) /\ Same(page, settled) /\ Same(page, s) /\ Same(page, g)
  <2>1. Same(page, b) /\ Same(page, settled)
    BY <1>1, <1>4, <1>5, SameTwice
  <2>2. Same(page, s)
    BY <1>7, <2>1, SameTwice
  <2>3. Same(page, g)
    BY <1>1, <1>10, SameTwice
  <2> QED
    BY <2>1, <2>2, <2>3
<1>12. page'.pending = page.pending
  BY <1>1, <1>2, <1>4, <1>5, <1>7, <1>9, <1>10
<1> QED
  BY <1>1, <1>2, <1>4, <1>5, <1>7, <1>9, <1>10, <1>11, <1>12, SameStarts

\* Pausing stops the player, and
LEMMA PauseKeeps ==
    ASSUME Pause, DOMAIN page = PageFields, PlaySound(page)
    PROVE  Starts(page, page') /\ PlaySound(page') /\ page'.pending = page.pending
<1>1. Same(page, page') /\ PlaySound(page') /\ page'.pending = page.pending
  BY DEF Pause, Changes, Same, Alike, PageFields, PlaySound
<1> QED
  BY <1>1, SameStarts

\* What the player reports.
LEMMA ObserveKeeps ==
    ASSUME NEW time, ObserveTime(time), DOMAIN page = PageFields, PlaySound(page)
    PROVE  Starts(page, page') /\ PlaySound(page') /\ page'.pending = page.pending
<1> DEFINE p == [page EXCEPT !.time = time]
<1>1. Same(page, p) /\ PlaySound(p) /\ p.pending = page.pending
  BY DEF Same, Alike, PageFields, PlaySound
<1>2. page' = FetchOne(p) \/ page' = p
  BY DEF ObserveTime, Changes
<1> HIDE DEF p
<1>3. Starts(p, FetchOne(p)) /\ PlaySound(FetchOne(p)) /\ FetchOne(p).pending = p.pending
  BY <1>1, SameStarts, FetchAlike
<1> QED
  BY <1>1, <1>2, <1>3, SameStarts

\* The end of what is held.
LEMMA FinishKeeps ==
    ASSUME Finish, DOMAIN page = PageFields, PlaySound(page)
    PROVE  Starts(page, page') /\ PlaySound(page') /\ page'.pending = page.pending
<1> DEFINE p == [page EXCEPT !.running = FALSE]
           waiting == [p EXCEPT
              !.waiting = IF @ # None THEN @
                          ELSE [through |-> p.through, received |-> FALSE],
              !.buffering = @ \/ (p.intent /\ ~ p.error)]
           w == [waiting EXCEPT !.wanted = More(p)]
<1>1. Same(page, p) /\ PlaySound(p) /\ p.running = FALSE /\ p.pending = page.pending
  BY DEF Same, Alike, PageFields, PlaySound
<1>2. page' = NotifyTrueEnd(p) \/ page' = waiting \/ page' = EnsurePump(w)
  BY DEF Finish, Changes
<1> HIDE DEF p
<1>3. DOMAIN p = PageFields
  BY <1>1 DEF Same
<1>4. Same(p, waiting) /\ PlaySound(waiting) /\ waiting.running = FALSE
      /\ waiting.pending = p.pending
  BY <1>1, <1>3 DEF Same, Alike, PageFields, PlaySound
<1> HIDE DEF waiting
<1>5. DOMAIN waiting = PageFields
  BY <1>4 DEF Same
<1>6. Same(waiting, w) /\ PlaySound(w) /\ w.pending = waiting.pending
  BY <1>4, <1>5 DEF Same, Alike, PageFields, PlaySound
<1> HIDE DEF w
<1>7. Same(p, NotifyTrueEnd(p)) /\ PlaySound(NotifyTrueEnd(p)) /\ NotifyTrueEnd(p).pending = p.pending
  BY <1>1, <1>3, EndAlike
<1>8. Starts(w, EnsurePump(w)) /\ PlaySound(EnsurePump(w)) /\ EnsurePump(w).pending = w.pending
  BY <1>6, SameStarts, EnsureAlike
<1>9. Same(page, waiting) /\ Same(page, w) /\ Same(page, NotifyTrueEnd(p))
  BY <1>1, <1>4, <1>6, <1>7, SameTwice
<1> QED
  BY <1>1, <1>2, <1>4, <1>6, <1>7, <1>8, <1>9, SameStarts

\* A seek keeps the intent too.
LEMMA SeekPlays ==
    ASSUME NEW p, DOMAIN p = PageFields, PlaySound(p), NEW target
    PROVE  PlaySound(SeekTo(p, target))
<1>1. PICK boundary : SeekTo(p, target) = LocalSeek(p, boundary) \/ SeekTo(p, target) = RemoteSeek(p, target)
  BY DEF SeekTo
<1>2. PlaySound(LocalSeek(p, boundary))
  BY DEF LocalSeek, Goto, PageFields, PlaySound
<1>3. PlaySound(RemoteSeek(p, target))
  BY DEF RemoteSeek, CancelChunkPump, PageFields, PlaySound
<1> QED
  BY <1>1, <1>2, <1>3

\* The retry of what failed.
LEMMA RetryFetchKeeps ==
    ASSUME NEW p, NEW r, DOMAIN p = PageFields, PlaySound(p),
           r = FetchOne([[p EXCEPT !.error = FALSE] EXCEPT !.buffering = TRUE])
    PROVE  Starts(p, r) /\ PlaySound(r) /\ r.pending = p.pending
<1> DEFINE x == [[p EXCEPT !.error = FALSE] EXCEPT !.buffering = TRUE]
<1>1. Same(p, x) /\ PlaySound(x) /\ x.pending = p.pending
  BY DEF Same, Alike, PageFields, PlaySound
<1> HIDE DEF x
<1>2. Starts(x, FetchOne(x)) /\ PlaySound(FetchOne(x)) /\ FetchOne(x).pending = x.pending
  BY <1>1, SameStarts, FetchAlike
<1>3. r = FetchOne(x)
  BY DEF x
<1> QED
  BY <1>1, <1>2, <1>3, SameStarts

-----------------------------------------------------------------------------
(* New players.                                                            *)

\* What is known of a seek's target when the server has answered it.
Answered(s, reply) ==
    IF reply.cursor = None \/ reply.ready THEN None
    ELSE [target |-> s.target, boundary |-> reply.start.target, ready |-> FALSE]

\* The page with a new player, before its pump starts.
Renewed(p, s, reply, y) ==
    /\ DOMAIN y = PageFields /\ y.held = reply.events /\ y.cursor = reply.cursor
    /\ y.watermark = p.watermark /\ y.gen = p.gen /\ y.seekGen = p.seekGen
    /\ y.seeks = p.seeks \ {s} /\ y.pumps = p.pumps /\ y.seeking = FALSE
    /\ y.switches = reply.switches /\ y.initialTab = reply.start.initialTab
    /\ y.from = reply.start.from /\ y.duration = p.duration /\ y.failed = None
    /\ y.pending = Answered(s, reply) /\ y.time = reply.start.target
    /\ PlaySound(y)

\* A new player takes the place of the old one.
LEMMA ReplacedIs ==
    ASSUME NEW p, DOMAIN p = PageFields, PlaySound(p), NEW s, NEW reply
    PROVE  LET r == Replaced(WithoutSeek(p, s), s, reply)
           IN  \E y : Renewed(p, s, reply, y) /\ (r = y \/ r = EnsurePump(y))
<1> DEFINE ready == reply.cursor = None \/ reply.ready
           p0 == WithoutSeek(p, s)
           pending == Answered(s, reply)
           q == [p0 EXCEPT
                !.held = reply.events, !.switches = reply.switches,
                !.initialTab = reply.start.initialTab, !.from = reply.start.from,
                !.through = reply.through, !.cursor = reply.cursor,
                !.error = FALSE, !.failed = None, !.waiting = None,
                !.seeking = FALSE, !.buffering = ~ ready, !.pending = pending]
           shown == Goto(q, reply.start.target, ready /\ p0.intent)
           y == IF q.cursor # None THEN [shown EXCEPT !.wanted = TRUE] ELSE shown
           r == Replaced(p0, s, reply)
<1>1. r = IF q.cursor # None THEN EnsurePump(y) ELSE y
  BY DEF Replaced, More, Answered
<1>2. /\ DOMAIN p0 = PageFields /\ p0.watermark = p.watermark /\ p0.gen = p.gen /\ p0.seekGen = p.seekGen
      /\ p0.seeks = p.seeks \ {s} /\ p0.pumps = p.pumps /\ p0.intent = p.intent
      /\ p0.duration = p.duration
  BY DEF WithoutSeek, PageFields
<1> HIDE DEF p0, ready, pending
<1>3. /\ DOMAIN q = PageFields /\ q.held = reply.events /\ q.cursor = reply.cursor
      /\ q.watermark = p.watermark /\ q.gen = p.gen /\ q.seekGen = p.seekGen
      /\ q.seeks = p.seeks \ {s} /\ q.pumps = p.pumps /\ q.seeking = FALSE
      /\ q.intent = p.intent /\ q.waiting = None
      /\ q.switches = reply.switches /\ q.initialTab = reply.start.initialTab
      /\ q.from = reply.start.from /\ q.duration = p.duration /\ q.failed = None
      /\ q.pending = pending
  BY <1>2 DEF PageFields
<1> HIDE DEF q
<1>4. Same(q, shown) /\ shown.pending = pending /\ shown.time = reply.start.target
  BY <1>3, GotoAlike
<1>5. PlaySound(shown)
  <2>1. /\ shown.running = (ready /\ p.intent) /\ shown.intent = p.intent /\ shown.waiting = None
    BY <1>2, <1>3 DEF Goto, PageFields
  <2>2. p.intent \in BOOLEAN
    BY DEF PlaySound
  <2> QED
    BY <2>1, <2>2 DEF PlaySound
<1> HIDE DEF shown
<1> DEFINE wanted == [shown EXCEPT !.wanted = TRUE]
<1>6. /\ Same(shown, wanted) /\ PlaySound(wanted)
      /\ wanted.pending = shown.pending /\ wanted.time = shown.time
  BY <1>4, <1>5 DEF Same, Alike, PageFields, PlaySound
<1> HIDE DEF wanted
<1>9. y = wanted \/ y = shown
  BY DEF wanted
<1> HIDE DEF y
<1>7. Same(q, y) /\ PlaySound(y) /\ y.pending = pending /\ y.time = reply.start.target
  BY <1>9, <1>4, <1>5, <1>6, SameTwice
<1>8. Renewed(p, s, reply, y)
  BY <1>3, <1>7 DEF Same, Alike, Renewed, pending
<1> QED
  BY <1>1, <1>8 DEF p0, y

\* It is sound.
LEMMA ReplacedKeeps ==
    ASSUME StreamAssumption, StoredOrderly, NEW p, NEW S, NEW F, NEW c, NEW d, S = stored, Sound(p, S, F, c),
           PlaySound(p), NEW s \in p.seeks, s.gen = p.seekGen, NEW requested,
           SeekAnswer(p.watermark, requested) # NoAnswer
    PROVE  LET r == Replaced(WithoutSeek(p, s), s, SeekAnswer(p.watermark, requested))
           IN  Sound(r, S, F, d) /\ PlaySound(r)
<1> DEFINE w == p.watermark
           E == OrderedEvents(w)
           snapshot == SeekSnapshot(E, requested)
           K == SeekEvents(E, snapshot)
           reply == SeekAnswer(w, requested)
           r == Replaced(WithoutSeek(p, s), s, reply)
<1>1. /\ PageShape(p, S, F) /\ SeeksSound(p) /\ PumpsSound(p, S, F)
  BY DEF Sound
<1>2. E = Older(S, w) /\ Orderly(E) /\ F \subseteq E /\ Snapshots(E) # {}
  BY <1>1, OpenedOrderly DEF Older, OrderedEvents, PageShape, Snapshots
<1>3. /\ snapshot \in E /\ LatestInitializerMetaAt(E, snapshot) # None
      /\ Run(reply.events, K) /\ Len(reply.events) >= 2
      /\ reply.events[2].event = snapshot
      /\ Continues(reply.cursor, w, reply.events[Len(reply.events)].event)
  BY <1>2, SeekIs
<1> HIDE DEF E, reply, snapshot
<1>4. K \subseteq E /\ \A e \in F : ~ Precedes(e, snapshot) => e \in K
  BY <1>2, <1>3, MetaIs DEF SeekEvents
<1> HIDE DEF K
<1>5. PICK y : Renewed(p, s, reply, y) /\ (r = y \/ r = EnsurePump(y))
  BY <1>1, ReplacedIs DEF PageShape
<1> HIDE DEF r
<1>6. /\ DOMAIN y = PageFields /\ y.held = reply.events /\ y.cursor = reply.cursor
      /\ y.watermark = p.watermark /\ y.gen = p.gen /\ y.seekGen = p.seekGen
      /\ y.seeks = p.seeks \ {s} /\ y.pumps = p.pumps /\ y.seeking = FALSE /\ PlaySound(y)
  BY <1>5 DEF Renewed
<1>7. p.seeking /\ \A x \in p.pumps : x.gen \in Nat /\ x.gen <= p.gen /\ x.gen # p.gen
  <2>1. p.seeking
    BY <1>1 DEF SeeksSound
  <2> QED
    BY <1>1, <2>1 DEF PumpsSound, CurrentSound
<1>8. PageShape(y, S, F) /\ SeeksSound(y)
  BY <1>1, <1>6 DEF PageShape, SeeksSound
<1>9. Sound(y, S, F, d)
  BY <1>2, <1>3, <1>4, <1>6, <1>7, <1>8, StartSound
<1>10. Starts(y, EnsurePump(y)) /\ PlaySound(EnsurePump(y))
  BY <1>6, EnsureAlike
<1>11. Sound(EnsurePump(y), S, F, d)
  BY <1>9, <1>10, StartKeeps
<1>12. Sound(r, S, F, d) /\ PlaySound(r)
  BY <1>5, <1>6, <1>9, <1>10, <1>11
<1> QED
  BY <1>12 DEF reply, r

\* The ids of finitely many events are bounded.
LEMMA IdsBounded ==
    ASSUME NEW S, Orderly(S)
    PROVE  \E n \in Nat : \A e \in S : e.id <= n
<1> DEFINE C == InOrder(S)
           m == Cardinality(S)
           Bound(k) == \E n \in Nat : \A i \in 1..k : C[i].id <= n
           T == {k \in 0..m : ~ Bound(k)}
<1>1. Ordering(C, S) /\ m \in Nat
  BY InOrderOrders
<1> HIDE DEF C
<1>2. DOMAIN C = 1..m /\ Range(C) = S /\ \A i \in 1..m : C[i] \in S
  BY <1>1, OrderingSequence
<1> HIDE DEF m
<1>3. \A i \in 1..m : C[i].id \in Nat
  BY <1>2 DEF Orderly
<1>4. Bound(0)
  BY 0 \in Nat
<1>5. ASSUME NEW k \in 1..m, Bound(k - 1) PROVE Bound(k)
  <2>1. PICK n \in Nat : \A i \in 1..(k - 1) : C[i].id <= n
    BY <1>5
  <2>2. C[k].id \in Nat
    BY <1>3
  <2>3. ASSUME NEW i \in 1..k PROVE C[i].id <= n + C[k].id
    <3>1. CASE i = k
      BY <2>2, <3>1
    <3>2. CASE i # k
      <4>1. i \in 1..(k - 1) /\ i \in 1..m
        BY <1>1, <3>2
      <4>2. C[i].id \in Nat /\ C[i].id <= n
        BY <1>3, <2>1, <4>1
      <4> QED
        BY <2>2, <4>2
    <3> QED
      BY <3>1, <3>2
  <2>4. n + C[k].id \in Nat
    BY <2>2
  <2> QED
    BY <2>3, <2>4
<1> HIDE DEF Bound
<1>6. T = {}
  <2> SUFFICES ASSUME T # {} PROVE FALSE
    OBVIOUS
  <2>1. T \subseteq Nat
    BY <1>1
  <2>2. PICK k \in T : \A l \in T : k <= l
    BY <2>1, LeastNatural
  <2>3. k \in 0..m /\ ~ Bound(k)
    BY <2>2
  <2>4. k # 0
    BY <1>4, <2>3
  <2>5. k \in 1..m /\ k - 1 \in 0..m /\ ~ (k <= k - 1)
    BY <1>1, <2>3, <2>4
  <2>6. k - 1 \notin T
    BY <2>2, <2>5
  <2>7. Bound(k - 1)
    BY <2>5, <2>6
  <2> QED
    BY <1>5, <2>3, <2>5, <2>7
<1>7. Bound(m)
  BY <1>1, <1>6
<1>8. PICK n \in Nat : \A i \in 1..m : C[i].id <= n
  BY <1>7 DEF Bound
<1>9. \A e \in S : \E i \in 1..m : C[i] = e
  BY <1>2 DEF Range
<1> QED
  BY <1>8, <1>9

\* The highest id of some events bounds them.
LEMMA HighestIs ==
    ASSUME NEW S, Orderly(S), S # {}
    PROVE  Max({x.id : x \in S}) \in Nat /\ \A e \in S : e.id <= Max({x.id : x \in S})
<1> DEFINE T == {x.id : x \in S}
<1>1. PICK n \in Nat : \A e \in S : e.id <= n
  BY IdsBounded
<1>2. T \subseteq 0..n /\ T # {} /\ \A e \in S : e.id \in T
  BY <1>1 DEF Orderly
<1> HIDE DEF T
<1>3. Max(T) \in T /\ \A y \in T : y <= Max(T)
  BY <1>1, <1>2, GreatestUpTo
<1> QED
  BY <1>1, <1>2, <1>3 DEF T

\* The page that opens, before its pump starts: w is the highest id.
Opened(reply, w, p) ==
    /\ DOMAIN p = PageFields /\ p.held = reply.events /\ p.cursor = reply.cursor
    /\ p.watermark = w /\ p.gen = 0 /\ p.seekGen = 0 /\ p.seeking = FALSE
    /\ p.pumps = {} /\ p.seeks = {}
    /\ p.switches = reply.switches /\ p.initialTab = reply.start.initialTab
    /\ p.from = reply.start.from /\ p.duration = reply.start.duration
    /\ p.failed = None /\ p.pending = None
    /\ PlaySound(p)

\* A page opens with the recording's start and a pump.
LEMMA OpenIs ==
    ASSUME Orderly(stored), Open
    PROVE  \E w, p : /\ w \in Nat /\ OrderedEvents(w) = stored /\ Older(stored, w) = stored
                     /\ Snapshots(stored) # {} /\ Bootstrap(w) # NoAnswer
                     /\ Opened(Bootstrap(w), w, p) /\ (page' = p \/ page' = FetchOne(p))
<1> DEFINE w == Max({e.id : e \in stored})
           reply == Bootstrap(w)
           p == [held |-> reply.events, switches |-> reply.switches,
                 initialTab |-> reply.start.initialTab, from |-> reply.start.from,
                 through |-> reply.through, cursor |-> reply.cursor,
                 watermark |-> w, duration |-> reply.start.duration,
                 time |-> 0, running |-> FALSE, intent |-> FALSE,
                 buffering |-> FALSE, waiting |-> None, error |-> FALSE,
                 failed |-> None, wanted |-> FALSE, pending |-> None,
                 seeking |-> FALSE, gen |-> 0, seekGen |-> 0,
                 pumps |-> {}, seeks |-> {}]
<1>1. /\ Replayable(stored) /\ reply # NoAnswer
      /\ page' = IF p.cursor # None THEN FetchOne(p) ELSE p
  BY DEF Open, More
<1>2. Snapshots(stored) # {} /\ stored # {}
  BY <1>1 DEF Replayable, Snapshots
<1>3. w \in Nat /\ \A e \in stored : e.id <= w
  BY <1>2, HighestIs
<1> HIDE DEF w
<1>4. OrderedEvents(w) = stored /\ Older(stored, w) = stored
  BY <1>3 DEF OrderedEvents, Older
<1> HIDE DEF reply
<1>5. Opened(reply, w, p)
  BY DEF PageFields, Opened, PlaySound
<1> HIDE DEF p
<1>6. page' = p \/ page' = FetchOne(p)
  BY <1>1
<1> QED
  BY <1>1, <1>2, <1>3, <1>4, <1>5, <1>6 DEF reply

\* It is sound.
LEMMA OpenKeeps ==
    ASSUME StreamAssumption, StoredOrderly, Open
    PROVE  Sound(page', stored, stored, cut) /\ PlaySound(page')
<1>1. Orderly(stored)
  BY DEF StoredOrderly
<1>2. PICK w, p : /\ OrderedEvents(w) = stored /\ Older(stored, w) = stored
                  /\ Snapshots(stored) # {} /\ Bootstrap(w) # NoAnswer
                  /\ Opened(Bootstrap(w), w, p) /\ (page' = p \/ page' = FetchOne(p))
  BY <1>1, OpenIs
<1> DEFINE reply == Bootstrap(w)
<1>3. /\ Run(reply.events, stored) /\ Len(reply.events) >= 2
      /\ Continues(reply.cursor, w, reply.events[Len(reply.events)].event)
  BY <1>2, BootstrapIs
<1> HIDE DEF reply
<1>4. /\ DOMAIN p = PageFields /\ p.held = reply.events /\ p.cursor = reply.cursor
      /\ p.watermark = w /\ p.gen = 0 /\ p.seekGen = 0 /\ p.seeking = FALSE
      /\ p.pumps = {} /\ p.seeks = {} /\ PlaySound(p)
  BY <1>2 DEF Opened, reply
<1>5. PageShape(p, stored, stored) /\ SeeksSound(p)
  <2>1. stored \subseteq Older(stored, p.watermark)
    BY <1>2, <1>4
  <2>2. PageShape(p, stored, stored)
    BY <1>2, <1>4, <2>1 DEF PageShape
  <2> QED
    BY <1>4, <2>2 DEF SeeksSound
<1>6. Sound(p, stored, stored, cut)
  <2>1. \A q \in p.pumps : q.gen \in Nat /\ q.gen <= p.gen /\ q.gen # p.gen
    BY <1>4
  <2>2. /\ Run(p.held, stored) /\ Len(p.held) >= 2 /\ stored \subseteq Older(stored, p.watermark)
        /\ Continues(p.cursor, p.watermark, p.held[Len(p.held)].event)
        /\ \A e \in stored : ~ Precedes(e, p.held[2].event) => e \in stored
    BY <1>2, <1>3, <1>4
  <2> QED
    BY <1>5, <2>1, <2>2, StartSound
<1>7. Starts(p, FetchOne(p)) /\ PlaySound(FetchOne(p))
  BY <1>4, FetchAlike
<1> QED
  BY <1>2, <1>4, <1>6, <1>7, StartKeeps

-----------------------------------------------------------------------------
(* The inductive invariant of the replay.                                  *)

\* One recording is stored and arrives.
StreamSound == \E recording \in Recordings : stored \union arriving \subseteq recording

PageIsSound == page # None => Sound(page, stored, frozen, cut) /\ PlaySound(page)

PlayerSound == StreamSound /\ PageIsSound

\* What is stored is part of a recording, and so can be put in order.
LEMMA SoundStored ==
    ASSUME StreamAssumption, StreamSound
    PROVE  StoredOrderly
<1>1. PICK recording \in Recordings : stored \union arriving \subseteq recording
  BY DEF StreamSound
<1>2. Orderly(recording)
  BY DEF StreamAssumption, Orderly
<1>3. stored \subseteq recording
  BY <1>1
<1> QED
  BY <1>2, <1>3, OrderlyPart DEF StoredOrderly

\* No page is open at first.
LEMMA PlayerStarts == Init => PlayerSound
BY DEF Init, StreamInit, PlayerSound, StreamSound, PageIsSound

\* An operation that starts a pump at most.
LEMMA StartStep ==
    ASSUME PlayerSound, page # None, Starts(page, page'), PlaySound(page'),
           UNCHANGED <<stream, frozen, cut>>
    PROVE  PlayerSound'
<1>1. Sound(page', stored, frozen, cut)
  BY StartKeeps DEF PlayerSound, PageIsSound
<1> QED
  BY <1>1 DEF PlayerSound, PageIsSound, StreamSound, stream

\* An operation that leaves the page sound.
LEMMA SoundStep ==
    ASSUME PlayerSound, Sound(page', stored, frozen, cut'), PlaySound(page'),
           UNCHANGED <<stream, frozen>>
    PROVE  PlayerSound'
BY DEF PlayerSound, PageIsSound, StreamSound, stream

\* The parts of the invariant for an open page.
LEMMA PageKnown ==
    ASSUME PlayerSound, page # None
    PROVE  /\ Sound(page, stored, frozen, cut) /\ PlaySound(page) /\ DOMAIN page = PageFields
           /\ PageShape(page, stored, frozen) /\ SeeksSound(page) /\ PumpsSound(page, stored, frozen)
           /\ HoldsSound(page, stored, frozen) /\ CursorSound(page)
BY DEF PlayerSound, PageIsSound, Sound, PageShape

\* More of the recording is committed.
LEMMA IngestStep ==
    ASSUME PlayerSound, Ingest
    PROVE  PlayerSound'
<1>1. stored \subseteq stored' /\ stored' \union arriving' \subseteq stored \union arriving
      /\ page' = page /\ frozen' = frozen /\ cut' = cut
  BY DEF Ingest, Commit
<1>2. StreamSound'
  BY <1>1 DEF PlayerSound, StreamSound
<1>3. PageIsSound'
  BY <1>1, StoredKeeps DEF PlayerSound, PageIsSound
<1> QED
  BY <1>2, <1>3 DEF PlayerSound

\* A page opens, at any time.
LEMMA OpenStep ==
    ASSUME StreamAssumption, PlayerSound, Open
    PROVE  PlayerSound'
<1>1. Sound(page', stored, stored, cut) /\ PlaySound(page')
  BY SoundStored, OpenKeeps DEF PlayerSound
<1>2. stored' = stored /\ arriving' = arriving /\ frozen' = stored /\ cut' = cut
  BY DEF Open, stream
<1> QED
  BY <1>1, <1>2 DEF PlayerSound, PageIsSound, StreamSound

\* A viewer seeks, within what is held or beyond it.
LEMMA SeekStep ==
    ASSUME PlayerSound, page # None, NEW p, Same(page, p), PlaySound(p), NEW target, SeekChanges(p, target)
    PROVE  PlayerSound'
<1>1. Sound(p, stored, frozen, cut) /\ DOMAIN p = PageFields
  BY PageKnown, SameStarts, StartKeeps
<1>2. page' = SeekTo(p, target) /\ UNCHANGED <<stream, frozen>>
  BY DEF SeekChanges
<1>3. cut' <=> (cut \/ (SeekTo(p, target).gen # p.gen /\ HalfAdded(p)))
  <2>1. p.gen = page.gen /\ (HalfAdded(page) <=> HalfAdded(p))
    BY DEF Same, Alike, HalfAdded
  <2>2. cut' = (cut \/ (SeekTo(p, target).gen # page.gen /\ HalfAdded(page)))
    BY <1>2 DEF SeekChanges
  <2> QED
    BY <2>1, <2>2
<1>4. Sound(page', stored, frozen, cut')
  BY <1>1, <1>2, <1>3, SeekKeeps
<1>5. PlaySound(page')
  BY <1>1, <1>2, SeekPlays
<1> QED
  BY <1>2, <1>4, <1>5, SoundStep

\* A viewer retries what failed.
LEMMA RetryStep ==
    ASSUME PlayerSound, Retry
    PROVE  PlayerSound'
<1> DEFINE p == [page EXCEPT !.error = FALSE]
<1>1. page # None /\ DOMAIN page = PageFields /\ PlaySound(page)
  BY PageKnown DEF Retry
<1>2. \/ SeekChanges(p, page.failed)
      \/ /\ page' = FetchOne([p EXCEPT !.buffering = TRUE]) /\ UNCHANGED <<stream, frozen, cut>>
  BY DEF Retry, Changes
<1>3. Same(page, p) /\ PlaySound(p)
  BY <1>1 DEF Same, Alike, PageFields, PlaySound
<1>4. CASE SeekChanges(p, page.failed)
  <2> HIDE DEF p
  <2> QED
    BY <1>1, <1>3, <1>4, SeekStep
<1>5. CASE page' = FetchOne([p EXCEPT !.buffering = TRUE]) /\ UNCHANGED <<stream, frozen, cut>>
  <2>1. Starts(page, page') /\ PlaySound(page')
    BY <1>1, <1>5, RetryFetchKeeps
  <2> QED
    BY <1>1, <1>5, <2>1, StartStep
<1> QED
  BY <1>2, <1>4, <1>5

\* The answer of a seek arrives: the current one's makes a new player, a late one's is dropped.
LEMMA AnsweredStep ==
    ASSUME StreamAssumption, PlayerSound, page # None, NEW s \in page.seeks, SeekAnswered(s)
    PROVE  PlayerSound'
<1> DEFINE reply == SeekAnswer(page.watermark, s.target)
<1>1. PageShape(page, stored, frozen) /\ SeeksSound(page) /\ PlaySound(page)
      /\ Sound(page, stored, frozen, cut)
  BY PageKnown
<1>2. /\ reply # NoAnswer /\ UNCHANGED <<stream, frozen>>
      /\ \/ s.gen = page.seekGen /\ page' = Replaced(WithoutSeek(page, s), s, reply)
         \/ s.gen # page.seekGen /\ page' = WithoutSeek(page, s) /\ cut' = cut
  BY DEF SeekAnswered
<1>3. CASE s.gen = page.seekGen /\ page' = Replaced(WithoutSeek(page, s), s, reply)
  <2>1. StoredOrderly
    BY SoundStored DEF PlayerSound
  <2> DEFINE r == Replaced(WithoutSeek(page, s), s, reply)
  <2>2. Sound(r, stored, frozen, cut') /\ PlaySound(r)
    BY <1>1, <1>2, <1>3, <2>1, ReplacedKeeps
  <2> HIDE DEF r
  <2>3. page' = r
    BY <1>3 DEF r
  <2> QED
    BY <1>2, <2>2, <2>3, SoundStep
<1>4. CASE s.gen # page.seekGen /\ page' = WithoutSeek(page, s) /\ cut' = cut
  <2>1. /\ DOMAIN page' = PageFields /\ page'.held = page.held /\ page'.cursor = page.cursor
        /\ page'.watermark = page.watermark /\ page'.gen = page.gen /\ page'.seekGen = page.seekGen
        /\ page'.seeking = page.seeking /\ page'.seeks = page.seeks \ {s} /\ page'.pumps = page.pumps
        /\ PlaySound(page')
    BY <1>1, <1>4 DEF PageShape, WithoutSeek, PageFields, PlaySound
  <2>2. Sound(page', stored, frozen, cut)
    <3>1. page'.seeking \in BOOLEAN /\ \A x \in page'.seeks : x.gen = page.seekGen => page'.seeking
      BY <1>1, <2>1 DEF SeeksSound
    <3>2. page'.pumps \subseteq page.pumps /\ page'.seeks \subseteq page.seeks /\ page.pumps \ page'.pumps = {}
      BY <2>1
    <3> QED
      BY <1>1, <2>1, <3>1, <3>2, LessKeeps
  <2> QED
    BY <1>2, <1>4, <2>1, <2>2, SoundStep
<1> QED
  BY <1>2, <1>3, <1>4

\* A seek fails.
LEMMA SeekFailsStep ==
    ASSUME PlayerSound, page # None, NEW s \in page.seeks, SeekRequestFails(s)
    PROVE  PlayerSound'
<1> DEFINE p == WithoutSeek(page, s)
           f == [p EXCEPT !.error = TRUE, !.failed = s.target, !.seeking = FALSE,
                          !.pending = None, !.buffering = FALSE]
<1>1. PageShape(page, stored, frozen) /\ SeeksSound(page) /\ PlaySound(page)
      /\ Sound(page, stored, frozen, cut)
  BY PageKnown
<1>2. /\ page' = (IF s.gen # p.seekGen THEN p ELSE f) /\ UNCHANGED <<stream, frozen, cut>>
  BY DEF SeekRequestFails, SeekFailed, Changes
<1>3. /\ DOMAIN p = PageFields /\ p.held = page.held /\ p.cursor = page.cursor
      /\ p.watermark = page.watermark /\ p.gen = page.gen /\ p.seekGen = page.seekGen
      /\ p.seeking = page.seeking /\ p.seeks = page.seeks \ {s} /\ p.pumps = page.pumps
      /\ PlaySound(p)
  BY <1>1 DEF PageShape, WithoutSeek, PageFields, PlaySound
<1> HIDE DEF p
<1>4. /\ DOMAIN f = PageFields /\ f.held = page.held /\ f.cursor = page.cursor
      /\ f.watermark = page.watermark /\ f.gen = page.gen /\ f.seekGen = page.seekGen
      /\ f.seeking = FALSE /\ f.seeks = page.seeks \ {s} /\ f.pumps = page.pumps
      /\ PlaySound(f)
  BY <1>3 DEF PageFields, PlaySound
<1> HIDE DEF f
<1>5. CASE s.gen # page.seekGen
  <2>1. page' = p
    BY <1>2, <1>3, <1>5
  <2>2. p.seeking \in BOOLEAN /\ \A x \in p.seeks : x.gen = page.seekGen => p.seeking
    BY <1>1, <1>3 DEF SeeksSound
  <2>3. p.pumps \subseteq page.pumps /\ p.seeks \subseteq page.seeks /\ page.pumps \ p.pumps = {}
    BY <1>3
  <2>4. Sound(p, stored, frozen, cut)
    BY <1>1, <1>3, <2>2, <2>3, LessKeeps
  <2> QED
    BY <1>2, <1>3, <2>1, <2>4, SoundStep
<1>6. CASE s.gen = page.seekGen
  <2>1. page' = f
    BY <1>2, <1>3, <1>6
  <2>2. \A x \in f.seeks : x.gen # page.seekGen
    BY <1>1, <1>4, <1>6 DEF SeeksSound
  <2>3. f.pumps \subseteq page.pumps /\ f.seeks \subseteq page.seeks /\ page.pumps \ f.pumps = {}
    BY <1>4
  <2>4. Sound(f, stored, frozen, cut)
    BY <1>1, <1>4, <2>2, <2>3, LessKeeps
  <2> QED
    BY <1>2, <1>4, <2>1, <2>4, SoundStep
<1> QED
  BY <1>5, <1>6

\* A pump that is over.
LEMMA GoneStep ==
    ASSUME PlayerSound, page # None, NEW q \in page.pumps, q.gen # page.gen \/ q.chunk = NoAnswer,
           page' = WithoutPump(page, q) \/ page' = PumpFails(WithoutPump(page, q), q),
           UNCHANGED <<stream, frozen, cut>>
    PROVE  PlayerSound'
<1> DEFINE p == WithoutPump(page, q)
           f == [p EXCEPT !.error = TRUE, !.buffering = FALSE]
<1>1. PageShape(page, stored, frozen) /\ SeeksSound(page) /\ PlaySound(page)
      /\ Sound(page, stored, frozen, cut)
  BY PageKnown
<1>2. page' = p \/ page' = f
  BY DEF PumpFails
<1>3. /\ DOMAIN p = PageFields /\ p.held = page.held /\ p.cursor = page.cursor
      /\ p.watermark = page.watermark /\ p.gen = page.gen /\ p.seekGen = page.seekGen
      /\ p.seeking = page.seeking /\ p.seeks = page.seeks /\ p.pumps = page.pumps \ {q}
      /\ PlaySound(p)
  BY <1>1 DEF PageShape, WithoutPump, PageFields, PlaySound
<1> HIDE DEF p
<1>4. /\ DOMAIN f = PageFields /\ f.held = page.held /\ f.cursor = page.cursor
      /\ f.watermark = page.watermark /\ f.gen = page.gen /\ f.seekGen = page.seekGen
      /\ f.seeking = page.seeking /\ f.seeks = page.seeks /\ f.pumps = page.pumps \ {q}
      /\ PlaySound(f)
  BY <1>3 DEF PageFields, PlaySound
<1> HIDE DEF f
<1>5. /\ DOMAIN page' = PageFields /\ page'.held = page.held /\ page'.cursor = page.cursor
      /\ page'.watermark = page.watermark /\ page'.gen = page.gen /\ page'.seekGen = page.seekGen
      /\ page'.seeking = page.seeking /\ page'.seeks = page.seeks /\ page'.pumps = page.pumps \ {q}
      /\ PlaySound(page')
  BY <1>2, <1>3, <1>4
<1>6. page'.seeking \in BOOLEAN /\ \A x \in page'.seeks : x.gen = page.seekGen => page'.seeking
  BY <1>1, <1>5 DEF SeeksSound
<1>7. /\ page'.pumps \subseteq page.pumps /\ page'.seeks \subseteq page.seeks
      /\ \A x \in page.pumps \ page'.pumps : x.gen # page.gen \/ x.chunk = NoAnswer
  BY <1>5
<1>8. Sound(page', stored, frozen, cut)
  BY <1>1, <1>5, <1>6, <1>7, LessKeeps
<1> QED
  BY <1>5, <1>8, SoundStep

\* A chunk arrives: the current pump's is added, a late one's is dropped.
LEMMA ArrivesStep ==
    ASSUME StreamAssumption, PlayerAssumption, PlayerSound, page # None, NEW q \in page.pumps, ChunkArrives(q)
    PROVE  PlayerSound'
<1> DEFINE chunk == NextChunk(q.cursor)
           x == [q EXCEPT !.chunk = chunk]
           p == [page EXCEPT !.switches = @ \o chunk.switches, !.pumps = (@ \ {q}) \union {x}]
<1>1. /\ q.chunk = NoAnswer /\ chunk # NoAnswer /\ UNCHANGED <<stream, frozen, cut>>
      /\ page' = IF q.gen = page.gen THEN AddBatch(p, x) ELSE WithoutPump(page, q)
  BY DEF ChunkArrives, Changes
<1>2. CASE q.gen # page.gen
  BY <1>1, <1>2, GoneStep
<1>3. CASE q.gen = page.gen
  <2>1. /\ Sound(page, stored, frozen, cut) /\ PageShape(page, stored, frozen)
        /\ HoldsSound(page, stored, frozen) /\ CursorSound(page) /\ PlaySound(page)
        /\ CurrentSound(page, q, stored, frozen)
    BY <1>3, PageKnown DEF PumpsSound
  <2>2. StoredOrderly
    BY SoundStored DEF PlayerSound
  <2>3. q.cursor = page.cursor /\ page.cursor # None
    BY <2>1 DEF CurrentSound
  <2>4. q.cursor.watermark = page.watermark /\ q.cursor.after \in Older(stored, page.watermark)
    BY <2>1, <2>3, CursorStored
  <2>5. frozen \subseteq Older(stored, page.watermark)
    BY <2>1 DEF PageShape
  <2>6. ChunkSound(chunk, page.cursor.after, page.watermark, stored, frozen)
    BY <1>1, <2>2, <2>3, <2>4, <2>5, ChunkIsSound
  <2> HIDE DEF chunk
  <2>7. Sound(AddBatch(p, x), stored, frozen, cut)
    BY <1>1, <1>3, <2>1, <2>6, ArrivalKeeps
  <2>8. PlaySound(p) /\ DOMAIN p = PageFields
    BY <2>1 DEF PageShape, PageFields, PlaySound
  <2> HIDE DEF p, x
  <2>9. PlaySound(AddBatch(p, x))
    BY <2>8 DEF AddBatch, PageFields, PlaySound
  <2> QED
    BY <1>1, <1>3, <2>7, <2>9, SoundStep
<1> QED
  BY <1>2, <1>3

\* The next batch of a chunk, unless a seek has cut it off.
LEMMA MoreStep ==
    ASSUME PlayerAssumption, PlayerSound, page # None, NEW q \in page.pumps, AddMore(q)
    PROVE  PlayerSound'
<1>1. q.chunk # NoAnswer /\ UNCHANGED <<stream, frozen, cut>>
  BY DEF AddMore, Changes
<1>2. CASE q.gen # page.gen
  <2>1. page' = WithoutPump(page, q)
    BY <1>2 DEF AddMore, Changes
  <2> QED
    BY <1>1, <1>2, <2>1, GoneStep
<1>3. Sound(page, stored, frozen, cut) /\ PlaySound(page) /\ DOMAIN page = PageFields
  BY PageKnown
<1>4. CASE q.gen = page.gen /\ q.added < Len(q.chunk.events)
  <2>1. page' = AddBatch(page, q)
    BY <1>4 DEF AddMore, Changes
  <2>2. Sound(AddBatch(page, q), stored, frozen, cut)
    BY <1>1, <1>3, <1>4, MoreKeeps
  <2>3. PlaySound(AddBatch(page, q))
    BY <1>3 DEF AddBatch, PageFields, PlaySound
  <2> QED
    BY <1>1, <2>1, <2>2, <2>3, SoundStep
<1>5. CASE q.gen = page.gen /\ ~ (q.added < Len(q.chunk.events))
  <2>1. page' = ChunkAdded(page, q)
    BY <1>5 DEF AddMore, Changes
  <2>2. Sound(ChunkAdded(page, q), stored, frozen, cut)
    BY <1>1, <1>3, <1>5, TurnKeeps
  <2>3. PlaySound(ChunkAdded(page, q))
    BY <1>3, TurnIs
  <2> QED
    BY <1>1, <2>1, <2>2, <2>3, SoundStep
<1> QED
  BY <1>2, <1>4, <1>5

\* Every step keeps a replay sound.
LEMMA PlayerStays ==
    ASSUME StreamAssumption, PlayerAssumption, PlayerSound, [Next]_vars
    PROVE  PlayerSound'
<1>1. CASE UNCHANGED vars
  BY <1>1 DEF vars, PlayerSound, StreamSound, PageIsSound
<1>2. CASE Ingest
  BY <1>2, IngestStep
<1>3. CASE Open
  BY <1>3, OpenStep
<1>4. CASE Play
  <2>1. page # None /\ UNCHANGED <<stream, frozen, cut>>
    BY <1>4 DEF Play, Changes
  <2> QED
    BY <1>4, <2>1, PageKnown, PlayKeeps, StartStep
<1>5. CASE Pause
  <2>1. page # None /\ UNCHANGED <<stream, frozen, cut>>
    BY <1>5 DEF Pause, Changes
  <2> QED
    BY <1>5, <2>1, PageKnown, PauseKeeps, StartStep
<1>6. ASSUME page # None, NEW time, ObserveTime(time) PROVE PlayerSound'
  <2>1. UNCHANGED <<stream, frozen, cut>>
    BY <1>6 DEF ObserveTime, Changes
  <2> QED
    BY <1>6, <2>1, PageKnown, ObserveKeeps, StartStep
<1>7. CASE Finish
  <2>1. page # None /\ UNCHANGED <<stream, frozen, cut>>
    BY <1>7 DEF Finish, Changes
  <2> QED
    BY <1>7, <2>1, PageKnown, FinishKeeps, StartStep
<1>8. ASSUME NEW target, Seek(target) PROVE PlayerSound'
  <2>1. page # None /\ SeekChanges(page, target)
    BY <1>8 DEF Seek
  <2>2. Same(page, page) /\ PlaySound(page)
    BY <2>1, PageKnown DEF Same, Alike
  <2> QED
    BY <2>1, <2>2, SeekStep
<1>9. CASE Retry
  BY <1>9, RetryStep
<1>10. ASSUME page # None, NEW s \in page.seeks, SeekAnswered(s) PROVE PlayerSound'
  BY <1>10, AnsweredStep
<1>11. ASSUME page # None, NEW s \in page.seeks, SeekRequestFails(s) PROVE PlayerSound'
  BY <1>11, SeekFailsStep
<1>12. ASSUME page # None, NEW q \in page.pumps, ChunkArrives(q) PROVE PlayerSound'
  BY <1>12, ArrivesStep
<1>13. ASSUME page # None, NEW q \in page.pumps, ChunkRequestFails(q) PROVE PlayerSound'
  BY <1>13, GoneStep DEF ChunkRequestFails, Changes
<1>14. ASSUME page # None, NEW q \in page.pumps, AddMore(q) PROVE PlayerSound'
  BY <1>14, MoreStep
<1> QED
  BY <1>1, <1>2, <1>3, <1>4, <1>5, <1>6, <1>7, <1>8, <1>9, <1>10, <1>11, <1>12, <1>13, <1>14 DEF Next

\* What is sound is a stretch of the recording.
LEMMA SoundHolds ==
    ASSUME PlayerSound
    PROVE  HoldsTheRecording
<1> SUFFICES ASSUME page # None
             PROVE  /\ \A e \in HeldEvents(page) : e.id <= page.watermark
                    /\ {e \in frozen : InSegment(e, page) /\ ~ Precedes(LastHeld(page), e)}
                         \subseteq HeldEvents(page)
                    /\ \A i \in DOMAIN page.held : page.held[i].base = page.held[i].at
                    /\ cut \/ \A i \in 2..Len(page.held) :
                                Precedes(page.held[i - 1].event, page.held[i].event)
  BY DEF HoldsTheRecording
<1>1. HoldsSound(page, stored, frozen) /\ (cut \/ OrderSound(page))
  BY DEF PlayerSound, PageIsSound, Sound
<1>2. DOMAIN page.held = 1..Len(page.held) /\ Len(page.held) \in 2..Len(page.held)
  BY <1>1 DEF HoldsSound
<1>3. \A i \in DOMAIN page.held : page.held[i].event.id <= page.watermark /\ page.held[i].base = page.held[i].at
  BY <1>1, <1>2 DEF HoldsSound, Older
<1>4. \A e \in HeldEvents(page) : e.id <= page.watermark
  BY <1>3 DEF HeldEvents
<1>5. ASSUME NEW e \in frozen, InSegment(e, page), ~ Precedes(LastHeld(page), e)
      PROVE  e \in HeldEvents(page)
  <2>1. HeldAt(page, e)
    BY <1>1, <1>2, <1>5 DEF HoldsSound, InSegment, LastHeld
  <2>2. PICK k \in 2..Len(page.held) : page.held[k].event = e
    BY <2>1 DEF HeldAt
  <2>3. k \in DOMAIN page.held
    BY <1>2
  <2> QED
    BY <2>2, <2>3 DEF HeldEvents
<1> QED
  BY <1>1, <1>3, <1>4, <1>5 DEF OrderSound

\* A player that is not meant to play does not.
LEMMA SoundPauses ==
    ASSUME PlayerSound
    PROVE  PauseHolds
BY DEF PlayerSound, PageIsSound, PlaySound, PauseHolds

\* Through plays, pauses, seeks, retries, late, abandoned and failed answers
\* and commits in between, the player stays sound: what it holds is a stretch
\* of the recording with the next chunk's cursor in it, one current pump adds
\* one current chunk, and only the current seek replaces the player
\* (replay-stream.js and the views of replay_streaming.py).
THEOREM PlayerStaysSound == Spec => []PlayerSound
<1>1. Init => PlayerSound
  BY PlayerStarts
<1>2. PlayerSound /\ [Next]_vars => PlayerSound'
  BY PlayerStays, StreamAssumption, PlayerAssumption
<1> QED
  BY <1>1, <1>2, PTL DEF Spec

\* The player holds the recording as it was opened: every event of its segment
\* up to the last one held, none that was stored later, each resolved against
\* its page's URL, in order and once unless a seek cut a chunk off.
THEOREM RecordingStaysHeld == Spec => []HoldsTheRecording
<1>1. PlayerSound => HoldsTheRecording
  BY SoundHolds
<1> QED
  BY <1>1, PlayerStaysSound, PTL

\* A viewer who paused is not played to, whatever answers, seeks and waits end
\* later.
THEOREM PausesHold == Spec => []PauseHolds
<1>1. PlayerSound => PauseHolds
  BY SoundPauses
<1> QED
  BY <1>1, PlayerStaysSound, PTL

-----------------------------------------------------------------------------
(* The tab that is shown.                                                  *)

\* The chunk that is being added.
Chunks(p) == {q.chunk : q \in {x \in p.pumps : x.gen = p.gen /\ x.chunk # NoAnswer}}

EventsOf(D) == {D[i].event : i \in DOMAIN D}

\* The uses of tabs that a page was told of.
Told(p) == Activities(ToldEvents(p))

\* A page that started with a tab in use, or with None, knows all switches since, and goes on
\* with the tab that is in use now.
TabsKnown(p, F, tab) ==
    LET used == Told(p)
    IN  /\ Tells(p.switches, Turns(used, tab))
        /\ tab # None => p.initialTab = tab
        /\ tab = None => \/ used # {} /\ p.initialTab = Earliest(used).tab
                         \/ \A f \in Activities(F) : InSegment(f, p)
        /\ \A chunk \in Chunks(p) : Carries(chunk.cursor, LastTab(used, tab))
        /\ Chunks(p) = {} => Carries(p.cursor, LastTab(used, tab))

TabsSound(p, F, c) == c \/ \E tab \in Tabs : TabsKnown(p, F, tab)

\* No change of the tab, after uses in V or at the start.
NoTurn(A, tab, V, x, b) ==
    /\ b \notin Turns(A, tab)
    /\ LET before == {f \in A : Precedes(f, b)}
       IN  IF before = {} THEN tab = x ELSE Latest(before) \in V

\* Where no use changes the tab, it stays the same.
LEMMA TabStays ==
    ASSUME NEW A, Orderly(A), \A e \in A : e.tab # None, NEW tab, NEW V, V \subseteq A, NEW x, x # None,
           \A b \in V : b.tab = x \/ NoTurn(A, tab, V, x, b)
    PROVE  \A b \in V : b.tab = x
<1> DEFINE Bad == {b \in V : b.tab # x}
<1> SUFFICES ASSUME Bad # {} PROVE FALSE
  OBVIOUS
<1>1. Orderly(Bad)
  BY OrderlyPart
<1>2. PICK b \in Bad : \A f \in Bad : f # b => Precedes(b, f)
  BY <1>1, EarliestIs
<1> DEFINE before == {f \in A : Precedes(f, b)}
<1>3. /\ b \in A /\ b.tab # x /\ b \notin Turns(A, tab)
      /\ IF before = {} THEN tab = x ELSE Latest(before) \in V
  BY <1>2 DEF NoTurn
<1>4. PrevTab(A, tab, b) = IF before = {} THEN tab ELSE Latest(before).tab
  BY DEF PrevTab
<1>5. before # {} => Latest(before) \in before
  BY OrderlyPart, LatestIs
<1>6. before # {} => Latest(before) \notin Bad
  BY <1>2, <1>5, OrderTotal
<1> HIDE DEF before
<1>7. PrevTab(A, tab, b) = x
  BY <1>3, <1>4, <1>6
<1> QED
  BY <1>3, <1>7 DEF Turns

\* The switch that is passed last.
LEMMA PassedIs ==
    ASSUME NEW A, Orderly(A), NEW W, W \subseteq A, NEW switches, Tells(switches, W), NEW time \in Nat
    PROVE  LET passed == {k \in DOMAIN switches : \A j \in 1..k : switches[j].at <= time}
               w == switches[Max(passed)]
           IN  IF passed = {} THEN \A e \in W : ~ (e.at <= time)
               ELSE w \in W /\ w.at <= time /\ \A e \in W : e.at <= time => e = w \/ Precedes(e, w)
<1> DEFINE passed == {k \in DOMAIN switches : \A j \in 1..k : switches[j].at <= time}
           m == Max(passed)
<1>1. /\ Len(switches) \in Nat /\ DOMAIN switches = 1..Len(switches)
      /\ \A k \in 1..Len(switches) : switches[k] \in W /\ switches[k] \in A /\ switches[k].at \in Nat
  BY DEF Tells, Orderly
<1>2. ASSUME NEW k \in 1..Len(switches), switches[k].at <= time PROVE k \in passed
  <2> SUFFICES ASSUME NEW j \in 1..k PROVE switches[j].at <= time
    BY <1>1
  <2>1. j \in 1..Len(switches) /\ (j = k \/ j < k)
    BY <1>1
  <2>2. CASE j < k
    <3>1. Precedes(switches[j], switches[k])
      BY <2>1, <2>2 DEF Tells
    <3>2. switches[j].at <= switches[k].at
      BY <1>1, <2>1, <3>1 DEF Precedes
    <3> QED
      BY <1>1, <1>2, <2>1, <3>2
  <2> QED
    BY <1>2, <2>1, <2>2
<1>3. \A e \in W : \E k \in 1..Len(switches) : switches[k] = e
  BY DEF Tells
<1>4. CASE passed = {}
  BY <1>2, <1>3, <1>4
<1>5. CASE passed # {}
  <2>1. passed \subseteq 0..Len(switches) /\ passed \subseteq 1..Len(switches)
    BY <1>1
  <2> HIDE DEF passed
  <2>2. m \in passed /\ \A k \in passed : k <= m
    BY <1>1, <1>5, <2>1, GreatestUpTo
  <2> HIDE DEF m
  <2>3. m \in 1..Len(switches) /\ m \in 1..m
    BY <1>1, <2>1, <2>2
  <2>4. switches[m] \in W /\ switches[m].at <= time
    BY <1>1, <2>2, <2>3 DEF passed
  <2>5. ASSUME NEW e \in W, e.at <= time PROVE e = switches[m] \/ Precedes(e, switches[m])
    <3>1. PICK k \in 1..Len(switches) : switches[k] = e
      BY <1>3
    <3>2. k <= m
      BY <1>2, <2>2, <2>5, <3>1
    <3>3. k = m \/ k < m
      BY <1>1, <2>3, <3>2
    <3> QED
      BY <2>3, <3>1, <3>3 DEF Tells
  <2> QED
    BY <1>5, <2>4, <2>5 DEF m, passed
<1> QED
  BY <1>4, <1>5

\* A page that knows the switches shows the tab in use.
LEMMA KnownFollows ==
    ASSUME NEW p, NEW F, NEW tab, TabsKnown(p, F, tab), Orderly(Told(p)), \A e \in Told(p) : e.tab # None,
           NEW e \in Told(p)
    PROVE  \/ TabShown(p, e.at) = Latest({f \in Told(p) : f.at <= e.at}).tab
           \/ /\ \A f \in Activities(F) : InSegment(f, p)
              /\ p.initialTab # Earliest(Told(p)).tab
<1> DEFINE A == Told(p)
           U == {f \in A : f.at <= e.at}
           L == Latest(U)
           W == Turns(A, tab)
           passed == {k \in DOMAIN p.switches : \A j \in 1..k : p.switches[j].at <= e.at}
           w == p.switches[Max(passed)]
<1>1. /\ Orderly(A) /\ e \in A /\ W \subseteq A /\ e.at \in Nat /\ Tells(p.switches, W)
      /\ \A f \in A : f.tab # None /\ f.at \in Nat
  BY DEF Orderly, Turns, TabsKnown
<1>2. IF passed = {} THEN \A f \in W : ~ (f.at <= e.at)
      ELSE w \in W /\ w.at <= e.at /\ \A f \in W : f.at <= e.at => f = w \/ Precedes(f, w)
  BY <1>1, PassedIs
<1>3. TabShown(p, e.at) = IF passed = {} THEN p.initialTab ELSE w.tab
  BY DEF TabShown
<1>4. /\ tab # None => p.initialTab = tab
      /\ tab = None => \/ p.initialTab = Earliest(A).tab
                       \/ \A f \in Activities(F) : InSegment(f, p)
  BY DEF TabsKnown
<1> HIDE DEF A, W, passed, w
<1>5. L \in U /\ U \subseteq A /\ \A f \in U : f = L \/ Precedes(f, L)
  <2>1. e \in U /\ U \subseteq A
    BY <1>1
  <2> QED
    BY <1>1, <2>1, OrderlyPart, LatestIs
<1>6. ASSUME NEW f \in A, NEW b \in U, Precedes(f, b) PROVE f \in U
  BY <1>1, <1>6 DEF Precedes
<1>7. ASSUME NEW b \in U PROVE LET before == {f \in A : Precedes(f, b)}
                               IN  before # {} => Latest(before) \in before /\ Latest(before) \in U
  <2> DEFINE before == {f \in A : Precedes(f, b)}
  <2>1. before # {} => Latest(before) \in before
    BY <1>1, OrderlyPart, LatestIs
  <2> QED
    BY <1>6, <2>1
<1>8. ASSUME passed # {} PROVE L.tab = w.tab
  <2> DEFINE V == {f \in U : f = w \/ Precedes(w, f)}
  <2>1. w \in A /\ w.tab # None /\ w \in U /\ V \subseteq A
    BY <1>1, <1>2, <1>5, <1>8
  <2>2. ASSUME NEW b \in V, b.tab # w.tab
        PROVE  NoTurn(A, tab, V, w.tab, b)
    <3> DEFINE before == {f \in A : Precedes(f, b)}
    <3>1. b # w /\ Precedes(w, b) /\ b \in U /\ b \in A
      BY <1>5, <2>2
    <3>2. b \notin W
      <4>1. ~ Precedes(b, w)
        BY <1>1, <2>1, <3>1, OrderTotal
      <4> QED
        BY <1>2, <1>8, <3>1, <4>1
    <3>3. w \in before
      BY <2>1, <3>1
    <3>4. Latest(before) \in U /\ (w = Latest(before) \/ Precedes(w, Latest(before)))
      BY <1>1, <1>7, <3>1, <3>3, OrderlyPart, LatestIs
    <3> QED
      BY <3>2, <3>3, <3>4 DEF NoTurn, W
  <2> HIDE DEF V
  <2>3. \A b \in V : b.tab = w.tab
    <3>1. \A b \in V : b.tab = w.tab \/ NoTurn(A, tab, V, w.tab, b)
      BY <2>2
    <3>2. Orderly(A) /\ (\A f \in A : f.tab # None) /\ V \subseteq A /\ w.tab # None
      BY <1>1, <2>1
    <3> QED
      BY <3>1, <3>2, TabStays
  <2> QED
    BY <1>5, <2>1, <2>3 DEF V
<1>9. ASSUME passed = {}, NEW x, x # None, tab = x \/ (tab = None /\ x = Earliest(A).tab) PROVE L.tab = x
  <2>1. Earliest(A) \in A /\ \A f \in A : f # Earliest(A) => Precedes(Earliest(A), f)
    BY <1>1, EarliestIs
  <2>2. ASSUME NEW b \in U, b.tab # x
        PROVE  NoTurn(A, tab, U, x, b)
    <3> DEFINE before == {f \in A : Precedes(f, b)}
    <3>1. b \notin W
      BY <1>2, <1>9
    <3>2. before = {} => tab = x
      <4>1. CASE b = Earliest(A)
        BY <1>9, <2>2, <4>1
      <4>2. CASE b # Earliest(A)
        <5>1. Earliest(A) \in before
          BY <1>5, <2>1, <4>2
        <5> QED
          BY <5>1
      <4> QED
        BY <4>1, <4>2
    <3> QED
      BY <1>7, <3>1, <3>2 DEF NoTurn, W
  <2> HIDE DEF U
  <2>3. \A b \in U : b.tab = x
    <3>1. \A b \in U : b.tab = x \/ NoTurn(A, tab, U, x, b)
      BY <2>2
    <3>2. Orderly(A) /\ (\A f \in A : f.tab # None) /\ U \subseteq A /\ x # None
      BY <1>1, <1>5, <1>9
    <3> QED
      BY <3>1, <3>2, TabStays
  <2> QED
    BY <1>5, <2>3
<1>10. CASE passed # {}
  BY <1>3, <1>8, <1>10 DEF A
<1>11. CASE passed = {} /\ tab # None
  <2>1. L.tab = tab
    BY <1>9, <1>11
  <2> QED
    BY <1>3, <1>4, <1>11, <2>1 DEF A
<1>12. CASE passed = {} /\ tab = None
  <2>1. Earliest(A).tab # None
    BY <1>1, EarliestIs
  <2>2. L.tab = Earliest(A).tab
    BY <1>9, <1>12, <2>1
  <2>3. CASE p.initialTab = Earliest(A).tab
    BY <1>3, <1>12, <2>2, <2>3 DEF A
  <2>4. CASE p.initialTab # Earliest(A).tab
    BY <1>4, <1>12, <2>4 DEF A
  <2> QED
    BY <2>3, <2>4
<1> QED
  BY <1>10, <1>11, <1>12

\* There is one earliest only.
LEMMA EarliestOnly ==
    ASSUME NEW S, Orderly(S), NEW e \in S, \A f \in S : f # e => Precedes(e, f)
    PROVE  Earliest(S) = e
<1>1. S # {}
  OBVIOUS
<1>2. Earliest(S) \in S /\ \A f \in S : f # Earliest(S) => Precedes(Earliest(S), f)
  BY <1>1, EarliestIs
<1> QED
  BY <1>2, OrderTotal

\* What is used in an answer follows what was used before.
LEMMA TurnsJoin ==
    ASSUME NEW A, NEW B, Orderly(A \union B), \A e \in A : \A f \in B : Precedes(e, f), NEW tab
    PROVE  /\ Turns(A \union B, tab) = Turns(A, tab) \union Turns(B, LastTab(A, tab))
           /\ LastTab(A \union B, tab) = LastTab(B, LastTab(A, tab))
<1> DEFINE carried == LastTab(A, tab)
<1>1. Orderly(A) /\ Orderly(B)
  BY OrderlyPart
<1>2. ASSUME NEW C, C \subseteq B, C # {} PROVE Latest(A \union C) = Latest(C)
  <2>1. Orderly(C) /\ Orderly(A \union C)
    BY <1>1, <1>2, OrderlyPart
  <2>2. Latest(C) \in C /\ \A f \in C : f # Latest(C) => Precedes(f, Latest(C))
    BY <1>2, <2>1, LatestIs
  <2>3. Latest(C) \in A \union C /\ \A f \in A \union C : f # Latest(C) => Precedes(f, Latest(C))
    BY <1>2, <2>2
  <2> QED
    BY <2>1, <2>3, LatestOnly
<1>3. ASSUME NEW e \in A PROVE PrevTab(A \union B, tab, e) = PrevTab(A, tab, e)
  <2>1. \A f \in B : ~ Precedes(f, e)
    <3> SUFFICES ASSUME NEW f \in B PROVE ~ Precedes(f, e)
      OBVIOUS
    <3>1. Precedes(e, f) /\ e \in A \union B /\ f \in A \union B
      OBVIOUS
    <3> QED
      BY <3>1, OrderTotal
  <2>2. {f \in A \union B : Precedes(f, e)} = {f \in A : Precedes(f, e)}
    BY <2>1
  <2> QED
    BY <2>2 DEF PrevTab
<1>4. ASSUME NEW C, C \subseteq B
      PROVE  (IF A \union C = {} THEN tab ELSE Latest(A \union C).tab)
                = IF C = {} THEN carried ELSE Latest(C).tab
  <2>1. CASE C = {}
    <3>1. A \union C = A
      BY <2>1
    <3> QED
      BY <2>1, <3>1 DEF LastTab
  <2>2. CASE C # {}
    <3>1. A \union C # {} /\ Latest(A \union C) = Latest(C)
      BY <1>2, <1>4, <2>2
    <3> QED
      BY <2>2, <3>1
  <2> QED
    BY <2>1, <2>2
<1> HIDE DEF carried
<1>5. ASSUME NEW e \in B PROVE PrevTab(A \union B, tab, e) = PrevTab(B, carried, e)
  <2> DEFINE C == {f \in B : Precedes(f, e)}
  <2>1. {f \in A \union B : Precedes(f, e)} = A \union C
    OBVIOUS
  <2>2. C \subseteq B
    OBVIOUS
  <2>3. PrevTab(A \union B, tab, e) = IF A \union C = {} THEN tab ELSE Latest(A \union C).tab
    BY <2>1 DEF PrevTab
  <2>4. PrevTab(B, carried, e) = IF C = {} THEN carried ELSE Latest(C).tab
    BY DEF PrevTab
  <2> HIDE DEF C
  <2> QED
    BY <1>4, <2>2, <2>3, <2>4
<1>6. Turns(A \union B, tab) = Turns(A, tab) \union Turns(B, carried)
  BY <1>3, <1>5 DEF Turns
<1>7. LastTab(A \union B, tab) = LastTab(B, carried)
  <2>1. B \subseteq B
    OBVIOUS
  <2> QED
    BY <1>4, <2>1 DEF LastTab
<1> QED
  BY <1>6, <1>7 DEF carried

\* So are the switches that are told.
LEMMA TellsJoin ==
    ASSUME NEW V, NEW W, \A e \in V : \A f \in W : Precedes(e, f), NEW s, NEW t, Tells(s, V), Tells(t, W)
    PROVE  Tells(s \o t, V \union W)
<1> DEFINE X == V \union W
           h == s \o t
           m == Len(s)
           n == Len(t)
<1>1. /\ s \in Seq(X) /\ t \in Seq(X)
      /\ \A e \in V : \E k \in 1..m : s[k] = e
      /\ \A e \in W : \E k \in 1..n : t[k] = e
      /\ \A j, k \in 1..m : j < k => Precedes(s[j], s[k])
      /\ \A j, k \in 1..n : j < k => Precedes(t[j], t[k])
      /\ \A k \in 1..m : s[k] \in V
      /\ \A k \in 1..n : t[k] \in W
      /\ m \in Nat /\ n \in Nat
  <2>1. s \in Seq(V) /\ t \in Seq(W)
    BY DEF Tells
  <2>2. s \in Seq(X) /\ t \in Seq(X) /\ m \in Nat /\ n \in Nat
    BY <2>1
  <2>3. (\A k \in 1..m : s[k] \in V) /\ (\A k \in 1..n : t[k] \in W)
    BY <2>1
  <2> QED
    BY <2>2, <2>3 DEF Tells
<1>2. /\ h \in Seq(X) /\ Len(h) = m + n
      /\ \A i \in 1..m : h[i] = s[i]
      /\ \A k \in 1..n : h[m + k] = t[k]
  <2>1. s \in Seq(X)
    BY <1>1
  <2>2. t \in Seq(X)
    BY <1>1
  <2>3. h = s \o t
    OBVIOUS
  <2> HIDE DEF h, X
  <2> QED
    BY <2>1, <2>2, <2>3, Joined
<1> HIDE DEF h, m, n
<1>3. \A i \in 1..Len(h) : i \in 1..m \/ (i - m \in 1..n /\ i = m + (i - m) /\ i > m)
  BY <1>1, <1>2
<1>4. (\A k \in 1..m : k \in 1..Len(h)) /\ \A k \in 1..n : m + k \in 1..Len(h)
  BY <1>1, <1>2
<1>5. ASSUME NEW e \in X PROVE \E k \in 1..Len(h) : h[k] = e
  <2>1. CASE e \in V
    BY <1>1, <1>2, <1>4, <2>1
  <2>2. CASE e \in W
    <3>1. PICK k \in 1..n : t[k] = e
      BY <1>1, <2>2
    <3> QED
      BY <1>2, <1>4, <3>1
  <2> QED
    BY <2>1, <2>2
<1>6. ASSUME NEW j \in 1..Len(h), NEW k \in 1..Len(h), j < k PROVE Precedes(h[j], h[k])
  <2>1. CASE k \in 1..m
    <3>1. j \in 1..m
      BY <1>1, <1>2, <1>6, <2>1
    <3> QED
      BY <1>1, <1>2, <1>6, <2>1, <3>1
  <2>2. CASE j \in 1..m /\ k \notin 1..m
    <3>1. h[j] = s[j] /\ k - m \in 1..n /\ k = m + (k - m)
      BY <1>2, <1>3, <2>2
    <3>2. h[k] = t[k - m]
      BY <1>2, <3>1
    <3> QED
      BY <1>1, <2>2, <3>1, <3>2
  <2>3. CASE j \notin 1..m /\ k \notin 1..m
    <3>1. j - m \in 1..n /\ j = m + (j - m) /\ k - m \in 1..n /\ k = m + (k - m)
      BY <1>3, <2>3
    <3>2. h[j] = t[j - m] /\ h[k] = t[k - m]
      BY <1>2, <3>1
    <3>3. j - m < k - m
      BY <1>1, <1>2, <1>6
    <3> QED
      BY <1>1, <3>1, <3>2, <3>3
  <2> QED
    BY <2>1, <2>2, <2>3
<1>7. Tells(h, X)
  BY <1>2, <1>5, <1>6 DEF Tells
<1> QED
  BY <1>7 DEF h, X

\* What a page was told of: what it holds and the chunk that is being added.
LEMMA ToldIs ==
    ASSUME NEW p
    PROVE  Told(p) = Activities(EventsOf(p.held) \union UNION {EventsOf(chunk.events) : chunk \in Chunks(p)})
<1> DEFINE current == {q \in p.pumps : q.gen = p.gen}
           all == UNION {EventsOf(q.chunk.events) : q \in current}
           some == UNION {EventsOf(chunk.events) : chunk \in Chunks(p)}
<1>1. ToldEvents(p) = EventsOf(p.held) \union all
  BY DEF ToldEvents, HeldEvents, EventsOf
<1>2. \A e : e \in EventsOf(NoAnswer.events) => FALSE
  BY DEF NoAnswer, EventsOf
<1>3. all = some
  <2>1. some \subseteq all
    BY DEF Chunks
  <2>2. ASSUME NEW e \in all PROVE e \in some
    <3>1. PICK q \in current : e \in EventsOf(q.chunk.events)
      BY <2>2
    <3>2. q.chunk # NoAnswer
      BY <1>2, <3>1
    <3>3. q.chunk \in Chunks(p)
      BY <3>2 DEF Chunks
    <3> QED
      BY <3>1, <3>3
  <2> QED
    BY <2>1, <2>2
<1> QED
  BY <1>1, <1>3 DEF Told

\* What the tabs depend on.
LEMMA TabsSame ==
    ASSUME NEW p, NEW r, r.switches = p.switches, r.initialTab = p.initialTab, r.cursor = p.cursor,
           r.held[2].event = p.held[2].event, Chunks(r) = Chunks(p), Told(r) = Told(p), NEW F
    PROVE  /\ \A tab : TabsKnown(p, F, tab) => TabsKnown(r, F, tab)
           /\ \A c : TabsSound(p, F, c) => TabsSound(r, F, c)
BY DEF TabsKnown, TabsSound, InSegment

\* They stay known where all of that is left alone.
LEMMA TabsAlike ==
    ASSUME NEW p, NEW r, r.switches = p.switches, r.initialTab = p.initialTab, r.cursor = p.cursor,
           r.held = p.held, Chunks(r) = Chunks(p), NEW F, NEW c, TabsSound(p, F, c)
    PROVE  TabsSound(r, F, c)
<1>1. Told(r) = Told(p)
  BY ToldIs
<1> QED
  BY <1>1, TabsSame

\* A pump that starts knows nothing yet.
LEMMA StartTabs ==
    ASSUME NEW p, NEW r, Starts(p, r), NEW F, NEW c, TabsSound(p, F, c)
    PROVE  TabsSound(r, F, c)
<1>1. /\ r.switches = p.switches /\ r.initialTab = p.initialTab /\ r.cursor = p.cursor
      /\ r.held = p.held /\ r.gen = p.gen
      /\ r.pumps = p.pumps \/ r.pumps = p.pumps \union {Fresh(p)}
  BY DEF Starts, Pumps, Alike
<1>2. Fresh(p).chunk = NoAnswer
  BY DEF Fresh
<1>3. {x \in r.pumps : x.gen = r.gen /\ x.chunk # NoAnswer} = {x \in p.pumps : x.gen = p.gen /\ x.chunk # NoAnswer}
  BY <1>1, <1>2
<1>4. Chunks(r) = Chunks(p)
  BY <1>3 DEF Chunks
<1> QED
  BY <1>1, <1>4, TabsAlike

\* Nor did one that is over and has done nothing.
LEMMA LessTabs ==
    ASSUME NEW p, NEW r, r.switches = p.switches, r.initialTab = p.initialTab, r.cursor = p.cursor,
           r.held = p.held, r.gen = p.gen, r.pumps \subseteq p.pumps,
           \A q \in p.pumps \ r.pumps : q.gen # p.gen \/ q.chunk = NoAnswer,
           NEW F, NEW c, TabsSound(p, F, c)
    PROVE  TabsSound(r, F, c)
<1>1. {x \in r.pumps : x.gen = r.gen /\ x.chunk # NoAnswer} = {x \in p.pumps : x.gen = p.gen /\ x.chunk # NoAnswer}
  OBVIOUS
<1>2. Chunks(r) = Chunks(p)
  BY <1>1 DEF Chunks
<1> QED
  BY <1>2, TabsAlike

\* A seek leaves what the page was told of, unless it cuts it off.
LEMMA SeekTabs ==
    ASSUME NEW p, NEW S, NEW F, NEW c, Sound(p, S, F, c), TabsSound(p, F, c), NEW target,
           NEW d, d <=> (c \/ (SeekTo(p, target).gen # p.gen /\ HalfAdded(p)))
    PROVE  TabsSound(SeekTo(p, target), F, d)
<1> DEFINE r == SeekTo(p, target)
<1>1. PageShape(p, S, F) /\ PumpsSound(p, S, F)
  BY DEF Sound
<1>2. PICK boundary : r = LocalSeek(p, boundary) \/ r = RemoteSeek(p, target)
  BY DEF SeekTo
<1>3. p.gen \in Nat /\ p.seekGen \in Nat /\ DOMAIN p = PageFields
  BY <1>1 DEF PageShape
<1> SUFFICES ASSUME ~ d PROVE TabsSound(r, F, c)
  BY DEF TabsSound
<1>4. CASE r = LocalSeek(p, boundary)
  <2> HIDE DEF r
  <2>1. /\ r.held = p.held /\ r.cursor = p.cursor /\ r.gen = p.gen /\ r.pumps = p.pumps
        /\ r.switches = p.switches /\ r.initialTab = p.initialTab
    BY <1>3, <1>4 DEF LocalSeek, Goto, PageFields
  <2>2. Chunks(r) = Chunks(p)
    BY <2>1 DEF Chunks
  <2> QED
    BY <2>1, <2>2, TabsAlike
<1>5. CASE r = RemoteSeek(p, target)
  <2> HIDE DEF r
  <2>1. /\ r.held = p.held /\ r.cursor = p.cursor /\ r.gen = p.gen + 1 /\ r.pumps = p.pumps
        /\ r.switches = p.switches /\ r.initialTab = p.initialTab
    BY <1>3, <1>5 DEF RemoteSeek, CancelChunkPump, PageFields
  <2>2. r.gen # p.gen
    BY <1>3, <2>1
  <2>3. ~ HalfAdded(p)
    BY <2>2 DEF r
  <2>4. \A q \in p.pumps : q.gen = p.gen => q.chunk = NoAnswer
    <3> SUFFICES ASSUME NEW q \in p.pumps, q.gen = p.gen PROVE q.chunk = NoAnswer
      OBVIOUS
    <3>1. CurrentSound(p, q, S, F)
      BY <1>1 DEF PumpsSound
    <3>2. q.chunk # NoAnswer => q.added \in Nat /\ q.added > 0
      BY <3>1 DEF CurrentSound, AddedSound, ChunkSound
    <3> QED
      BY <2>3, <3>2 DEF HalfAdded
  <2>5. \A q \in p.pumps : q.gen # r.gen
    <3>1. \A q \in p.pumps : q.gen \in Nat /\ q.gen <= p.gen
      BY <1>1 DEF PumpsSound
    <3> QED
      BY <1>3, <2>1, <3>1
  <2>6. Chunks(p) = {} /\ Chunks(r) = {}
    BY <2>1, <2>4, <2>5 DEF Chunks
  <2> QED
    BY <2>1, <2>6, TabsAlike
<1> QED
  BY <1>2, <1>4, <1>5

\* The events of an answer, or of a player.
LEMMA EventsIs ==
    ASSUME NEW T, NEW D \in Seq(T)
    PROVE  /\ \A i \in 1..Len(D) : D[i].event \in EventsOf(D)
           /\ \A e \in EventsOf(D) : \E i \in 1..Len(D) : D[i].event = e
           /\ UsedIn(D) = Activities(EventsOf(D)) /\ Len(D) \in Nat
<1>1. DOMAIN D = 1..Len(D) /\ Len(D) \in Nat
  OBVIOUS
<1>2. EventsOf(D) = {D[i].event : i \in 1..Len(D)}
  BY <1>1 DEF EventsOf
<1> QED
  BY <1>1, <1>2 DEF UsedIn

\* The chunk that is being added is the only one.
LEMMA OneChunk ==
    ASSUME NEW p, NEW q \in p.pumps, q.gen = p.gen, \A x \in p.pumps : x.gen = p.gen => x = q
    PROVE  Chunks(p) = IF q.chunk = NoAnswer THEN {} ELSE {q.chunk}
<1>1. CASE q.chunk = NoAnswer
  <2>1. {x \in p.pumps : x.gen = p.gen /\ x.chunk # NoAnswer} = {}
    BY <1>1
  <2> QED
    BY <1>1, <2>1 DEF Chunks
<1>2. CASE q.chunk # NoAnswer
  <2>1. {x \in p.pumps : x.gen = p.gen /\ x.chunk # NoAnswer} = {q}
    BY <1>2
  <2> QED
    BY <1>2, <2>1 DEF Chunks
<1> QED
  BY <1>1, <1>2

\* Adding more of a chunk tells the page nothing new.
LEMMA AddTabs ==
    ASSUME PlayerAssumption, NEW p, NEW q, NEW S, NEW F, HoldsSound(p, S, F), DOMAIN p = PageFields,
           \A x \in p.pumps : x.gen = p.gen => x = q, Adding(p, q, S, F)
    PROVE  \A tab : TabsKnown(p, F, tab) => TabsKnown(AddBatch(p, q), F, tab)
<1> DEFINE D == q.chunk.events
           a == q.added
           n == Len(p.held)
           r == AddBatch(p, q)
<1>1. /\ D \in Seq(Item) /\ a \in Nat /\ a < Len(D) /\ q.chunk # NoAnswer
      /\ DOMAIN q = {"gen", "cursor", "chunk", "added"} /\ q \in p.pumps /\ q.gen = p.gen
  BY DEF Adding, ChunkSound
<1>2. p.held \in Seq(Item) /\ n >= 2 /\ n \in Nat /\ Len(D) \in Nat
  BY <1>1 DEF HoldsSound
<1>3. PICK x, upTo : Added(p, q, r, x, upTo)
  BY <1>1, <1>2, AddIs
<1> HIDE DEF r
<1>4. /\ upTo \in Nat /\ a < upTo /\ upTo <= Len(D)
      /\ r.pumps = (p.pumps \ {q}) \union {x} /\ r.gen = p.gen /\ r.cursor = p.cursor
      /\ r.switches = p.switches /\ r.initialTab = p.initialTab
      /\ x.gen = p.gen /\ x.chunk = q.chunk
      /\ r.held \in Seq(Item) /\ Len(r.held) = n + (upTo - a)
      /\ \A i \in 1..n : r.held[i] = p.held[i]
      /\ \A k \in 1..(upTo - a) : r.held[n + k] = D[a + k]
  BY <1>1, <1>3 DEF Added
<1>5. Chunks(p) = {q.chunk} /\ Chunks(r) = {q.chunk}
  <2>1. Chunks(p) = {q.chunk}
    BY <1>1, OneChunk
  <2>2. x \in r.pumps /\ x.gen = r.gen /\ \A y \in r.pumps : y.gen = r.gen => y = x
    BY <1>4
  <2>3. Chunks(r) = IF x.chunk = NoAnswer THEN {} ELSE {x.chunk}
    BY <2>2, OneChunk
  <2> QED
    BY <1>1, <1>4, <2>1, <2>3
<1> HIDE DEF D, a, n
<1>6. EventsOf(p.held) \subseteq EventsOf(r.held)
  <2> SUFFICES ASSUME NEW e \in EventsOf(p.held) PROVE e \in EventsOf(r.held)
    OBVIOUS
  <2>1. PICK i \in 1..n : p.held[i].event = e
    BY <1>2, EventsIs DEF n
  <2>2. i \in 1..Len(r.held) /\ r.held[i].event = e
    BY <1>1, <1>2, <1>4, <2>1
  <2> QED
    BY <1>4, <2>2, EventsIs
<1>7. EventsOf(r.held) \subseteq EventsOf(p.held) \union EventsOf(D)
  <2> SUFFICES ASSUME NEW e \in EventsOf(r.held) PROVE e \in EventsOf(p.held) \union EventsOf(D)
    OBVIOUS
  <2>1. PICK i \in 1..Len(r.held) : r.held[i].event = e
    BY <1>4, EventsIs
  <2>2. CASE i \in 1..n
    BY <1>2, <1>4, <2>1, <2>2, EventsIs DEF n
  <2>3. CASE i \notin 1..n
    <3>1. i - n \in 1..(upTo - a) /\ i = n + (i - n)
      BY <1>1, <1>2, <1>4, <2>3
    <3>2. r.held[i] = D[a + (i - n)]
      BY <1>4, <3>1
    <3>3. a + (i - n) \in 1..Len(D)
      BY <1>1, <1>2, <1>4, <3>1
    <3> QED
      BY <1>1, <2>1, <3>2, <3>3, EventsIs
  <2> QED
    BY <2>2, <2>3
<1>8. Told(r) = Told(p)
  <2>1. UNION {EventsOf(chunk.events) : chunk \in {q.chunk}} = EventsOf(D)
    BY DEF D
  <2>2. EventsOf(r.held) \union EventsOf(D) = EventsOf(p.held) \union EventsOf(D)
    BY <1>6, <1>7
  <2> QED
    BY <1>5, <2>1, <2>2, ToldIs
<1>9. r.held[2] = p.held[2]
  BY <1>2, <1>4
<1> QED
  BY <1>4, <1>5, <1>8, <1>9, TabsSame DEF r

\* So does a batch of the current pump.
LEMMA MoreTabs ==
    ASSUME PlayerAssumption, NEW p, NEW q, NEW S, NEW F, NEW c, Sound(p, S, F, c), TabsSound(p, F, c),
           q \in p.pumps, q.gen = p.gen, q.chunk # NoAnswer, q.added < Len(q.chunk.events)
    PROVE  TabsSound(AddBatch(p, q), F, c)
<1>1. HoldsSound(p, S, F) /\ PumpsSound(p, S, F) /\ DOMAIN p = PageFields
  BY DEF Sound, PageShape
<1>2. /\ CurrentSound(p, q, S, F)
      /\ \A x \in p.pumps : x.gen = p.gen => x = q
  BY <1>1 DEF PumpsSound
<1>3. Adding(p, q, S, F)
  BY <1>2 DEF CurrentSound, AddedSound, Adding, ChunkSound
<1>4. \A tab : TabsKnown(p, F, tab) => TabsKnown(AddBatch(p, q), F, tab)
  BY <1>1, <1>2, <1>3, AddTabs
<1> QED
  BY <1>4 DEF TabsSound

\* When all of a chunk is held the page goes on with its cursor.
LEMMA TurnTabs ==
    ASSUME NEW p, NEW q, NEW S, NEW F, NEW c, Sound(p, S, F, c), TabsSound(p, F, c),
           q \in p.pumps, q.gen = p.gen, q.chunk # NoAnswer, ~ (q.added < Len(q.chunk.events))
    PROVE  TabsSound(ChunkAdded(p, q), F, c)
<1> DEFINE D == q.chunk.events
<1>1. HoldsSound(p, S, F) /\ PumpsSound(p, S, F) /\ DOMAIN p = PageFields
  BY DEF Sound, PageShape
<1>2. PICK x : Turned(p, q, x) /\ ChunkAdded(p, q) = Pump(x)
  BY <1>1, TurnIs
<1>3. /\ DOMAIN x = PageFields /\ x.held = p.held /\ x.cursor = q.chunk.cursor /\ x.gen = p.gen
      /\ x.pumps = p.pumps \ {q} /\ x.switches = p.switches /\ x.initialTab = p.initialTab
  BY <1>2 DEF Turned
<1>4. /\ CurrentSound(p, q, S, F)
      /\ \A y \in p.pumps : y.gen = p.gen => y = q
  BY <1>1 DEF PumpsSound
<1>5. Chunks(p) = {q.chunk} /\ Chunks(x) = {} /\ ~ Pumping(x)
  <2>1. \A y \in x.pumps : y.gen # x.gen
    BY <1>3, <1>4
  <2>2. Chunks(x) = {} /\ ~ Pumping(x)
    BY <2>1 DEF Chunks, Pumping
  <2> QED
    BY <1>4, <2>2, OneChunk
<1>6. D \in Seq(Item) /\ \A i \in 1..Len(D) : HeldAt(p, D[i].event)
  <2>1. ChunkSound(q.chunk, p.cursor.after, p.watermark, S, F) /\ AddedSound(p, q)
    BY <1>4 DEF CurrentSound
  <2>2. D \in Seq(Item) /\ Len(D) \in Nat
    BY <2>1 DEF ChunkSound
  <2>3. q.added = Len(D)
    BY <2>1, <2>2 DEF AddedSound
  <2> QED
    BY <2>1, <2>2, <2>3 DEF AddedSound
<1>7. EventsOf(D) \subseteq EventsOf(p.held)
  <2> SUFFICES ASSUME NEW e \in EventsOf(D) PROVE e \in EventsOf(p.held)
    OBVIOUS
  <2>1. PICK i \in 1..Len(D) : D[i].event = e
    BY <1>6, EventsIs
  <2>2. PICK k \in 2..Len(p.held) : p.held[k].event = e
    BY <1>6, <2>1 DEF HeldAt
  <2>3. k \in 1..Len(p.held) /\ p.held \in Seq(Item)
    BY <1>1 DEF HoldsSound
  <2> QED
    BY <2>2, <2>3, EventsIs
<1>8. Told(x) = Told(p)
  <2>1. UNION {EventsOf(chunk.events) : chunk \in {q.chunk}} = EventsOf(D)
    OBVIOUS
  <2>2. UNION {EventsOf(chunk.events) : chunk \in {}} = {}
    OBVIOUS
  <2> HIDE DEF D
  <2>3. EventsOf(p.held) \union EventsOf(D) = EventsOf(x.held) \union {}
    BY <1>3, <1>7
  <2> QED
    BY <1>5, <2>1, <2>2, <2>3, ToldIs
<1>9. ASSUME NEW tab, TabsKnown(p, F, tab) PROVE TabsKnown(x, F, tab)
  <2>1. Carries(q.chunk.cursor, LastTab(Told(p), tab))
    BY <1>5, <1>9 DEF TabsKnown
  <2>2. Carries(x.cursor, LastTab(Told(x), tab))
    BY <1>3, <1>8, <2>1
  <2>3. \A f \in Activities(F) : InSegment(f, p) => InSegment(f, x)
    BY <1>3 DEF InSegment
  <2> QED
    BY <1>3, <1>5, <1>8, <1>9, <2>2, <2>3 DEF TabsKnown
<1>10. TabsSound(x, F, c)
  BY <1>9 DEF TabsSound
<1>11. Starts(x, Pump(x))
  BY <1>3, <1>5, PumpAlike DEF Starts
<1> QED
  BY <1>2, <1>10, <1>11, StartTabs

\* What is in order step by step is in order.
LEMMA Ascending ==
    ASSUME NEW S, Orderly(S), NEW n \in Nat, NEW h, \A i \in 1..n : h[i] \in S,
           \A i \in 2..n : Precedes(h[i - 1], h[i])
    PROVE  \A i, j \in 1..n : i < j => Precedes(h[i], h[j])
<1> SUFFICES ASSUME NEW i \in 1..n PROVE \A j \in 1..n : i < j => Precedes(h[i], h[j])
  OBVIOUS
<1> DEFINE T == {j \in 1..n : i < j /\ ~ Precedes(h[i], h[j])}
<1> SUFFICES ASSUME T # {} PROVE FALSE
  OBVIOUS
<1>1. T \subseteq Nat
  OBVIOUS
<1>2. PICK j \in T : \A k \in T : j <= k
  BY <1>1, LeastNatural
<1>3. j \in 2..n /\ j - 1 \in 1..n /\ j \in 1..n /\ i < j /\ ~ Precedes(h[i], h[j]) /\ ~ (j <= j - 1)
  BY <1>2
<1>4. Precedes(h[j - 1], h[j]) /\ j - 1 \notin T
  BY <1>2, <1>3
<1>5. i # j - 1
  BY <1>3, <1>4
<1>6. Precedes(h[i], h[j - 1])
  <2>1. i < j - 1
    BY <1>3, <1>5
  <2> QED
    BY <1>3, <1>4, <2>1
<1>7. h[i] \in S /\ h[j - 1] \in S /\ h[j] \in S
  BY <1>3
<1>8. ~ Precedes(h[j], h[j - 1])
  BY <1>4, <1>7, OrderTotal
<1> QED
  BY <1>3, <1>6, <1>7, <1>8, OrderTransitive

\* What is held, and what arrives, is stored.
LEMMA HeldStored ==
    ASSUME NEW p, NEW S, NEW F, HoldsSound(p, S, F)
    PROVE  EventsOf(p.held) \subseteq S
<1>1. p.held \in Seq(Item) /\ \A i \in 1..Len(p.held) : p.held[i].event \in S
  BY DEF HoldsSound, Older
<1> QED
  BY <1>1, EventsIs

\* So is what the page was told of.
LEMMA ToldStored ==
    ASSUME NEW p, NEW S, NEW F, NEW c, Sound(p, S, F, c)
    PROVE  Told(p) \subseteq S
<1>1. HoldsSound(p, S, F) /\ PumpsSound(p, S, F)
  BY DEF Sound
<1>2. ASSUME NEW chunk \in Chunks(p) PROVE EventsOf(chunk.events) \subseteq S
  <2>1. PICK q \in p.pumps : q.gen = p.gen /\ q.chunk # NoAnswer /\ chunk = q.chunk
    BY DEF Chunks
  <2>2. ChunkSound(chunk, p.cursor.after, p.watermark, S, F)
    BY <1>1, <2>1 DEF PumpsSound, CurrentSound
  <2>3. chunk.events \in Seq(Item) /\ \A i \in 1..Len(chunk.events) : chunk.events[i].event \in S
    BY <2>2 DEF ChunkSound, Older
  <2> QED
    BY <2>3, EventsIs
<1>3. EventsOf(p.held) \subseteq S
  BY <1>1, HeldStored
<1>4. Told(p) \subseteq EventsOf(p.held) \union UNION {EventsOf(chunk.events) : chunk \in Chunks(p)}
  BY ToldIs DEF Activities
<1> QED
  BY <1>2, <1>3, <1>4

\* What arrives follows what is held.
LEMMA Follows ==
    ASSUME NEW p, NEW S, Orderly(S), NEW F, HoldsSound(p, S, F), OrderSound(p), p.cursor # None,
           \A q \in p.pumps : q.gen = p.gen => q.chunk = NoAnswer,
           NEW chunk, ChunkSound(chunk, p.cursor.after, p.watermark, S, F)
    PROVE  \A e \in EventsOf(p.held) : \A f \in EventsOf(chunk.events) : Precedes(e, f)
<1> DEFINE n == Len(p.held)
           h == [i \in 1..n |-> p.held[i].event]
           after == p.cursor.after
<1>1. p.held \in Seq(Item) /\ n \in Nat /\ n >= 2 /\ n \in 1..n /\ \A i \in 1..n : h[i] \in S
  BY DEF HoldsSound, Older
<1>2. \A i \in 2..n : Precedes(h[i - 1], h[i])
  <2>1. \A i \in 2..n : i \in 1..n /\ i - 1 \in 1..n
    BY <1>1
  <2> QED
    BY <2>1 DEF OrderSound
<1>3. h[n] = after
  BY <1>1 DEF OrderSound, LastHeld
<1>4. \A e \in EventsOf(p.held) : \E i \in 1..n : h[i] = e
  BY <1>1, EventsIs
<1> HIDE DEF h, after
<1>5. \A i, j \in 1..n : i < j => Precedes(h[i], h[j])
  BY <1>1, <1>2, Ascending
<1>6. ASSUME NEW e \in EventsOf(p.held), NEW f \in EventsOf(chunk.events) PROVE Precedes(e, f)
  <2>1. PICK i \in 1..n : h[i] = e
    BY <1>4
  <2>2. e \in S /\ after \in S /\ (e = after \/ Precedes(e, after))
    <3>1. i = n \/ i < n
      BY <1>1
    <3> QED
      BY <1>1, <1>3, <1>5, <2>1, <3>1
  <2>3. f \in S /\ Precedes(after, f)
    <3>1. chunk.events \in Seq(Item)
      BY DEF ChunkSound
    <3>2. PICK k \in 1..Len(chunk.events) : chunk.events[k].event = f
      BY <3>1, EventsIs
    <3> QED
      BY <3>2 DEF ChunkSound, Older, after
  <2>4. ~ Precedes(f, after)
    BY <2>2, <2>3, OrderTotal
  <2> QED
    BY <2>2, <2>3, <2>4, OrderTransitive
<1> QED
  BY <1>6

\* A chunk that arrives tells of the uses of tabs in it.
LEMMA ArrivalTabs ==
    ASSUME PlayerAssumption, NEW p, NEW q, NEW S, Orderly(S), NEW F, NEW c, Sound(p, S, F, c), TabsSound(p, F, c),
           q \in p.pumps, q.gen = p.gen, q.chunk = NoAnswer, NEW chunk, chunk # NoAnswer,
           ChunkSound(chunk, p.cursor.after, p.watermark, S, F),
           Tells(chunk.switches, Turns(UsedIn(chunk.events), p.cursor.tab)),
           Carries(chunk.cursor, LastTab(UsedIn(chunk.events), p.cursor.tab)),
           NEW x, x = [q EXCEPT !.chunk = chunk],
           NEW r, r = [p EXCEPT !.switches = @ \o chunk.switches, !.pumps = (@ \ {q}) \union {x}]
    PROVE  TabsSound(AddBatch(r, x), F, c)
<1> SUFFICES ASSUME ~ c PROVE TabsSound(AddBatch(r, x), F, c)
  BY DEF TabsSound
<1> DEFINE A == Told(p)
           B == UsedIn(chunk.events)
           switches == p.switches \o chunk.switches
           pumps == (p.pumps \ {q}) \union {x}
<1>1. HoldsSound(p, S, F) /\ PumpsSound(p, S, F) /\ DOMAIN p = PageFields /\ OrderSound(p)
  BY DEF Sound, PageShape
<1>2. /\ CurrentSound(p, q, S, F) /\ p.gen \in Nat
      /\ \A y \in p.pumps : y.gen = p.gen => y = q
  BY <1>1 DEF PumpsSound
<1>3. p.cursor # None /\ \A y \in p.pumps : y.gen = p.gen => y.chunk = NoAnswer
  BY <1>2 DEF CurrentSound
<1>4. /\ x.gen = p.gen /\ x.cursor = p.cursor /\ x.chunk = chunk /\ x.added = 0
      /\ DOMAIN x = {"gen", "cursor", "chunk", "added"}
  BY <1>2 DEF CurrentSound
<1>5. /\ DOMAIN r = PageFields /\ r.held = p.held /\ r.cursor = p.cursor /\ r.watermark = p.watermark
      /\ r.gen = p.gen /\ r.seeking = p.seeking /\ r.initialTab = p.initialTab
      /\ r.switches = switches /\ r.pumps = pumps
  <2>1. r = [p EXCEPT !.switches = switches, !.pumps = pumps]
    OBVIOUS
  <2> HIDE DEF switches, pumps
  <2> QED
    BY <1>1, <2>1 DEF PageFields
<1>6. x \in r.pumps /\ x.gen = r.gen /\ \A y \in r.pumps : y.gen = r.gen => y = x
  BY <1>2, <1>4, <1>5
<1>7. Chunks(p) = {} /\ Chunks(r) = {chunk}
  <2>1. Chunks(p) = {}
    BY <1>3 DEF Chunks
  <2>2. Chunks(r) = {x.chunk}
    <3>1. {y \in r.pumps : y.gen = r.gen /\ y.chunk # NoAnswer} = {x}
      BY <1>4, <1>6
    <3> QED
      BY <1>4, <3>1 DEF Chunks
  <2> QED
    BY <1>4, <2>1, <2>2
<1>8. chunk.events \in Seq(Item) /\ Len(chunk.events) \in Nat /\ 0 < Len(chunk.events)
      /\ \A i \in 1..Len(chunk.events) : chunk.events[i].event \in S
  BY DEF ChunkSound, Older
<1>9. A = Activities(EventsOf(p.held)) /\ B = Activities(EventsOf(chunk.events)) /\ Told(r) = A \union B
  <2>1. UNION {EventsOf(y.events) : y \in {chunk}} = EventsOf(chunk.events)
    OBVIOUS
  <2>2. UNION {EventsOf(y.events) : y \in {}} = {}
    OBVIOUS
  <2>3. /\ Told(p) = Activities(EventsOf(p.held) \union {})
        /\ Told(r) = Activities(EventsOf(p.held) \union EventsOf(chunk.events))
    BY <1>5, <1>7, <2>1, <2>2, ToldIs
  <2>4. B = Activities(EventsOf(chunk.events))
    BY <1>8, EventsIs
  <2> QED
    BY <2>3, <2>4 DEF Activities
<1>10. A \subseteq S /\ B \subseteq S /\ \A e \in A : \A f \in B : Precedes(e, f)
  <2>1. \A e \in EventsOf(p.held) : \A f \in EventsOf(chunk.events) : Precedes(e, f)
    BY <1>1, <1>3, Follows
  <2>2. EventsOf(p.held) \subseteq S /\ EventsOf(chunk.events) \subseteq S
    BY <1>1, <1>8, HeldStored, EventsIs
  <2> QED
    BY <1>9, <2>1, <2>2 DEF Activities
<1>11. Orderly(A \union B) /\ Orderly(A)
  BY <1>10, OrderlyPart
<1> HIDE DEF A, B
<1>12. ASSUME NEW tab, TabsKnown(p, F, tab) PROVE TabsKnown(r, F, tab)
  <2>1. p.cursor.tab = LastTab(A, tab)
    BY <1>3, <1>7, <1>12 DEF TabsKnown, Carries, A
  <2>2. Turns(A \union B, tab) = Turns(A, tab) \union Turns(B, p.cursor.tab)
        /\ LastTab(A \union B, tab) = LastTab(B, p.cursor.tab)
    BY <1>10, <1>11, <2>1, TurnsJoin
  <2>3. Tells(r.switches, Turns(Told(r), tab))
    <3>1. Tells(p.switches, Turns(A, tab)) /\ Tells(chunk.switches, Turns(B, p.cursor.tab))
      BY <1>12 DEF TabsKnown, A, B
    <3>2. \A e \in Turns(A, tab) : \A f \in Turns(B, p.cursor.tab) : Precedes(e, f)
      BY <1>10 DEF Turns
    <3>3. Tells(switches, Turns(A, tab) \union Turns(B, p.cursor.tab))
      BY <3>1, <3>2, TellsJoin
    <3> QED
      BY <1>5, <1>9, <2>2, <3>3
  <2>4. Carries(chunk.cursor, LastTab(Told(r), tab))
    BY <1>9, <2>2 DEF B
  <2>5. tab = None => \/ Told(r) # {} /\ r.initialTab = Earliest(Told(r)).tab
                      \/ \A f \in Activities(F) : InSegment(f, r)
    <3>1. ASSUME A # {} PROVE Earliest(A \union B) = Earliest(A)
      <4>1. Earliest(A) \in A /\ \A f \in A : f # Earliest(A) => Precedes(Earliest(A), f)
        BY <1>11, <3>1, EarliestIs
      <4>2. Earliest(A) \in A \union B /\ \A f \in A \union B : f # Earliest(A) => Precedes(Earliest(A), f)
        BY <1>10, <4>1
      <4> QED
        BY <1>11, <4>2, EarliestOnly
    <3>2. tab = None => \/ A # {} /\ p.initialTab = Earliest(A).tab
                        \/ \A f \in Activities(F) : InSegment(f, p)
      BY <1>12 DEF TabsKnown, A
    <3>3. \A f \in Activities(F) : InSegment(f, p) => InSegment(f, r)
      BY <1>5 DEF InSegment
    <3> QED
      BY <1>5, <1>9, <3>1, <3>2, <3>3
  <2>6. tab # None => r.initialTab = tab
    BY <1>5, <1>12 DEF TabsKnown
  <2> QED
    BY <1>7, <2>3, <2>4, <2>5, <2>6 DEF TabsKnown
<1>13. Adding(r, x, S, F) /\ HoldsSound(r, S, F)
  <2>1. ~ p.seeking
    BY <1>2 DEF CurrentSound
  <2>2. \A e : HeldAt(p, e) <=> HeldAt(r, e)
    BY <1>5 DEF HeldAt
  <2>3. HoldsSound(r, S, F)
    BY <1>1, <1>5, <2>2 DEF HoldsSound
  <2>4. ChunkSound(x.chunk, r.cursor.after, r.watermark, S, F)
    BY <1>4, <1>5
  <2>5. x.added \in Nat /\ x.added < Len(x.chunk.events) /\ \A i \in 1..x.added : FALSE
    BY <1>4, <1>8
  <2> QED
    BY <1>3, <1>4, <1>5, <1>6, <2>1, <2>3, <2>4, <2>5 DEF Adding
<1>14. \A tab : TabsKnown(r, F, tab) => TabsKnown(AddBatch(r, x), F, tab)
  BY <1>5, <1>6, <1>13, AddTabs
<1> QED
  BY <1>12, <1>14 DEF TabsSound

\* The tab that was used last is one of the recording's.
LEMMA LatestTabIs ==
    ASSUME NEW E, Orderly(E), E \subseteq UNION Recordings, NEW position
    PROVE  LatestActivityTabAt(E, position) \in Tabs
<1> DEFINE tab == LatestActivityTabAt(E, position)
           used == Activities(UpTo(E, position))
<1>1. used \subseteq E
  BY DEF Activities, UpTo
<1>2. used = {} => tab = None
  BY DEF LatestActivityTabAt, TabOf, Latest
<1>3. used # {} => Latest(used) \in used /\ Latest(used) # None
  BY <1>1, OrderlyPart, LatestIs
<1>4. tab = IF Latest(used) = None THEN None ELSE Latest(used).tab
  BY DEF LatestActivityTabAt, TabOf
<1> HIDE DEF used, tab
<1> QED
  BY <1>1, <1>2, <1>3, <1>4 DEF Tabs, tab

\* A new player is told of the tab that was in use at its snapshot.
LEMMA ReplacedTabs ==
    ASSUME StreamAssumption, StoredOrderly, NEW p, NEW F, NEW c, NEW d, Sound(p, stored, F, c),
           PlaySound(p), NEW s \in p.seeks, s.gen = p.seekGen, NEW requested,
           SeekAnswer(p.watermark, requested) # NoAnswer
    PROVE  TabsSound(Replaced(WithoutSeek(p, s), s, SeekAnswer(p.watermark, requested)), F, d)
<1> DEFINE w == p.watermark
           E == OrderedEvents(w)
           snapshot == SeekSnapshot(E, requested)
           reply == SeekAnswer(w, requested)
           tab == LatestActivityTabAt(E, snapshot)
           r == Replaced(WithoutSeek(p, s), s, reply)
<1>1. PageShape(p, stored, F) /\ SeeksSound(p) /\ PumpsSound(p, stored, F)
  BY DEF Sound
<1>2. Orderly(E) /\ E \subseteq UNION Recordings /\ F \subseteq E /\ Snapshots(E) # {}
  BY <1>1, OpenedOrderly DEF Older, OrderedEvents, PageShape, Snapshots
<1>3. /\ snapshot \in E
      /\ Run(reply.events, SeekEvents(E, snapshot)) /\ Len(reply.events) >= 2
      /\ reply.events[2].event = snapshot
      /\ Tells(reply.switches, Turns(UsedIn(reply.events), tab))
      /\ Carries(reply.cursor, LastTab(UsedIn(reply.events), tab))
      /\ tab # None => reply.start.initialTab = tab
      /\ tab = None => \A e \in Activities(E) : ~ Precedes(e, snapshot)
  BY <1>2, SeekIs
<1>4. tab \in Tabs
  BY <1>2, LatestTabIs
<1>5. PICK y : Renewed(p, s, reply, y) /\ (r = y \/ r = EnsurePump(y))
  BY <1>1, ReplacedIs DEF PageShape
<1> HIDE DEF E, snapshot, reply, tab, r
<1>6. /\ DOMAIN y = PageFields /\ y.held = reply.events /\ y.cursor = reply.cursor
      /\ y.gen = p.gen /\ y.pumps = p.pumps
      /\ y.switches = reply.switches /\ y.initialTab = reply.start.initialTab
  BY <1>5 DEF Renewed
<1>7. \A x \in p.pumps : x.gen # p.gen
  <2>1. p.seeking
    BY <1>1 DEF SeeksSound
  <2> QED
    BY <1>1, <2>1 DEF PumpsSound, CurrentSound
<1>8. Chunks(y) = {}
  BY <1>6, <1>7 DEF Chunks
<1>9. Told(y) = UsedIn(reply.events)
  <2>1. UNION {EventsOf(chunk.events) : chunk \in {}} = {}
    OBVIOUS
  <2>2. Told(y) = Activities(EventsOf(reply.events))
    BY <1>6, <1>8, <2>1, ToldIs
  <2>3. reply.events \in Seq(Item)
    BY <1>3 DEF Run
  <2> QED
    BY <2>2, <2>3, EventsIs
<1>10. TabsKnown(y, F, tab)
  <2>1. tab = None => \A f \in Activities(F) : InSegment(f, y)
    <3>1. Activities(F) \subseteq Activities(E)
      BY <1>2 DEF Activities
    <3> QED
      BY <1>3, <1>6, <3>1 DEF InSegment
  <2> QED
    BY <1>3, <1>6, <1>8, <1>9, <2>1 DEF TabsKnown
<1>11. TabsSound(y, F, d)
  BY <1>4, <1>10 DEF TabsSound
<1>12. Starts(y, EnsurePump(y))
  BY <1>6, EnsureAlike
<1>13. TabsSound(EnsurePump(y), F, d)
  BY <1>11, <1>12, StartTabs
<1>14. TabsSound(r, F, d)
  BY <1>5, <1>11, <1>13
<1> QED
  BY <1>14 DEF r, reply

\* The first tab that is used is known when the page opens.
LEMMA OpenTabs ==
    ASSUME StreamAssumption, StoredOrderly, Open, NEW c
    PROVE  TabsSound(page', stored, c)
<1>1. Orderly(stored)
  BY DEF StoredOrderly
<1>2. PICK w, p : /\ OrderedEvents(w) = stored /\ Older(stored, w) = stored
                  /\ Snapshots(stored) # {} /\ Bootstrap(w) # NoAnswer
                  /\ Opened(Bootstrap(w), w, p) /\ (page' = p \/ page' = FetchOne(p))
  BY <1>1, OpenIs
<1> DEFINE reply == Bootstrap(w)
           D == reply.events
           A == Activities(stored)
           used == UsedIn(D)
<1>3. /\ Run(D, stored) /\ Len(D) >= 2
      /\ Tells(reply.switches, Turns(used, None))
      /\ Carries(reply.cursor, LastTab(used, None))
      /\ A # {} => reply.start.initialTab = Earliest(A).tab
  BY <1>2, BootstrapIs
<1> HIDE DEF reply
<1>4. /\ DOMAIN p = PageFields /\ p.held = D /\ p.cursor = reply.cursor
      /\ p.pumps = {} /\ p.switches = reply.switches /\ p.initialTab = reply.start.initialTab
  BY <1>2 DEF Opened, reply
<1>5. Chunks(p) = {}
  BY <1>4 DEF Chunks
<1>6. D \in Seq(Item) /\ Len(D) \in Nat /\ 2 \in 1..Len(D)
  BY <1>3 DEF Run
<1>7. Told(p) = used
  <2>1. UNION {EventsOf(chunk.events) : chunk \in {}} = {}
    OBVIOUS
  <2>2. Told(p) = Activities(EventsOf(D))
    BY <1>4, <1>5, <2>1, ToldIs
  <2> QED
    BY <1>6, <2>2, EventsIs
<1>8. used \subseteq A /\ A \subseteq stored
  <2>1. \A i \in 1..Len(D) : D[i].event \in stored
    BY <1>3 DEF Run
  <2> QED
    BY <2>1 DEF UsedIn, Activities
<1>9. ASSUME NEW e \in A, NEW i \in 1..Len(D), ~ Precedes(D[i].event, e) PROVE e \in used
  <2>1. PICK j \in 1..i : D[j].event = e
    BY <1>3, <1>8, <1>9 DEF Run
  <2>2. j \in 1..Len(D)
    BY <1>6
  <2>3. e.kind = "activity"
    BY DEF Activities
  <2> QED
    BY <2>1, <2>2, <2>3 DEF UsedIn, Activities
<1>10. \/ used # {} /\ p.initialTab = Earliest(used).tab
       \/ \A f \in Activities(stored) : InSegment(f, p)
  <2>1. CASE used = {}
    <3> SUFFICES ASSUME NEW f \in A PROVE ~ Precedes(f, p.held[2].event)
      BY DEF InSegment
    <3>1. Precedes(D[2].event, f)
      BY <1>6, <1>9, <2>1
    <3>2. D[2].event \in stored /\ f \in stored
      BY <1>3, <1>6, <1>8 DEF Run
    <3> QED
      BY <1>1, <1>4, <3>1, <3>2, OrderTotal
  <2>2. CASE used # {}
    <3>1. Orderly(A) /\ Orderly(used) /\ A # {}
      BY <1>1, <1>8, <2>2, OrderlyPart
    <3> DEFINE m == Earliest(A)
    <3>2. m \in A /\ \A f \in A : f # m => Precedes(m, f)
      BY <3>1, EarliestIs
    <3> HIDE DEF m
    <3>3. PICK u : u \in used
      BY <2>2
    <3>4. PICK i \in 1..Len(D) : D[i].event = u
      BY <3>3 DEF UsedIn, Activities
    <3>5. ~ Precedes(u, m)
      BY <1>8, <3>1, <3>2, <3>3, OrderTotal
    <3>6. m \in used
      BY <1>9, <3>2, <3>4, <3>5
    <3>7. \A f \in used : f # m => Precedes(m, f)
      BY <1>8, <3>2
    <3>8. Earliest(used) = m
      BY <3>1, <3>6, <3>7, EarliestOnly
    <3> QED
      BY <1>3, <1>4, <2>2, <3>1, <3>8 DEF m
  <2> QED
    BY <2>1, <2>2
<1> HIDE DEF used, A, D
<1>11. TabsKnown(p, stored, None)
  BY <1>3, <1>4, <1>5, <1>7, <1>10 DEF TabsKnown
<1>12. TabsSound(p, stored, c)
  BY <1>11 DEF TabsSound, Tabs
<1>13. Starts(p, FetchOne(p))
  BY <1>4, FetchAlike
<1> QED
  BY <1>2, <1>12, <1>13, StartTabs

-----------------------------------------------------------------------------
(* The tabs stay known.                                                    *)

TabsAreSound == page # None => TabsSound(page, frozen, cut)

\* No page is open at first.
LEMMA TabsStart == Init => TabsAreSound
BY DEF Init, TabsAreSound

\* What the tabs depend on is left alone,
LEMMA TabsStep ==
    ASSUME page # None, TabsSound(page', frozen, cut'), UNCHANGED frozen
    PROVE  TabsAreSound'
BY DEF TabsAreSound

\* a pump starts,
LEMMA StartTabsStep ==
    ASSUME TabsAreSound, page # None, Starts(page, page'), UNCHANGED <<frozen, cut>>
    PROVE  TabsAreSound'
<1>1. TabsSound(page', frozen, cut)
  BY StartTabs DEF TabsAreSound
<1> QED
  BY <1>1 DEF TabsAreSound

\* or one that has done nothing is over.
LEMMA LessTabsStep ==
    ASSUME TabsAreSound, page # None, UNCHANGED <<frozen, cut>>,
           page'.switches = page.switches, page'.initialTab = page.initialTab, page'.cursor = page.cursor,
           page'.held = page.held, page'.gen = page.gen, page'.pumps \subseteq page.pumps,
           \A q \in page.pumps \ page'.pumps : q.gen # page.gen \/ q.chunk = NoAnswer
    PROVE  TabsAreSound'
<1>1. TabsSound(page', frozen, cut)
  BY LessTabs DEF TabsAreSound
<1> QED
  BY <1>1 DEF TabsAreSound

\* A seek either leaves the tabs known or cuts the chunk off.
LEMMA SeekTabsStep ==
    ASSUME PlayerSound, TabsAreSound, page # None, NEW p, Same(page, p), NEW target, SeekChanges(p, target)
    PROVE  TabsAreSound'
<1>1. Sound(p, stored, frozen, cut) /\ TabsSound(p, frozen, cut)
  BY PageKnown, SameStarts, StartKeeps, StartTabs DEF TabsAreSound
<1>2. page' = SeekTo(p, target) /\ UNCHANGED <<stream, frozen>>
  BY DEF SeekChanges
<1>3. cut' <=> (cut \/ (SeekTo(p, target).gen # p.gen /\ HalfAdded(p)))
  <2>1. p.gen = page.gen /\ (HalfAdded(page) <=> HalfAdded(p))
    BY DEF Same, Alike, HalfAdded
  <2>2. cut' = (cut \/ (SeekTo(p, target).gen # page.gen /\ HalfAdded(page)))
    BY <1>2 DEF SeekChanges
  <2> QED
    BY <2>1, <2>2
<1>4. TabsSound(page', frozen, cut')
  BY <1>1, <1>2, <1>3, SeekTabs
<1> QED
  BY <1>2, <1>4, TabsStep

\* A retry repeats a seek or a fetch.
LEMMA RetryTabsStep ==
    ASSUME PlayerSound, TabsAreSound, Retry
    PROVE  TabsAreSound'
<1> DEFINE p == [page EXCEPT !.error = FALSE]
<1>1. page # None /\ DOMAIN page = PageFields /\ PlaySound(page)
  BY PageKnown DEF Retry
<1>2. \/ SeekChanges(p, page.failed)
      \/ /\ page' = FetchOne([p EXCEPT !.buffering = TRUE]) /\ UNCHANGED <<stream, frozen, cut>>
  BY DEF Retry, Changes
<1>3. Same(page, p)
  BY <1>1 DEF Same, Alike, PageFields
<1>4. CASE SeekChanges(p, page.failed)
  <2> HIDE DEF p
  <2> QED
    BY <1>1, <1>3, <1>4, SeekTabsStep
<1>5. CASE page' = FetchOne([p EXCEPT !.buffering = TRUE]) /\ UNCHANGED <<stream, frozen, cut>>
  <2>1. Starts(page, page')
    BY <1>1, <1>5, RetryFetchKeeps
  <2> QED
    BY <1>1, <1>5, <2>1, StartTabsStep
<1> QED
  BY <1>2, <1>4, <1>5

\* The answer of the current seek tells of the tabs anew.
LEMMA AnsweredTabsStep ==
    ASSUME StreamAssumption, PlayerSound, TabsAreSound, page # None, NEW s \in page.seeks, SeekAnswered(s)
    PROVE  TabsAreSound'
<1> DEFINE reply == SeekAnswer(page.watermark, s.target)
<1>1. PlaySound(page) /\ Sound(page, stored, frozen, cut) /\ DOMAIN page = PageFields
  BY PageKnown
<1>2. /\ reply # NoAnswer /\ UNCHANGED <<stream, frozen>>
      /\ \/ s.gen = page.seekGen /\ page' = Replaced(WithoutSeek(page, s), s, reply)
         \/ s.gen # page.seekGen /\ page' = WithoutSeek(page, s) /\ cut' = cut
  BY DEF SeekAnswered
<1>3. CASE s.gen = page.seekGen /\ page' = Replaced(WithoutSeek(page, s), s, reply)
  <2>1. StoredOrderly
    BY SoundStored DEF PlayerSound
  <2> DEFINE r == Replaced(WithoutSeek(page, s), s, reply)
  <2>2. TabsSound(r, frozen, cut')
    BY <1>1, <1>2, <1>3, <2>1, ReplacedTabs
  <2> HIDE DEF r
  <2>3. page' = r
    BY <1>3 DEF r
  <2> QED
    BY <1>2, <2>2, <2>3, TabsStep
<1>4. CASE s.gen # page.seekGen /\ page' = WithoutSeek(page, s) /\ cut' = cut
  <2>1. /\ page'.held = page.held /\ page'.cursor = page.cursor /\ page'.switches = page.switches
        /\ page'.initialTab = page.initialTab /\ page'.gen = page.gen /\ page'.pumps = page.pumps
    BY <1>1, <1>4 DEF WithoutSeek, PageFields
  <2> QED
    BY <1>2, <1>4, <2>1, LessTabsStep
<1> QED
  BY <1>2, <1>3, <1>4

\* A seek that fails tells nothing.
LEMMA SeekFailsTabsStep ==
    ASSUME PlayerSound, TabsAreSound, page # None, NEW s \in page.seeks, SeekRequestFails(s)
    PROVE  TabsAreSound'
<1>1. DOMAIN page = PageFields /\ page' = SeekFailed(WithoutSeek(page, s), s) /\ UNCHANGED <<stream, frozen, cut>>
  BY PageKnown DEF SeekRequestFails, Changes
<1>2. /\ page'.held = page.held /\ page'.cursor = page.cursor /\ page'.switches = page.switches
      /\ page'.initialTab = page.initialTab /\ page'.gen = page.gen /\ page'.pumps = page.pumps
  BY <1>1 DEF SeekFailed, WithoutSeek, PageFields
<1> QED
  BY <1>1, <1>2, LessTabsStep

\* Neither does a pump that is over.
LEMMA GoneTabsStep ==
    ASSUME PlayerSound, TabsAreSound, page # None, NEW q \in page.pumps, q.gen # page.gen \/ q.chunk = NoAnswer,
           page' = WithoutPump(page, q) \/ page' = PumpFails(WithoutPump(page, q), q),
           UNCHANGED <<stream, frozen, cut>>
    PROVE  TabsAreSound'
<1>1. DOMAIN page = PageFields
  BY PageKnown
<1>2. /\ page'.held = page.held /\ page'.cursor = page.cursor /\ page'.switches = page.switches
      /\ page'.initialTab = page.initialTab /\ page'.gen = page.gen /\ page'.pumps = page.pumps \ {q}
  BY <1>1 DEF PumpFails, WithoutPump, PageFields
<1> QED
  BY <1>2, LessTabsStep

\* A chunk that arrives goes on from the tab its cursor carries.
LEMMA ArrivesTabsStep ==
    ASSUME StreamAssumption, PlayerAssumption, PlayerSound, TabsAreSound, page # None,
           NEW q \in page.pumps, ChunkArrives(q)
    PROVE  TabsAreSound'
<1> DEFINE chunk == NextChunk(q.cursor)
           x == [q EXCEPT !.chunk = chunk]
           p == [page EXCEPT !.switches = @ \o chunk.switches, !.pumps = (@ \ {q}) \union {x}]
<1>1. /\ q.chunk = NoAnswer /\ chunk # NoAnswer /\ UNCHANGED <<stream, frozen, cut>>
      /\ page' = IF q.gen = page.gen THEN AddBatch(p, x) ELSE WithoutPump(page, q)
  BY DEF ChunkArrives, Changes
<1>2. CASE q.gen # page.gen
  BY <1>1, <1>2, GoneTabsStep
<1>3. CASE q.gen = page.gen
  <2>1. /\ Sound(page, stored, frozen, cut) /\ PageShape(page, stored, frozen)
        /\ HoldsSound(page, stored, frozen) /\ CursorSound(page)
        /\ CurrentSound(page, q, stored, frozen) /\ TabsSound(page, frozen, cut)
    BY <1>3, PageKnown DEF PumpsSound, TabsAreSound
  <2>2. StoredOrderly /\ Orderly(stored)
    BY SoundStored DEF PlayerSound, StoredOrderly
  <2>3. q.cursor = page.cursor /\ page.cursor # None
    BY <2>1 DEF CurrentSound
  <2>4. /\ q.cursor.watermark = page.watermark /\ q.cursor.after \in Older(stored, page.watermark)
        /\ q.cursor.after \in OrderedEvents(q.cursor.watermark)
    BY <2>1, <2>3, CursorStored DEF Older, OrderedEvents
  <2>5. frozen \subseteq Older(stored, page.watermark)
    BY <2>1 DEF PageShape
  <2>6. ChunkSound(chunk, page.cursor.after, page.watermark, stored, frozen)
    BY <1>1, <2>2, <2>3, <2>4, <2>5, ChunkIsSound
  <2>7. /\ Tells(chunk.switches, Turns(UsedIn(chunk.events), page.cursor.tab))
        /\ Carries(chunk.cursor, LastTab(UsedIn(chunk.events), page.cursor.tab))
    BY <1>1, <2>2, <2>3, <2>4, ChunkIs
  <2> HIDE DEF chunk
  <2>8. TabsSound(AddBatch(p, x), frozen, cut)
    BY <1>1, <1>3, <2>1, <2>2, <2>6, <2>7, ArrivalTabs
  <2> HIDE DEF p, x
  <2> QED
    BY <1>1, <1>3, <2>8, TabsStep
<1> QED
  BY <1>2, <1>3

\* Its next batches tell nothing new.
LEMMA MoreTabsStep ==
    ASSUME PlayerAssumption, PlayerSound, TabsAreSound, page # None, NEW q \in page.pumps, AddMore(q)
    PROVE  TabsAreSound'
<1>1. q.chunk # NoAnswer /\ UNCHANGED <<stream, frozen, cut>>
  BY DEF AddMore, Changes
<1>2. CASE q.gen # page.gen
  <2>1. page' = WithoutPump(page, q)
    BY <1>2 DEF AddMore, Changes
  <2> QED
    BY <1>1, <1>2, <2>1, GoneTabsStep
<1>3. Sound(page, stored, frozen, cut) /\ TabsSound(page, frozen, cut)
  BY PageKnown DEF TabsAreSound
<1>4. CASE q.gen = page.gen /\ q.added < Len(q.chunk.events)
  <2>1. page' = AddBatch(page, q)
    BY <1>4 DEF AddMore, Changes
  <2>2. TabsSound(AddBatch(page, q), frozen, cut)
    BY <1>1, <1>3, <1>4, MoreTabs
  <2> QED
    BY <1>1, <2>1, <2>2, TabsStep
<1>5. CASE q.gen = page.gen /\ ~ (q.added < Len(q.chunk.events))
  <2>1. page' = ChunkAdded(page, q)
    BY <1>5 DEF AddMore, Changes
  <2>2. TabsSound(ChunkAdded(page, q), frozen, cut)
    BY <1>1, <1>3, <1>5, TurnTabs
  <2> QED
    BY <1>1, <2>1, <2>2, TabsStep
<1> QED
  BY <1>2, <1>4, <1>5

\* Every step keeps the tabs known.
LEMMA TabsStaySound ==
    ASSUME StreamAssumption, PlayerAssumption, PlayerSound, TabsAreSound, [Next]_vars
    PROVE  TabsAreSound'
<1>1. CASE UNCHANGED vars
  BY <1>1 DEF vars, TabsAreSound
<1>2. CASE Ingest
  BY <1>2 DEF Ingest, TabsAreSound
<1>3. CASE Open
  <2>1. StoredOrderly
    BY SoundStored DEF PlayerSound
  <2>2. TabsSound(page', stored, cut')
    BY <1>3, <2>1, OpenTabs
  <2>3. frozen' = stored
    BY <1>3 DEF Open
  <2> QED
    BY <2>2, <2>3 DEF TabsAreSound
<1>4. CASE Play
  <2>1. page # None /\ UNCHANGED <<stream, frozen, cut>>
    BY <1>4 DEF Play, Changes
  <2> QED
    BY <1>4, <2>1, PageKnown, PlayKeeps, StartTabsStep
<1>5. CASE Pause
  <2>1. page # None /\ UNCHANGED <<stream, frozen, cut>>
    BY <1>5 DEF Pause, Changes
  <2> QED
    BY <1>5, <2>1, PageKnown, PauseKeeps, StartTabsStep
<1>6. ASSUME page # None, NEW time, ObserveTime(time) PROVE TabsAreSound'
  <2>1. UNCHANGED <<stream, frozen, cut>>
    BY <1>6 DEF ObserveTime, Changes
  <2> QED
    BY <1>6, <2>1, PageKnown, ObserveKeeps, StartTabsStep
<1>7. CASE Finish
  <2>1. page # None /\ UNCHANGED <<stream, frozen, cut>>
    BY <1>7 DEF Finish, Changes
  <2> QED
    BY <1>7, <2>1, PageKnown, FinishKeeps, StartTabsStep
<1>8. ASSUME NEW target, Seek(target) PROVE TabsAreSound'
  <2>1. page # None /\ SeekChanges(page, target)
    BY <1>8 DEF Seek
  <2>2. Same(page, page)
    BY <2>1, PageKnown DEF Same, Alike
  <2> QED
    BY <2>1, <2>2, SeekTabsStep
<1>9. CASE Retry
  BY <1>9, RetryTabsStep
<1>10. ASSUME page # None, NEW s \in page.seeks, SeekAnswered(s) PROVE TabsAreSound'
  BY <1>10, AnsweredTabsStep
<1>11. ASSUME page # None, NEW s \in page.seeks, SeekRequestFails(s) PROVE TabsAreSound'
  BY <1>11, SeekFailsTabsStep
<1>12. ASSUME page # None, NEW q \in page.pumps, ChunkArrives(q) PROVE TabsAreSound'
  BY <1>12, ArrivesTabsStep
<1>13. ASSUME page # None, NEW q \in page.pumps, ChunkRequestFails(q) PROVE TabsAreSound'
  BY <1>13, GoneTabsStep DEF ChunkRequestFails, Changes
<1>14. ASSUME page # None, NEW q \in page.pumps, AddMore(q) PROVE TabsAreSound'
  BY <1>14, MoreTabsStep
<1> QED
  BY <1>1, <1>2, <1>3, <1>4, <1>5, <1>6, <1>7, <1>8, <1>9, <1>10, <1>11, <1>12, <1>13, <1>14 DEF Next

\* Then the tab that is shown follows the tabs that were used.
LEMMA SoundFollows ==
    ASSUME StreamAssumption, PlayerSound, TabsAreSound
    PROVE  TabFollows
<1> SUFFICES ASSUME page # None, ~ cut, NEW e \in Activities(HeldEvents(page))
             PROVE  \/ TabShown(page, e.at) = Latest({f \in Told(page) : f.at <= e.at}).tab
                    \/ /\ \A f \in Activities(frozen) : InSegment(f, page)
                       /\ page.initialTab # Earliest(Told(page)).tab
  BY DEF TabFollows, Told
<1>1. PICK tab \in Tabs : TabsKnown(page, frozen, tab)
  BY DEF TabsAreSound, TabsSound
<1>2. Told(page) \subseteq stored
  BY PageKnown, ToldStored
<1>3. Orderly(stored) /\ stored \subseteq UNION Recordings
  BY SoundStored DEF PlayerSound, StoredOrderly
<1>4. Orderly(Told(page))
  BY <1>2, <1>3, OrderlyPart
<1>5. \A f \in Told(page) : f.tab # None
  BY <1>2, <1>3 DEF StreamAssumption
<1>6. e \in Told(page)
  BY DEF Told, ToldEvents, Activities
<1> QED
  BY <1>1, <1>4, <1>5, <1>6, KnownFollows

\* Beside the player the tab is shown that was used last, across chunks, seeks
\* and new players, whatever the chunk sizes (updateCurrentTabForTime of
\* recording.html, the cursor's tab in replay_streaming.py).
THEOREM TabStaysFollowed == Spec => []TabFollows
<1>1. Init => TabsAreSound
  BY TabsStart
<1>2. PlayerSound /\ TabsAreSound /\ [Next]_vars => TabsAreSound'
  BY TabsStaySound, StreamAssumption, PlayerAssumption
<1>3. PlayerSound /\ TabsAreSound => TabFollows
  BY SoundFollows, StreamAssumption
<1> QED
  BY <1>1, <1>2, <1>3, PlayerStaysSound, PTL DEF Spec

-----------------------------------------------------------------------------
(* How a seek ends.                                                        *)

\* All of the segment is held, or all of it up to a time.
HeldWhole(p, F) == \A e \in F : InSegment(e, p) => HeldAt(p, e)
HeldUpTo(p, F, time) == \A e \in F : InSegment(e, p) /\ e.at <= time => HeldAt(p, e)

\* Where a seek leads.
Leads(target, boundary, from, duration) ==
    /\ boundary >= from
    /\ IF target <= duration THEN boundary = Max({from, target}) ELSE boundary >= duration

\* A seek that waits for its target.
PendingSound(p, F) ==
    /\ p.pending \in PendingSeeks
    /\ p.seeking => \A s \in p.seeks : s.gen = p.seekGen => p.pending.target = s.target
    /\ ~ p.seeking =>
         /\ p.pending.boundary \in Nat
         /\ Leads(p.pending.target, p.pending.boundary, p.from, p.duration)
         /\ p.cursor # None => p.cursor.target = p.pending.boundary
         /\ p.pending.ready = TRUE => HeldUpTo(p, F, p.pending.boundary)

\* An answer that leaves nothing out, or knows whether it reaches the target.
ChunkEnds(chunk, cursor, F) ==
    /\ chunk.cursor = None =>
         \A e \in F : Precedes(cursor.after, e) => \E i \in 1..Len(chunk.events) : chunk.events[i].event = e
    /\ chunk.cursor # None => chunk.cursor \in Cursors /\ chunk.cursor.target = cursor.target
    /\ chunk.ready \in BOOLEAN \union {None}
    /\ chunk.ready # None /\ chunk.ready = TRUE =>
         \A e \in F : Precedes(chunk.events[Len(chunk.events)].event, e) => e.at > cursor.target

EndsSound(p, F) ==
    /\ p.watermark \in Nat /\ p.from \in Nat /\ p.duration \in Nat
    /\ \E e \in F : e.at = p.duration
    /\ \A s \in p.seeks : s.target \in Nat
    /\ p.failed # None => p.failed \in Nat
    /\ p.cursor # None => p.cursor \in Cursors
    /\ p.cursor = None => HeldWhole(p, F)
    /\ p.pending # None => PendingSound(p, F)
    /\ \A chunk \in Chunks(p) : ChunkEnds(chunk, p.cursor, F)

\* A seek that is over ended where it led, with all up to there.
EndsWell(p, r, F) ==
    p.pending # None /\ r.pending = None =>
        Leads(p.pending.target, r.time, r.from, p.duration) /\ HeldUpTo(r, F, r.time)

\* At least as much of the segment is held.
Grows(p, r) == r.held[2].event = p.held[2].event /\ \A e : HeldAt(p, e) => HeldAt(r, e)

\* What an operation may change that ends no seek.
EndsKept(p, r, F) ==
    /\ Grows(p, r) /\ r.cursor = p.cursor
    /\ r.watermark = p.watermark /\ r.from = p.from /\ r.duration = p.duration
    /\ \A s \in r.seeks : s \in p.seeks \/ s.target \in Nat
    /\ r.failed = p.failed \/ r.failed = None \/ r.failed \in Nat
    /\ \A chunk \in Chunks(r) : chunk \in Chunks(p) \/ ChunkEnds(chunk, p.cursor, F)
    /\ \/ r.pending = None
       \/ /\ r.pending = p.pending /\ r.seeking = p.seeking
          /\ r.seekGen = p.seekGen /\ r.seeks \subseteq p.seeks
       \/ PendingSound(r, F)

\* It leaves the ends of seeks sound.
LEMMA KeptEnds ==
    ASSUME NEW p, NEW r, NEW F, EndsKept(p, r, F), EndsSound(p, F)
    PROVE  EndsSound(r, F)
<1>1. \A e \in F : (InSegment(e, r) <=> InSegment(e, p)) /\ (HeldAt(p, e) => HeldAt(r, e))
  BY DEF EndsKept, Grows, InSegment
<1>2. HeldWhole(p, F) => HeldWhole(r, F)
  BY <1>1 DEF HeldWhole
<1>3. \A time : HeldUpTo(p, F, time) => HeldUpTo(r, F, time)
  BY <1>1 DEF HeldUpTo
<1>4. ASSUME r.pending # None PROVE PendingSound(r, F)
  <2>1. CASE PendingSound(r, F)
    BY <2>1
  <2>2. CASE /\ r.pending = p.pending /\ r.seeking = p.seeking
             /\ r.seekGen = p.seekGen /\ r.seeks \subseteq p.seeks
    <3>1. PendingSound(p, F)
      BY <1>4, <2>2 DEF EndsSound
    <3>2. r.cursor = p.cursor /\ r.from = p.from /\ r.duration = p.duration
      BY DEF EndsKept
    <3> QED
      BY <1>3, <2>2, <3>1, <3>2 DEF PendingSound
  <2> QED
    BY <1>4, <2>1, <2>2 DEF EndsKept
<1>5. ASSUME NEW chunk \in Chunks(r) PROVE ChunkEnds(chunk, r.cursor, F)
  BY DEF EndsKept, EndsSound
<1>6. \A s \in r.seeks : s.target \in Nat
  BY DEF EndsKept, EndsSound
<1>7. /\ r.watermark \in Nat /\ r.from \in Nat /\ r.duration \in Nat
      /\ \E e \in F : e.at = r.duration
      /\ r.failed # None => r.failed \in Nat
      /\ r.cursor # None => r.cursor \in Cursors
      /\ r.cursor = None => HeldWhole(r, F)
  BY <1>2 DEF EndsKept, EndsSound
<1> QED
  BY <1>4, <1>5, <1>6, <1>7 DEF EndsSound

\* A pump that starts.
LEMMA StartEnds ==
    ASSUME NEW p, NEW r, Starts(p, r), r.pending = p.pending, NEW F, EndsSound(p, F)
    PROVE  EndsSound(r, F)
<1>1. /\ r.cursor = p.cursor /\ r.held = p.held /\ r.gen = p.gen /\ r.watermark = p.watermark
      /\ r.from = p.from /\ r.duration = p.duration /\ r.failed = p.failed
      /\ r.seeking = p.seeking /\ r.seekGen = p.seekGen /\ r.seeks = p.seeks
      /\ r.pumps = p.pumps \/ r.pumps = p.pumps \union {Fresh(p)}
  BY DEF Starts, Pumps, Alike
<1>2. Fresh(p).chunk = NoAnswer
  BY DEF Fresh
<1>3. {x \in r.pumps : x.gen = r.gen /\ x.chunk # NoAnswer} = {x \in p.pumps : x.gen = p.gen /\ x.chunk # NoAnswer}
  BY <1>1, <1>2
<1>4. Chunks(r) = Chunks(p)
  BY <1>3 DEF Chunks
<1>5. Grows(p, r)
  BY <1>1 DEF Grows, HeldAt
<1>6. EndsKept(p, r, F)
  BY <1>1, <1>4, <1>5 DEF EndsKept
<1> QED
  BY <1>6, KeptEnds

\* A pump or a request that is over and has done nothing.
LEMMA LessEnds ==
    ASSUME NEW p, NEW r, r.held = p.held, r.cursor = p.cursor, r.watermark = p.watermark,
           r.from = p.from, r.duration = p.duration, r.gen = p.gen,
           r.seeks \subseteq p.seeks, r.pumps \subseteq p.pumps,
           r.failed = p.failed \/ r.failed \in Nat,
           \/ r.pending = None
           \/ r.pending = p.pending /\ r.seeking = p.seeking /\ r.seekGen = p.seekGen,
           NEW F, EndsSound(p, F)
    PROVE  EndsSound(r, F)
<1>1. Chunks(r) \subseteq Chunks(p)
  BY DEF Chunks
<1>2. Grows(p, r)
  BY DEF Grows, HeldAt
<1>3. EndsKept(p, r, F)
  BY <1>1, <1>2 DEF EndsKept
<1> QED
  BY <1>3, KeptEnds

\* A seek that needs the server has not been answered yet.
LEMMA SoughtEnds ==
    ASSUME PlayerAssumption, NEW p, NEW S, NEW F, NEW c, Sound(p, S, F, c), EndsSound(p, F), NEW target \in Nat
    PROVE  EndsSound(SeekTo(p, target), F) /\ SeekTo(p, target).seekGen # p.seekGen
<1> DEFINE r == SeekTo(p, target)
           new == [gen |-> p.seekGen + 1, target |-> target]
           sought == [target |-> target, boundary |-> None, ready |-> None]
<1>1. PICK boundary : r = LocalSeek(p, boundary) \/ r = RemoteSeek(p, target)
  BY DEF SeekTo
<1>2. PageShape(p, S, F) /\ PumpsSound(p, S, F) /\ SeeksSound(p)
  BY DEF Sound
<1>3. p.gen \in Nat /\ p.seekGen \in Nat /\ DOMAIN p = PageFields
  BY <1>2 DEF PageShape
<1> HIDE DEF r
<1>4. CASE r = LocalSeek(p, boundary)
  <2>1. /\ r.held = p.held /\ r.cursor = p.cursor /\ r.gen = p.gen /\ r.pumps = p.pumps
        /\ r.watermark = p.watermark /\ r.from = p.from /\ r.duration = p.duration
        /\ r.failed = p.failed /\ r.seeks = p.seeks /\ r.pending = None
        /\ r.seekGen = p.seekGen + 1
    BY <1>3, <1>4 DEF LocalSeek, Goto, PageFields
  <2>2. EndsSound(r, F)
    BY <2>1, LessEnds
  <2>3. r.seekGen # p.seekGen
    BY <1>3, <2>1
  <2> QED
    BY <2>2, <2>3 DEF r
<1>5. CASE r = RemoteSeek(p, target)
  <2> HIDE DEF new, sought
  <2>1. r = [[p EXCEPT !.gen = p.gen + 1, !.wanted = FALSE, !.pending = None] EXCEPT
               !.waiting = None, !.error = FALSE, !.failed = None, !.seeking = TRUE,
               !.pending = sought, !.buffering = TRUE, !.running = FALSE, !.seekGen = p.seekGen + 1,
               !.seeks = p.seeks \union {new}]
    BY <1>3, <1>5 DEF RemoteSeek, CancelChunkPump, PageFields, new, sought
  <2>2. /\ r.held = p.held /\ r.cursor = p.cursor /\ r.gen = p.gen + 1 /\ r.pumps = p.pumps
        /\ r.watermark = p.watermark /\ r.from = p.from /\ r.duration = p.duration
        /\ r.failed = None /\ r.seeks = p.seeks \union {new} /\ r.pending = sought
        /\ r.seeking = TRUE /\ r.seekGen = p.seekGen + 1
    BY <1>3, <2>1 DEF PageFields
  <2>3. new.target = target /\ new.gen = p.seekGen + 1
    BY DEF new
  <2>4. sought \in PendingSeeks /\ sought.target = target
    BY DEF PendingSeeks, sought
  <2>5. \A s \in r.seeks : s.gen = r.seekGen => s.target = target
    <3>1. \A s \in p.seeks : s.gen \in Nat /\ s.gen <= p.seekGen
      BY <1>2 DEF SeeksSound
    <3> QED
      BY <1>3, <2>2, <2>3, <3>1
  <2>6. PendingSound(r, F)
    BY <2>2, <2>4, <2>5 DEF PendingSound
  <2>7. Chunks(r) = {}
    <3>1. \A q \in p.pumps : q.gen \in Nat /\ q.gen <= p.gen
      BY <1>2 DEF PumpsSound
    <3>2. \A q \in r.pumps : q.gen # r.gen
      BY <1>3, <2>2, <3>1
    <3> QED
      BY <3>2 DEF Chunks
  <2>8. Grows(p, r)
    BY <2>2 DEF Grows, HeldAt
  <2>9. \A s \in r.seeks : s \in p.seeks \/ s.target \in Nat
    BY <2>2, <2>3
  <2>10. EndsKept(p, r, F)
    BY <2>2, <2>6, <2>7, <2>8, <2>9 DEF EndsKept
  <2>11. EndsSound(r, F)
    BY <2>10, KeptEnds
  <2>12. r.seekGen # p.seekGen
    BY <1>3, <2>2
  <2> QED
    BY <2>11, <2>12 DEF r
<1> QED
  BY <1>1, <1>4, <1>5

\* The greater of two numbers.
LEMMA MaxIs ==
    ASSUME NEW a \in Nat, NEW b \in Nat
    PROVE  Max({a, b}) = IF a >= b THEN a ELSE b
<1>1. {a, b} \subseteq 0..(a + b) /\ {a, b} # {} /\ a + b \in Nat
  OBVIOUS
<1>2. Max({a, b}) \in {a, b} /\ \A y \in {a, b} : y <= Max({a, b})
  BY <1>1, GreatestUpTo
<1> DEFINE m == Max({a, b})
<1> HIDE DEF m
<1>3. (m = a \/ m = b) /\ a <= m /\ b <= m
  BY <1>2 DEF m
<1>4. m = IF a >= b THEN a ELSE b
  BY <1>3
<1> QED
  BY <1>4 DEF m

\* More of a chunk.
LEMMA AddEnds ==
    ASSUME PlayerAssumption, NEW p, NEW q, NEW S, NEW F, DOMAIN p = PageFields, HoldsSound(p, S, F),
           Adding(p, q, S, F), \A y \in p.pumps : y.gen = p.gen => y = q, EndsSound(p, F)
    PROVE  EndsSound(AddBatch(p, q), F) /\ AddBatch(p, q).pending = p.pending
<1> DEFINE r == AddBatch(p, q)
           n == Len(p.held)
<1>1. /\ q.chunk.events \in Seq(Item) /\ Len(q.chunk.events) \in Nat
      /\ q.added \in Nat /\ q.added < Len(q.chunk.events) /\ DOMAIN q = {"gen", "cursor", "chunk", "added"}
      /\ q \in p.pumps /\ q.gen = p.gen
  BY DEF Adding, ChunkSound
<1>2. p.held \in Seq(Item) /\ n \in Nat /\ n >= 2
  BY DEF HoldsSound
<1>3. PICK x, upTo : Added(p, q, r, x, upTo)
  BY <1>1, <1>2, AddIs
<1> HIDE DEF r
<1>4. /\ r.pumps = (p.pumps \ {q}) \union {x} /\ r.gen = p.gen /\ x.gen = q.gen /\ x.chunk = q.chunk
      /\ r.watermark = p.watermark /\ r.seekGen = p.seekGen /\ r.cursor = p.cursor
      /\ r.seeking = p.seeking /\ r.seeks = p.seeks
      /\ r.from = p.from /\ r.duration = p.duration /\ r.failed = p.failed /\ r.pending = p.pending
  BY <1>3 DEF Added
<1>5. /\ upTo \in Nat /\ q.added < upTo /\ Len(r.held) = n + (upTo - q.added)
      /\ \A i \in 1..n : r.held[i] = p.held[i]
  BY <1>3 DEF Added
<1>6. Grows(p, r)
  <2>1. r.held[2] = p.held[2]
    BY <1>2, <1>5
  <2>2. ASSUME NEW e, HeldAt(p, e) PROVE HeldAt(r, e)
    <3>1. PICK k \in 2..n : p.held[k].event = e
      BY <2>2 DEF HeldAt
    <3>2. k \in 2..Len(r.held) /\ k \in 1..n
      BY <1>1, <1>2, <1>5
    <3> QED
      BY <1>5, <3>1, <3>2 DEF HeldAt
  <2> QED
    BY <2>1, <2>2 DEF Grows
<1>7. Chunks(r) \subseteq Chunks(p)
  <2>1. \A y \in r.pumps : y.gen = r.gen => y.chunk = q.chunk
    BY <1>4
  <2> QED
    BY <1>1, <2>1 DEF Chunks
<1>8. EndsKept(p, r, F)
  BY <1>4, <1>6, <1>7 DEF EndsKept
<1>9. EndsSound(r, F)
  BY <1>8, KeptEnds
<1> QED
  BY <1>4, <1>9 DEF r

\* A batch of the current pump ends no seek.
LEMMA MoreEnds ==
    ASSUME PlayerAssumption, NEW p, NEW q, NEW S, NEW F, NEW c, Sound(p, S, F, c), EndsSound(p, F),
           q \in p.pumps, q.gen = p.gen, q.chunk # NoAnswer, q.added < Len(q.chunk.events)
    PROVE  EndsSound(AddBatch(p, q), F) /\ AddBatch(p, q).pending = p.pending
<1>1. HoldsSound(p, S, F) /\ PumpsSound(p, S, F) /\ DOMAIN p = PageFields
  BY DEF Sound, PageShape
<1>2. /\ CurrentSound(p, q, S, F)
      /\ \A y \in p.pumps : y.gen = p.gen => y = q
  BY <1>1 DEF PumpsSound
<1>3. q.added \in Nat
  BY <1>2 DEF CurrentSound, AddedSound, ChunkSound
<1>4. Adding(p, q, S, F)
  BY <1>2, <1>3 DEF Adding, CurrentSound, AddedSound
<1> QED
  BY <1>1, <1>2, <1>4, AddEnds

\* A page that is about to add the first of a chunk.
Arrived(p, q, chunk, x, r) ==
    /\ x = [q EXCEPT !.chunk = chunk]
    /\ r = [p EXCEPT !.switches = @ \o chunk.switches, !.pumps = (@ \ {q}) \union {x}]

\* Nor does the first batch of a chunk.
LEMMA ArrivalEnds ==
    ASSUME PlayerAssumption, NEW p, NEW q, NEW S, NEW F, NEW c, Sound(p, S, F, c), EndsSound(p, F),
           q \in p.pumps, q.gen = p.gen, q.chunk = NoAnswer, NEW chunk, chunk # NoAnswer,
           ChunkSound(chunk, p.cursor.after, p.watermark, S, F), ChunkEnds(chunk, p.cursor, F),
           NEW x, NEW r, Arrived(p, q, chunk, x, r)
    PROVE  EndsSound(AddBatch(r, x), F) /\ AddBatch(r, x).pending = p.pending
<1> DEFINE switches == p.switches \o chunk.switches
           pumps == (p.pumps \ {q}) \union {x}
<1>1. HoldsSound(p, S, F) /\ PumpsSound(p, S, F) /\ DOMAIN p = PageFields
  BY DEF Sound, PageShape
<1>2. /\ CurrentSound(p, q, S, F)
      /\ \A y \in p.pumps : y.gen = p.gen => y = q
  BY <1>1 DEF PumpsSound
<1>3. /\ x.gen = p.gen /\ x.cursor = p.cursor /\ x.chunk = chunk /\ x.added = 0
      /\ DOMAIN x = {"gen", "cursor", "chunk", "added"}
      /\ ~ p.seeking /\ p.cursor # None
  BY <1>2 DEF CurrentSound, Arrived
<1>4. /\ DOMAIN r = PageFields /\ r.held = p.held /\ r.cursor = p.cursor /\ r.watermark = p.watermark
      /\ r.gen = p.gen /\ r.seeking = p.seeking /\ r.seekGen = p.seekGen /\ r.seeks = p.seeks
      /\ r.from = p.from /\ r.duration = p.duration /\ r.failed = p.failed /\ r.pending = p.pending
      /\ r.pumps = pumps
  <2>1. r = [p EXCEPT !.switches = switches, !.pumps = pumps]
    BY DEF Arrived
  <2> HIDE DEF switches, pumps
  <2> QED
    BY <1>1, <2>1 DEF PageFields
<1>5. x \in r.pumps /\ x.gen = r.gen /\ \A y \in r.pumps : y.gen = r.gen => y = x
  BY <1>2, <1>3, <1>4
<1>6. Chunks(r) = {chunk}
  <2>1. {y \in r.pumps : y.gen = r.gen /\ y.chunk # NoAnswer} = {x}
    BY <1>3, <1>5
  <2> QED
    BY <1>3, <2>1 DEF Chunks
<1>7. \A e : HeldAt(p, e) <=> HeldAt(r, e)
  BY <1>4 DEF HeldAt
<1>8. EndsSound(r, F)
  <2>1. Grows(p, r)
    BY <1>4, <1>7 DEF Grows
  <2>2. EndsKept(p, r, F)
    BY <1>4, <1>6, <2>1 DEF EndsKept
  <2> QED
    BY <2>2, KeptEnds
<1>9. HoldsSound(r, S, F)
  BY <1>1, <1>4, <1>7 DEF HoldsSound
<1>10. Adding(r, x, S, F)
  <2>1. ChunkSound(x.chunk, r.cursor.after, r.watermark, S, F)
    BY <1>3, <1>4
  <2>2. x.added \in Nat /\ x.added < Len(x.chunk.events) /\ \A i \in 1..x.added : FALSE
    <3>1. Len(chunk.events) \in Nat /\ 0 < Len(chunk.events)
      BY DEF ChunkSound
    <3> QED
      BY <1>3, <3>1
  <2> QED
    BY <1>3, <1>4, <1>5, <2>1, <2>2 DEF Adding
<1>11. EndsSound(AddBatch(r, x), F) /\ AddBatch(r, x).pending = r.pending
  BY <1>4, <1>5, <1>8, <1>9, <1>10, AddEnds
<1> QED
  BY <1>4, <1>11

\* A stretch that is held up to an event holds what comes before it.
LEMMA HeldBefore ==
    ASSUME NEW p, NEW S, NEW F, HoldsSound(p, S, F), NEW e \in F, InSegment(e, p),
           NEW f, HeldAt(p, f), ~ Precedes(f, e)
    PROVE  HeldAt(p, e)
<1>1. PICK k \in 2..Len(p.held) : p.held[k].event = f
  BY DEF HeldAt
<1> QED
  BY <1>1 DEF HoldsSound, InSegment

\* A pump that starts after the end of a seek changes none of it.
LEMMA StartWell ==
    ASSUME NEW p, NEW x, NEW r, Starts(x, r), r.pending = x.pending, r.time = x.time,
           NEW F, EndsWell(p, x, F)
    PROVE  EndsWell(p, r, F)
<1>1. r.held = x.held /\ r.from = x.from
  BY DEF Starts, Pumps, Alike
<1>2. \A time : HeldUpTo(x, F, time) => HeldUpTo(r, F, time)
  BY <1>1 DEF HeldUpTo, InSegment, HeldAt
<1> QED
  BY <1>1, <1>2 DEF EndsWell

\* The turn of a pump once its chunk has been added.
LEMMA TurnEnds ==
    ASSUME PlayerAssumption, NEW p, NEW q, NEW S, NEW F, NEW c, Sound(p, S, F, c), EndsSound(p, F),
           Orderly(F), q \in p.pumps, q.gen = p.gen, q.chunk # NoAnswer, ~ (q.added < Len(q.chunk.events))
    PROVE  EndsSound(ChunkAdded(p, q), F) /\ EndsWell(p, ChunkAdded(p, q), F)
<1> DEFINE D == q.chunk.events
           a == Awaited(p, q)
<1>1. HoldsSound(p, S, F) /\ PumpsSound(p, S, F) /\ CursorSound(p) /\ DOMAIN p = PageFields
  BY DEF Sound, PageShape
<1>2. PICK x : Turned(p, q, x) /\ ChunkAdded(p, q) = Pump(x)
  BY <1>1, TurnIs
<1>3. /\ DOMAIN x = PageFields /\ x.held = p.held /\ x.cursor = q.chunk.cursor /\ x.gen = p.gen
      /\ x.watermark = p.watermark /\ x.seekGen = p.seekGen /\ x.pumps = p.pumps \ {q}
      /\ x.seeking = p.seeking /\ x.seeks = p.seeks
      /\ x.from = p.from /\ x.duration = p.duration /\ x.failed = p.failed
      /\ \/ x.pending = a
         \/ /\ a # None /\ x.pending = None /\ x.time = a.boundary
            /\ q.chunk.cursor = None \/ a.ready = TRUE
  BY <1>2 DEF Turned
<1>4. /\ CurrentSound(p, q, S, F)
      /\ \A y \in p.pumps : y.gen = p.gen => y = q
  BY <1>1 DEF PumpsSound
<1>5. ~ p.seeking /\ p.cursor # None
  BY <1>4 DEF CurrentSound
<1>6. Chunks(x) = {} /\ ~ Pumping(x)
  <2>1. \A y \in x.pumps : y.gen # x.gen
    BY <1>3, <1>4
  <2> QED
    BY <2>1 DEF Chunks, Pumping
<1>7. Len(D) \in 1..Len(D) /\ \A i \in 1..Len(D) : HeldAt(p, D[i].event)
  <2>1. ChunkSound(q.chunk, p.cursor.after, p.watermark, S, F) /\ AddedSound(p, q)
    BY <1>4 DEF CurrentSound
  <2>2. D \in Seq(Item) /\ Len(D) \in Nat /\ Len(D) # 0
    BY <2>1 DEF ChunkSound
  <2>3. q.added = Len(D)
    BY <2>1, <2>2 DEF AddedSound
  <2> QED
    BY <2>1, <2>2, <2>3 DEF AddedSound
<1>8. ChunkEnds(q.chunk, p.cursor, F)
  <2>1. q.chunk \in Chunks(p)
    BY DEF Chunks
  <2> QED
    BY <2>1 DEF EndsSound
<1>9. q.chunk.cursor = None => HeldWhole(p, F)
  <2> SUFFICES ASSUME q.chunk.cursor = None, NEW e \in F, InSegment(e, p) PROVE HeldAt(p, e)
    BY DEF HeldWhole
  <2>1. CASE Precedes(p.cursor.after, e)
    <3>1. PICK i \in 1..Len(D) : D[i].event = e
      BY <1>8, <2>1 DEF ChunkEnds
    <3> QED
      BY <1>7, <3>1
  <2>2. CASE ~ Precedes(p.cursor.after, e)
    <3>1. HeldAt(p, p.cursor.after)
      BY <1>1, <1>5 DEF CursorSound
    <3> QED
      BY <1>1, <2>2, <3>1, HeldBefore
  <2> QED
    BY <2>1, <2>2
<1>10. ASSUME q.chunk.ready # None, q.chunk.ready = TRUE, p.cursor.target \in Nat
       PROVE  HeldUpTo(p, F, p.cursor.target)
  <2> SUFFICES ASSUME NEW e \in F, InSegment(e, p), e.at <= p.cursor.target
               PROVE  HeldAt(p, e)
    BY DEF HeldUpTo
  <2>1. ~ Precedes(D[Len(D)].event, e)
    <3>1. e.at \in Nat
      BY DEF Orderly
    <3>2. Precedes(D[Len(D)].event, e) => e.at > p.cursor.target
      BY <1>8, <1>10 DEF ChunkEnds
    <3> QED
      BY <1>10, <3>1, <3>2
  <2>2. HeldAt(p, D[Len(D)].event)
    BY <1>7
  <2> QED
    BY <1>1, <2>1, <2>2, HeldBefore
<1> HIDE DEF D
<1>11. a = None <=> p.pending = None
  <2>1. ASSUME p.pending # None, a = None PROVE FALSE
    <3>1. p.pending \in PendingSeeks
      BY <2>1 DEF EndsSound, PendingSound
    <3>2. q.chunk.ready \in BOOLEAN \union {None}
      BY <1>8 DEF ChunkEnds
    <3>3. a \in PendingSeeks
      BY <2>1, <3>1, <3>2 DEF Awaited, PendingSeeks
    <3> QED
      BY <2>1, <3>3 DEF PlayerAssumption
  <2> QED
    BY <2>1 DEF Awaited
<1>12. ASSUME p.pending # None
       PROVE  /\ a \in PendingSeeks /\ a.target = p.pending.target /\ a.boundary = p.pending.boundary
              /\ a.boundary \in Nat /\ Leads(a.target, a.boundary, p.from, p.duration)
              /\ p.cursor.target = a.boundary
              /\ a.ready = TRUE => HeldUpTo(p, F, a.boundary)
  <2>1. /\ p.pending \in PendingSeeks /\ p.pending.boundary \in Nat
        /\ Leads(p.pending.target, p.pending.boundary, p.from, p.duration)
        /\ p.cursor.target = p.pending.boundary
        /\ p.pending.ready = TRUE => HeldUpTo(p, F, p.pending.boundary)
    BY <1>5, <1>12 DEF EndsSound, PendingSound
  <2>2. q.chunk.ready \in BOOLEAN \union {None}
    BY <1>8 DEF ChunkEnds
  <2>3. /\ a \in PendingSeeks /\ a.target = p.pending.target /\ a.boundary = p.pending.boundary
        /\ \/ a.ready = p.pending.ready
           \/ q.chunk.ready # None /\ a.ready = q.chunk.ready
    BY <2>1, <2>2 DEF Awaited, PendingSeeks
  <2>4. a.ready = TRUE => HeldUpTo(p, F, a.boundary)
    BY <1>10, <2>1, <2>3
  <2> HIDE DEF a
  <2> QED
    BY <2>1, <2>3, <2>4
<1> HIDE DEF a
<1>13. \A e : (InSegment(e, x) <=> InSegment(e, p)) /\ (HeldAt(x, e) <=> HeldAt(p, e))
  BY <1>3 DEF InSegment, HeldAt
<1>14. /\ HeldWhole(p, F) => HeldWhole(x, F)
       /\ \A time : HeldUpTo(p, F, time) => HeldUpTo(x, F, time)
       /\ \A time : HeldWhole(p, F) => HeldUpTo(x, F, time)
  BY <1>13 DEF HeldWhole, HeldUpTo
<1>15. EndsWell(p, x, F)
  <2> SUFFICES ASSUME p.pending # None, x.pending = None
               PROVE  Leads(p.pending.target, x.time, x.from, p.duration) /\ HeldUpTo(x, F, x.time)
    BY DEF EndsWell
  <2>1. x.time = a.boundary /\ (q.chunk.cursor = None \/ a.ready = TRUE)
    BY <1>3, <1>11
  <2> QED
    BY <1>3, <1>9, <1>12, <1>14, <2>1
<1>16. EndsSound(x, F)
  <2>1. x.cursor # None => x.cursor \in Cursors /\ x.cursor.target = p.cursor.target
    BY <1>3, <1>8 DEF ChunkEnds
  <2>2. ASSUME x.pending # None PROVE PendingSound(x, F)
    <3>1. x.pending = a /\ p.pending # None
      BY <1>3, <1>11, <2>2
    <3> QED
      BY <1>3, <1>5, <1>12, <1>14, <2>1, <3>1 DEF PendingSound
  <2>3. /\ x.watermark \in Nat /\ x.from \in Nat /\ x.duration \in Nat
        /\ \E e \in F : e.at = x.duration
        /\ \A s \in x.seeks : s.target \in Nat
        /\ x.failed # None => x.failed \in Nat
    BY <1>3 DEF EndsSound
  <2>4. x.cursor = None => HeldWhole(x, F)
    BY <1>3, <1>9, <1>14
  <2> QED
    BY <1>6, <2>1, <2>2, <2>3, <2>4 DEF EndsSound
<1>17. Starts(x, Pump(x)) /\ Pump(x).pending = x.pending /\ Pump(x).time = x.time
  BY <1>3, <1>6, PumpAlike DEF Starts
<1>18. EndsSound(Pump(x), F)
  BY <1>16, <1>17, StartEnds
<1>19. EndsWell(p, Pump(x), F)
  BY <1>15, <1>17, StartWell
<1> QED
  BY <1>2, <1>18, <1>19

\* Where a seek of a time leads.
LEMMA TargetIs ==
    ASSUME NEW E, Orderly(E), Snapshots(E) # {}, NEW F, F \subseteq E, NEW requested \in Nat,
           NEW duration, NEW f \in F, f.at = duration
    PROVE  /\ SeekTarget(E, requested) \in Nat
           /\ Leads(requested, SeekTarget(E, requested), SeekSnapshot(E, requested).at, duration)
<1> DEFINE snapshot == SeekSnapshot(E, requested)
           from == snapshot.at
           end == Latest(E).at
           time == Min({requested, end})
           target == Max({time, from})
<1>1. snapshot \in E
  BY SnapshotIs DEF Snapshots
<1>2. from \in Nat
  BY <1>1 DEF Orderly
<1>3. end \in Nat /\ duration \in Nat /\ duration <= end
  <2> DEFINE last == Latest(E)
  <2>1. last \in E /\ \A g \in E : g # last => Precedes(g, last)
    BY <1>1, LatestIs
  <2> HIDE DEF last
  <2>2. last.at \in Nat /\ f.at \in Nat /\ f.at <= last.at
    BY <2>1 DEF Orderly, Precedes
  <2> QED
    BY <2>2 DEF last
<1> HIDE DEF from, end
<1>4. time = IF requested <= end THEN requested ELSE end
  BY <1>3, MinIs
<1> HIDE DEF time
<1>5. time \in Nat
  BY <1>3, <1>4
<1>6. target = IF time >= from THEN time ELSE from
  BY <1>2, <1>5, MaxIs
<1> HIDE DEF target
<1>7. Max({from, requested}) = IF from >= requested THEN from ELSE requested
  BY <1>2, MaxIs
<1>8. target \in Nat /\ target >= from
  BY <1>2, <1>5, <1>6
<1>9. requested <= duration => target = Max({from, requested})
  BY <1>2, <1>3, <1>4, <1>6, <1>7
<1>10. ~ (requested <= duration) => target >= duration
  BY <1>2, <1>3, <1>4, <1>6
<1>11. Leads(requested, target, from, duration)
  BY <1>8, <1>9, <1>10 DEF Leads
<1>12. SeekTarget(E, requested) = target
  BY DEF SeekTarget, target, time, end, from
<1> QED
  BY <1>8, <1>11, <1>12 DEF from

\* A new player from an answer that leaves nothing out.
LEMMA WholeHeld ==
    ASSUME NEW p, NEW E, Orderly(E), NEW K, Run(p.held, K), Len(p.held) >= 2, Whole(p.held, K), K \subseteq E,
           NEW F, F \subseteq E, \A e \in F : ~ Precedes(e, p.held[2].event) => e \in K
    PROVE  HeldWhole(p, F)
<1> SUFFICES ASSUME NEW e \in F, ~ Precedes(e, p.held[2].event) PROVE HeldAt(p, e)
  BY DEF HeldWhole, InSegment
<1>1. PICK i \in 1..Len(p.held) : p.held[i].event = e
  BY DEF Whole
<1>2. Len(p.held) \in Nat /\ 1 \in 1..Len(p.held) /\ 2 \in 1..Len(p.held)
  BY DEF Run
<1>3. Precedes(p.held[1].event, p.held[2].event)
  BY <1>2 DEF Run
<1>4. i # 1
  BY <1>1, <1>3
<1>5. i \in 2..Len(p.held)
  BY <1>2, <1>4
<1> QED
  BY <1>1, <1>5 DEF HeldAt

\* It holds all up to a time that is reached before its end.
LEMMA ReachedHeld ==
    ASSUME NEW p, NEW E, Orderly(E), NEW K, Run(p.held, K), Len(p.held) >= 2, K \subseteq E,
           NEW F, F \subseteq E, \A e \in F : ~ Precedes(e, p.held[2].event) => e \in K,
           NEW time \in Nat, TargetBoundaryReady(E, p.held[Len(p.held)].event, time)
    PROVE  HeldUpTo(p, F, time)
<1> SUFFICES ASSUME NEW e \in F, ~ Precedes(e, p.held[2].event), e.at <= time PROVE HeldAt(p, e)
  BY DEF HeldUpTo, InSegment
<1> DEFINE n == Len(p.held)
           last == p.held[n].event
<1>1. n \in Nat /\ n \in 1..n /\ 1 \in 1..n /\ 2 \in 1..n
  BY DEF Run
<1>2. last \in E /\ last # None /\ e.at \in Nat /\ e \in E
  BY <1>1 DEF Run, Orderly
<1>3. ~ Precedes(last, e)
  <2>1. Precedes(last, e) => e.at > time
    BY <1>2 DEF TargetBoundaryReady, PositionAfter
  <2> QED
    BY <1>2, <2>1
<1>4. PICK i \in 1..n : p.held[i].event = e
  <2>1. PICK i \in 1..n : p.held[i].event = e
    BY <1>1, <1>3 DEF Run
  <2> QED
    BY <2>1
<1>5. Precedes(p.held[1].event, p.held[2].event)
  BY <1>1 DEF Run
<1>6. i # 1
  BY <1>4, <1>5
<1>7. i \in 2..n
  BY <1>1, <1>6
<1> QED
  BY <1>4, <1>7 DEF HeldAt

\* A new player: the seek is over, or goes on with the next chunks.
LEMMA ReplacedEnds ==
    ASSUME StreamAssumption, StoredOrderly, NEW p, NEW F, NEW c, Sound(p, stored, F, c),
           EndsSound(p, F), PlaySound(p), NEW s \in p.seeks, s.gen = p.seekGen,
           SeekAnswer(p.watermark, s.target) # NoAnswer
    PROVE  LET r == Replaced(WithoutSeek(p, s), s, SeekAnswer(p.watermark, s.target))
           IN  EndsSound(r, F) /\ EndsWell(p, r, F)
<1> DEFINE w == p.watermark
           E == OrderedEvents(w)
           requested == s.target
           snapshot == SeekSnapshot(E, requested)
           boundary == SeekTarget(E, requested)
           K == SeekEvents(E, snapshot)
           reply == SeekAnswer(w, requested)
           D == reply.events
           tab == LatestActivityTabAt(E, snapshot)
           r == Replaced(WithoutSeek(p, s), s, reply)
<1>1. PageShape(p, stored, F) /\ SeeksSound(p) /\ PumpsSound(p, stored, F)
  BY DEF Sound
<1>2. Orderly(E) /\ E \subseteq UNION Recordings /\ F \subseteq E /\ Snapshots(E) # {}
  BY <1>1, OpenedOrderly DEF Older, OrderedEvents, PageShape, Snapshots
<1>3. /\ snapshot \in E /\ LatestInitializerMetaAt(E, snapshot) # None
      /\ Run(D, K) /\ Len(D) >= 2 /\ D[2].event = snapshot
      /\ reply.start.from = snapshot.at /\ reply.start.target = boundary
      /\ reply.ready = TargetBoundaryReady(E, D[Len(D)].event, boundary)
      /\ Ending(reply.cursor, w, tab, boundary, D, K)
  BY <1>2, SeekIs
<1>4. tab \in Tabs
  BY <1>2, LatestTabIs
<1>5. K \subseteq E /\ \A e \in F : ~ Precedes(e, snapshot) => e \in K
  BY <1>2, <1>3, MetaIs DEF SeekEvents
<1>6. w \in Nat /\ requested \in Nat /\ snapshot.at \in Nat
  BY <1>2, <1>3 DEF EndsSound, Orderly
<1>7. boundary \in Nat /\ Leads(requested, boundary, snapshot.at, p.duration)
  <2>1. PICK f \in F : f.at = p.duration
    BY DEF EndsSound
  <2> HIDE DEF requested, E
  <2> QED
    BY <1>2, <1>6, <2>1, TargetIs
<1> HIDE DEF E, D, snapshot, reply, tab, r, K, boundary
<1>8. /\ reply.cursor = None => Whole(D, K)
      /\ reply.cursor # None => reply.cursor \in Cursors /\ reply.cursor.target = boundary
  BY <1>3, <1>4, <1>6, <1>7 DEF Ending
<1>9. PICK y : Renewed(p, s, reply, y) /\ (r = y \/ r = EnsurePump(y))
  BY <1>1, ReplacedIs DEF PageShape, r
<1>10. /\ DOMAIN y = PageFields /\ y.held = D /\ y.cursor = reply.cursor
       /\ y.watermark = w /\ y.gen = p.gen /\ y.seekGen = p.seekGen
       /\ y.seeks = p.seeks \ {s} /\ y.pumps = p.pumps /\ y.seeking = FALSE
       /\ y.from = snapshot.at /\ y.duration = p.duration /\ y.failed = None
       /\ y.pending = Answered(s, reply) /\ y.time = boundary
  BY <1>3, <1>9 DEF Renewed, D
<1>11. p.seeking /\ \A x \in p.pumps : x.gen # p.gen
  <2>1. p.seeking
    BY <1>1 DEF SeeksSound
  <2> QED
    BY <1>1, <2>1 DEF PumpsSound, CurrentSound
<1>12. Chunks(y) = {}
  BY <1>10, <1>11 DEF Chunks
<1>13. \A e \in F : ~ Precedes(e, y.held[2].event) => e \in K
  BY <1>3, <1>5, <1>10
<1>14. y.cursor = None => HeldWhole(y, F)
  BY <1>2, <1>3, <1>5, <1>8, <1>10, <1>13, WholeHeld
<1>15. ASSUME reply.ready PROVE HeldUpTo(y, F, boundary)
  <2>1. TargetBoundaryReady(E, y.held[Len(y.held)].event, boundary)
    BY <1>3, <1>10, <1>15
  <2>2. Run(y.held, K) /\ Len(y.held) >= 2
    BY <1>3, <1>10
  <2> QED
    BY <1>2, <1>5, <1>7, <1>13, <2>1, <2>2, ReachedHeld
<1>16. EndsSound(y, F)
  <2>1. ASSUME y.pending # None PROVE PendingSound(y, F)
    <3> DEFINE rest == [target |-> requested, boundary |-> boundary, ready |-> FALSE]
    <3>1. y.pending = rest
      BY <1>3, <1>10, <2>1 DEF Answered
    <3>2. rest \in PendingSeeks /\ rest.target = requested /\ rest.boundary = boundary /\ rest.ready = FALSE
      BY <1>6, <1>7 DEF PendingSeeks
    <3> HIDE DEF rest
    <3> QED
      BY <1>7, <1>8, <1>10, <3>1, <3>2 DEF PendingSound
  <2>2. /\ y.watermark \in Nat /\ y.from \in Nat /\ y.duration \in Nat
        /\ \E e \in F : e.at = y.duration
        /\ \A x \in y.seeks : x.target \in Nat
    BY <1>6, <1>10 DEF EndsSound
  <2>3. y.failed = None /\ (y.cursor # None => y.cursor \in Cursors)
    BY <1>8, <1>10
  <2> QED
    BY <1>12, <1>14, <2>1, <2>2, <2>3 DEF EndsSound
<1>17. EndsWell(p, y, F)
  <2> SUFFICES ASSUME p.pending # None, y.pending = None
               PROVE  Leads(p.pending.target, y.time, y.from, p.duration) /\ HeldUpTo(y, F, y.time)
    BY DEF EndsWell
  <2>1. p.pending.target = requested
    BY <1>11 DEF EndsSound, PendingSound
  <2>2. reply.cursor = None \/ reply.ready
    <3> DEFINE rest == [target |-> requested, boundary |-> reply.start.target, ready |-> FALSE]
    <3>1. rest # None
      <4>1. rest \in PendingSeeks
        BY <1>3, <1>6, <1>7 DEF PendingSeeks
      <4> QED
        BY <4>1, PlayerAssumption DEF PlayerAssumption
    <3>2. y.pending = IF reply.cursor = None \/ reply.ready THEN None ELSE rest
      BY <1>10 DEF Answered
    <3> HIDE DEF rest
    <3> QED
      BY <3>1, <3>2
  <2>3. HeldWhole(y, F) => HeldUpTo(y, F, boundary)
    BY DEF HeldWhole, HeldUpTo
  <2> QED
    BY <1>7, <1>10, <1>14, <1>15, <2>1, <2>2, <2>3
<1>18. /\ Starts(y, EnsurePump(y))
       /\ EnsurePump(y).pending = y.pending /\ EnsurePump(y).time = y.time
  BY <1>10, EnsureAlike
<1>19. EndsSound(r, F) /\ EndsWell(p, r, F)
  BY <1>9, <1>16, <1>17, <1>18, StartEnds, StartWell
<1> QED
  BY <1>19 DEF r, reply

\* A page that opens.
LEMMA OpenEnds ==
    ASSUME StreamAssumption, StoredOrderly, Open
    PROVE  EndsSound(page', stored)
<1>1. Orderly(stored) /\ stored \subseteq UNION Recordings
  BY DEF StoredOrderly
<1>2. PICK w, p : /\ w \in Nat /\ OrderedEvents(w) = stored /\ Older(stored, w) = stored
                  /\ Snapshots(stored) # {} /\ Bootstrap(w) # NoAnswer
                  /\ Opened(Bootstrap(w), w, p) /\ (page' = p \/ page' = FetchOne(p))
  BY <1>1, OpenIs
<1> DEFINE reply == Bootstrap(w)
           D == reply.events
<1>3. /\ Run(D, stored) /\ Len(D) >= 2
      /\ reply.start.from = 0 /\ reply.start.duration = Latest(stored).at
      /\ Ending(reply.cursor, w, None, None, D, stored)
  BY <1>2, BootstrapIs
<1> HIDE DEF reply, D
<1>4. /\ DOMAIN p = PageFields /\ p.held = D /\ p.cursor = reply.cursor /\ p.watermark = w
      /\ p.pumps = {} /\ p.seeks = {} /\ p.from = 0 /\ p.duration = Latest(stored).at
      /\ p.failed = None /\ p.pending = None
  BY <1>2, <1>3 DEF Opened, reply, D
<1>5. /\ reply.cursor = None => Whole(D, stored)
      /\ reply.cursor # None => reply.cursor \in Cursors
  BY <1>2, <1>3 DEF Ending, Tabs
<1>6. p.cursor = None => HeldWhole(p, stored)
  BY <1>1, <1>3, <1>4, <1>5, WholeHeld
<1>7. \E e \in stored : e.at = p.duration
  <2>1. stored # {}
    BY <1>2 DEF Snapshots
  <2> QED
    BY <1>1, <1>4, <2>1, LatestIs
<1>8. Chunks(p) = {}
  BY <1>4 DEF Chunks
<1>9. EndsSound(p, stored)
  <2>1. p.duration \in Nat
    BY <1>1, <1>7 DEF Orderly
  <2> QED
    BY <1>2, <1>4, <1>5, <1>6, <1>7, <1>8, <2>1 DEF EndsSound
<1>10. Starts(p, FetchOne(p)) /\ FetchOne(p).pending = p.pending
  BY <1>4, FetchAlike
<1> QED
  BY <1>2, <1>9, <1>10, StartEnds

\* What the answer for the next chunk is known to be.
LEMMA ChunkKnown ==
    ASSUME StreamAssumption, StoredOrderly, NEW cursor \in Cursors, NEW F, F \subseteq OrderedEvents(cursor.watermark),
           cursor.after \in OrderedEvents(cursor.watermark), NextChunk(cursor) # NoAnswer
    PROVE  ChunkEnds(NextChunk(cursor), cursor, F)
<1> DEFINE chunk == NextChunk(cursor)
           E == OrderedEvents(cursor.watermark)
           D == chunk.events
           K == PositionAfter(E, cursor.after)
<1>1. Orderly(E)
  BY OpenedOrderly
<1>2. /\ Run(D, K) /\ Ending(chunk.cursor, cursor.watermark, cursor.tab, cursor.target, D, K)
      /\ chunk.ready = IF cursor.target = None THEN None
                       ELSE TargetBoundaryReady(E, D[Len(D)].event, cursor.target)
  BY ChunkIs
<1> HIDE DEF chunk, D
<1>3. cursor.watermark \in Nat /\ cursor.tab \in Tabs /\ cursor.target \in Nat \union {None}
  BY DEF Cursors, Tabs
<1>4. cursor.after # None
  BY <1>1 DEF Orderly
<1>5. \A e \in F : Precedes(cursor.after, e) => e \in K
  BY <1>4 DEF PositionAfter
<1>6. /\ chunk.cursor = None => Whole(D, K)
      /\ chunk.cursor # None => chunk.cursor \in Cursors /\ chunk.cursor.target = cursor.target
  BY <1>2, <1>3 DEF Ending
<1>7. D[Len(D)].event # None
  <2>1. Len(D) \in 1..Len(D)
    BY <1>2 DEF Run
  <2>2. D[Len(D)].event \in K /\ K \subseteq E
    BY <1>2, <2>1 DEF Run, PositionAfter
  <2> QED
    BY <1>1, <2>2 DEF Orderly
<1> HIDE DEF K
<1>8. chunk.cursor = None =>
         \A e \in F : Precedes(cursor.after, e) => \E i \in 1..Len(D) : D[i].event = e
  BY <1>5, <1>6 DEF Whole
<1>9. /\ chunk.ready \in BOOLEAN \union {None}
      /\ chunk.ready # None /\ chunk.ready = TRUE => TargetBoundaryReady(E, D[Len(D)].event, cursor.target)
  BY <1>2 DEF TargetBoundaryReady
<1>10. TargetBoundaryReady(E, D[Len(D)].event, cursor.target) =>
         \A e \in F : Precedes(D[Len(D)].event, e) => e.at > cursor.target
  BY <1>7 DEF TargetBoundaryReady, PositionAfter
<1>11. ChunkEnds(chunk, cursor, F)
  BY <1>6, <1>8, <1>9, <1>10 DEF ChunkEnds, D
<1> QED
  BY <1>11 DEF chunk

-----------------------------------------------------------------------------
(* Every seek ends well.                                                   *)

\* The open page's seeks end soundly.
EndsAreSound == page # None => EndsSound(page, frozen)

\* No page is open at first.
LEMMA EndsStart == Init => EndsAreSound
BY DEF Init, EndsAreSound

\* A step that ends no seek.
LEMMA NoSeekEnds ==
    ASSUME page # None, EndsSound(page', frozen), UNCHANGED frozen,
           \/ page'.pending = page.pending
           \/ page'.seekGen # page.seekGen
           \/ page'.error
    PROVE  EndsAreSound' /\ SeekEnds
BY DEF EndsAreSound, SeekEnds

\* What is held is listed.
LEMMA HeldListed ==
    ASSUME NEW p, NEW S, NEW F, HoldsSound(p, S, F), NEW e, HeldAt(p, e)
    PROVE  e \in HeldEvents(p)
<1>1. PICK k \in 2..Len(p.held) : p.held[k].event = e
  BY DEF HeldAt
<1>2. k \in DOMAIN p.held
  BY <1>1 DEF HoldsSound
<1> QED
  BY <1>1, <1>2 DEF HeldEvents

\* A step that may end one, well.
LEMMA SeekEndsStep ==
    ASSUME page # None, EndsSound(page', frozen), EndsWell(page, page', frozen), UNCHANGED frozen,
           NEW S, HoldsSound(page', S, frozen)
    PROVE  EndsAreSound' /\ SeekEnds
<1>1. ASSUME page.pending # None, page'.pending = None
      PROVE  /\ page'.time >= page'.from
             /\ IF page.pending.target <= page.duration
                THEN page'.time = Max({page'.from, page.pending.target})
                ELSE page'.time >= page.duration
             /\ {e \in frozen : InSegment(e, page') /\ e.at <= page'.time} \subseteq HeldEvents(page')
  <2>1. Leads(page.pending.target, page'.time, page'.from, page.duration)
        /\ HeldUpTo(page', frozen, page'.time)
    BY <1>1 DEF EndsWell
  <2>2. \A e \in frozen : InSegment(e, page') /\ e.at <= page'.time => e \in HeldEvents(page')
    BY <2>1, HeldListed DEF HeldUpTo
  <2> QED
    BY <2>1, <2>2 DEF Leads
<1>2. SeekEnds
  BY <1>1 DEF SeekEnds
<1>3. EndsAreSound'
  BY DEF EndsAreSound
<1> QED
  BY <1>2, <1>3

\* A pump starts,
LEMMA StartEndsStep ==
    ASSUME EndsAreSound, page # None, Starts(page, page'), page'.pending = page.pending, UNCHANGED <<frozen, cut>>
    PROVE  EndsAreSound' /\ SeekEnds
<1>1. EndsSound(page', frozen)
  BY StartEnds DEF EndsAreSound
<1> QED
  BY <1>1, NoSeekEnds

\* a seek is answered from what is held or asks the server,
LEMMA SoughtEndsStep ==
    ASSUME PlayerAssumption, PlayerSound, EndsAreSound, page # None, NEW p, Same(page, p), p.pending = page.pending,
           NEW target \in Nat, SeekChanges(p, target)
    PROVE  EndsAreSound' /\ SeekEnds
<1>1. Sound(p, stored, frozen, cut) /\ EndsSound(p, frozen)
  BY PageKnown, SameStarts, StartKeeps, StartEnds DEF EndsAreSound
<1>2. page' = SeekTo(p, target) /\ UNCHANGED <<stream, frozen>>
  BY DEF SeekChanges
<1>3. EndsSound(page', frozen) /\ page'.seekGen # p.seekGen
  BY <1>1, <1>2, SoughtEnds
<1>4. p.seekGen = page.seekGen
  BY DEF Same, Alike
<1> QED
  BY <1>2, <1>3, <1>4, NoSeekEnds

\* and a retry repeats a seek or a fetch.
LEMMA RetryEndsStep ==
    ASSUME PlayerAssumption, PlayerSound, EndsAreSound, Retry
    PROVE  EndsAreSound' /\ SeekEnds
<1> DEFINE p == [page EXCEPT !.error = FALSE]
<1>1. page # None /\ DOMAIN page = PageFields /\ PlaySound(page)
  BY PageKnown DEF Retry
<1>2. \/ page.failed # None /\ SeekChanges(p, page.failed)
      \/ /\ page' = FetchOne([p EXCEPT !.buffering = TRUE]) /\ UNCHANGED <<stream, frozen, cut>>
  BY DEF Retry, Changes
<1>3. Same(page, p) /\ p.pending = page.pending
  BY <1>1 DEF Same, Alike, PageFields
<1>4. CASE page.failed # None /\ SeekChanges(p, page.failed)
  <2>1. page.failed \in Nat
    BY <1>1, <1>4 DEF EndsAreSound, EndsSound
  <2> HIDE DEF p
  <2> QED
    BY <1>1, <1>3, <1>4, <2>1, SoughtEndsStep
<1>5. CASE page' = FetchOne([p EXCEPT !.buffering = TRUE]) /\ UNCHANGED <<stream, frozen, cut>>
  <2>1. Starts(page, page') /\ page'.pending = page.pending
    BY <1>1, <1>5, RetryFetchKeeps
  <2> QED
    BY <1>1, <1>5, <2>1, StartEndsStep
<1> QED
  BY <1>2, <1>4, <1>5

\* The answer of the current seek ends it or says where it leads; a late one's is dropped.
LEMMA AnsweredEndsStep ==
    ASSUME StreamAssumption, PlayerSound, EndsAreSound, page # None, NEW s \in page.seeks, SeekAnswered(s)
    PROVE  EndsAreSound' /\ SeekEnds
<1> DEFINE reply == SeekAnswer(page.watermark, s.target)
<1>1. /\ PlaySound(page) /\ Sound(page, stored, frozen, cut) /\ DOMAIN page = PageFields
      /\ EndsSound(page, frozen) /\ StoredOrderly
  BY PageKnown, SoundStored DEF EndsAreSound, PlayerSound
<1>2. /\ reply # NoAnswer /\ UNCHANGED <<stream, frozen>>
      /\ \/ s.gen = page.seekGen /\ page' = Replaced(WithoutSeek(page, s), s, reply)
         \/ s.gen # page.seekGen /\ page' = WithoutSeek(page, s)
  BY DEF SeekAnswered
<1>3. CASE s.gen = page.seekGen /\ page' = Replaced(WithoutSeek(page, s), s, reply)
  <2> DEFINE r == Replaced(WithoutSeek(page, s), s, reply)
  <2>1. EndsSound(r, frozen) /\ EndsWell(page, r, frozen)
    BY <1>1, <1>2, <1>3, ReplacedEnds
  <2>2. Sound(r, stored, frozen, cut)
    BY <1>1, <1>2, <1>3, ReplacedKeeps
  <2> HIDE DEF r
  <2>3. page' = r /\ HoldsSound(r, stored, frozen)
    BY <1>3, <2>2 DEF r, Sound
  <2> QED
    BY <1>2, <2>1, <2>3, SeekEndsStep
<1>4. CASE s.gen # page.seekGen /\ page' = WithoutSeek(page, s)
  <2>1. /\ page'.held = page.held /\ page'.cursor = page.cursor /\ page'.watermark = page.watermark
        /\ page'.from = page.from /\ page'.duration = page.duration /\ page'.gen = page.gen
        /\ page'.seeks \subseteq page.seeks /\ page'.pumps = page.pumps /\ page'.failed = page.failed
        /\ page'.pending = page.pending /\ page'.seeking = page.seeking /\ page'.seekGen = page.seekGen
    BY <1>1, <1>4 DEF WithoutSeek, PageFields
  <2>2. EndsSound(page', frozen)
    BY <1>1, <2>1, LessEnds
  <2> QED
    BY <1>2, <2>1, <2>2, NoSeekEnds
<1> QED
  BY <1>2, <1>3, <1>4

\* A seek that fails ends with an error.
LEMMA SeekFailsEndsStep ==
    ASSUME PlayerSound, EndsAreSound, page # None, NEW s \in page.seeks, SeekRequestFails(s)
    PROVE  EndsAreSound' /\ SeekEnds
<1> DEFINE p == WithoutSeek(page, s)
<1>1. /\ DOMAIN page = PageFields /\ page' = SeekFailed(p, s) /\ UNCHANGED <<stream, frozen, cut>>
      /\ EndsSound(page, frozen)
  BY PageKnown DEF SeekRequestFails, Changes, EndsAreSound
<1>2. /\ DOMAIN p = PageFields /\ p.held = page.held /\ p.cursor = page.cursor /\ p.watermark = page.watermark
      /\ p.from = page.from /\ p.duration = page.duration /\ p.gen = page.gen
      /\ p.seeks \subseteq page.seeks /\ p.pumps = page.pumps /\ p.failed = page.failed
      /\ p.pending = page.pending /\ p.seeking = page.seeking /\ p.seekGen = page.seekGen
  BY <1>1 DEF WithoutSeek, PageFields
<1> HIDE DEF p
<1>3. /\ page'.held = p.held /\ page'.cursor = p.cursor /\ page'.watermark = p.watermark
      /\ page'.from = p.from /\ page'.duration = p.duration /\ page'.gen = p.gen
      /\ page'.seeks = p.seeks /\ page'.pumps = p.pumps
  BY <1>1, <1>2 DEF SeekFailed, PageFields
<1>4. \/ page'.failed = s.target /\ page'.pending = None /\ page'.error
      \/ /\ page'.failed = p.failed /\ page'.pending = p.pending /\ page'.seeking = p.seeking
         /\ page'.seekGen = p.seekGen
  BY <1>1, <1>2 DEF SeekFailed, PageFields
<1>5. s.target \in Nat
  BY <1>1 DEF EndsSound
<1>6. EndsSound(page', frozen)
  BY <1>1, <1>2, <1>3, <1>4, <1>5, LessEnds
<1> QED
  BY <1>1, <1>2, <1>4, <1>6, NoSeekEnds

\* A pump that is over ends none.
LEMMA GoneEndsStep ==
    ASSUME PlayerSound, EndsAreSound, page # None, NEW q \in page.pumps,
           page' = WithoutPump(page, q) \/ page' = PumpFails(WithoutPump(page, q), q),
           UNCHANGED <<stream, frozen, cut>>
    PROVE  EndsAreSound' /\ SeekEnds
<1>1. DOMAIN page = PageFields /\ EndsSound(page, frozen)
  BY PageKnown DEF EndsAreSound
<1>2. /\ page'.held = page.held /\ page'.cursor = page.cursor /\ page'.watermark = page.watermark
      /\ page'.from = page.from /\ page'.duration = page.duration /\ page'.gen = page.gen
      /\ page'.seeks = page.seeks /\ page'.pumps \subseteq page.pumps /\ page'.failed = page.failed
      /\ page'.pending = page.pending /\ page'.seeking = page.seeking /\ page'.seekGen = page.seekGen
  BY <1>1 DEF PumpFails, WithoutPump, PageFields
<1>3. EndsSound(page', frozen)
  BY <1>1, <1>2, LessEnds
<1> QED
  BY <1>2, <1>3, NoSeekEnds

\* A chunk arrives, with what its seek waits for or not.
LEMMA ArrivesEndsStep ==
    ASSUME StreamAssumption, PlayerAssumption, PlayerSound, EndsAreSound, page # None,
           NEW q \in page.pumps, ChunkArrives(q)
    PROVE  EndsAreSound' /\ SeekEnds
<1> DEFINE chunk == NextChunk(q.cursor)
           x == [q EXCEPT !.chunk = chunk]
           p == [page EXCEPT !.switches = @ \o chunk.switches, !.pumps = (@ \ {q}) \union {x}]
<1>1. /\ q.chunk = NoAnswer /\ chunk # NoAnswer /\ UNCHANGED <<stream, frozen, cut>>
      /\ page' = IF q.gen = page.gen THEN AddBatch(p, x) ELSE WithoutPump(page, q)
  BY DEF ChunkArrives, Changes
<1>2. CASE q.gen # page.gen
  BY <1>1, <1>2, GoneEndsStep
<1>3. CASE q.gen = page.gen
  <2>1. /\ Sound(page, stored, frozen, cut) /\ PageShape(page, stored, frozen)
        /\ HoldsSound(page, stored, frozen) /\ CursorSound(page)
        /\ CurrentSound(page, q, stored, frozen) /\ EndsSound(page, frozen)
    BY <1>3, PageKnown DEF PumpsSound, EndsAreSound
  <2>2. StoredOrderly
    BY SoundStored DEF PlayerSound
  <2>3. q.cursor = page.cursor /\ page.cursor # None /\ page.cursor \in Cursors
    BY <2>1 DEF CurrentSound, EndsSound
  <2>4. /\ q.cursor.watermark = page.watermark /\ q.cursor.after \in Older(stored, page.watermark)
        /\ q.cursor.after \in OrderedEvents(q.cursor.watermark)
    BY <2>1, <2>3, CursorStored DEF Older, OrderedEvents
  <2>5. frozen \subseteq Older(stored, page.watermark) /\ frozen \subseteq OrderedEvents(q.cursor.watermark)
    BY <2>1, <2>4 DEF PageShape, Older, OrderedEvents
  <2>6. ChunkSound(chunk, page.cursor.after, page.watermark, stored, frozen)
    BY <1>1, <2>2, <2>3, <2>4, <2>5, ChunkIsSound
  <2>7. ChunkEnds(chunk, page.cursor, frozen)
    BY <1>1, <2>2, <2>3, <2>4, <2>5, ChunkKnown
  <2> HIDE DEF chunk
  <2>8. EndsSound(AddBatch(p, x), frozen) /\ AddBatch(p, x).pending = page.pending
    <3>1. Sound(page, stored, frozen, cut) /\ EndsSound(page, frozen)
      BY <2>1
    <3>2. q \in page.pumps /\ q.gen = page.gen /\ q.chunk = NoAnswer /\ chunk # NoAnswer
      BY <1>1, <1>3
    <3>3. Arrived(page, q, chunk, x, p)
      BY DEF Arrived
    <3> HIDE DEF p, x
    <3> QED
      BY ONLY PlayerAssumption, <2>6, <2>7, <3>1, <3>2, <3>3, ArrivalEnds, SMTT(60)
  <2> HIDE DEF p, x
  <2> QED
    BY <1>1, <1>3, <2>8, NoSeekEnds
<1> QED
  BY <1>2, <1>3

\* The last batch of a chunk may end a seek, and the turn of the pump may.
LEMMA MoreEndsStep ==
    ASSUME StreamAssumption, PlayerAssumption, PlayerSound, EndsAreSound, page # None,
           NEW q \in page.pumps, AddMore(q)
    PROVE  EndsAreSound' /\ SeekEnds
<1>1. q.chunk # NoAnswer /\ UNCHANGED <<stream, frozen, cut>>
  BY DEF AddMore, Changes
<1>2. CASE q.gen # page.gen
  <2>1. page' = WithoutPump(page, q)
    BY <1>2 DEF AddMore, Changes
  <2> QED
    BY <1>1, <1>2, <2>1, GoneEndsStep
<1>3. Sound(page, stored, frozen, cut) /\ EndsSound(page, frozen) /\ PageShape(page, stored, frozen)
  BY PageKnown DEF EndsAreSound
<1>4. CASE q.gen = page.gen /\ q.added < Len(q.chunk.events)
  <2>1. page' = AddBatch(page, q)
    BY <1>4 DEF AddMore, Changes
  <2>2. EndsSound(AddBatch(page, q), frozen) /\ AddBatch(page, q).pending = page.pending
    BY <1>1, <1>3, <1>4, MoreEnds
  <2> QED
    BY <1>1, <2>1, <2>2, NoSeekEnds
<1>5. CASE q.gen = page.gen /\ ~ (q.added < Len(q.chunk.events))
  <2>1. page' = ChunkAdded(page, q)
    BY <1>5 DEF AddMore, Changes
  <2>2. Orderly(frozen)
    <3>1. Orderly(stored)
      BY SoundStored DEF PlayerSound, StoredOrderly
    <3>2. frozen \subseteq stored
      BY <1>3 DEF PageShape, Older
    <3> QED
      BY <3>1, <3>2, OrderlyPart
  <2>3. EndsSound(ChunkAdded(page, q), frozen) /\ EndsWell(page, ChunkAdded(page, q), frozen)
    BY <1>1, <1>3, <1>5, <2>2, TurnEnds
  <2>4. Sound(ChunkAdded(page, q), stored, frozen, cut)
    BY <1>1, <1>3, <1>5, TurnKeeps
  <2>5. HoldsSound(page', stored, frozen)
    BY <2>1, <2>4 DEF Sound
  <2> QED
    BY <1>1, <2>1, <2>3, <2>5, SeekEndsStep
<1> QED
  BY <1>2, <1>4, <1>5

\* Every step ends seeks well.
LEMMA EndsStaySound ==
    ASSUME StreamAssumption, PlayerAssumption, PlayerSound, EndsAreSound, [Next]_vars
    PROVE  EndsAreSound' /\ [SeekEnds]_vars
<1>1. CASE UNCHANGED vars
  BY <1>1 DEF vars, EndsAreSound
<1>2. CASE Ingest
  BY <1>2 DEF Ingest, EndsAreSound, SeekEnds
<1>3. CASE Open
  <2>1. StoredOrderly
    BY SoundStored DEF PlayerSound
  <2>2. EndsSound(page', stored)
    BY <1>3, <2>1, OpenEnds
  <2>3. frozen' = stored /\ page = None
    BY <1>3 DEF Open
  <2> QED
    BY <2>2, <2>3 DEF EndsAreSound, SeekEnds
<1>4. CASE Play
  <2>1. page # None /\ UNCHANGED <<stream, frozen, cut>>
    BY <1>4 DEF Play, Changes
  <2> QED
    BY <1>4, <2>1, PageKnown, PlayKeeps, StartEndsStep
<1>5. CASE Pause
  <2>1. page # None /\ UNCHANGED <<stream, frozen, cut>>
    BY <1>5 DEF Pause, Changes
  <2> QED
    BY <1>5, <2>1, PageKnown, PauseKeeps, StartEndsStep
<1>6. ASSUME page # None, NEW time, ObserveTime(time) PROVE EndsAreSound' /\ SeekEnds
  <2>1. UNCHANGED <<stream, frozen, cut>>
    BY <1>6 DEF ObserveTime, Changes
  <2> QED
    BY <1>6, <2>1, PageKnown, ObserveKeeps, StartEndsStep
<1>7. CASE Finish
  <2>1. page # None /\ UNCHANGED <<stream, frozen, cut>>
    BY <1>7 DEF Finish, Changes
  <2> QED
    BY <1>7, <2>1, PageKnown, FinishKeeps, StartEndsStep
<1>8. ASSUME NEW target \in Targets, Seek(target) PROVE EndsAreSound' /\ SeekEnds
  <2>1. page # None /\ SeekChanges(page, target)
    BY <1>8 DEF Seek
  <2>2. Same(page, page)
    BY <2>1, PageKnown DEF Same, Alike
  <2>3. target \in Nat
    BY DEF PlayerAssumption
  <2> QED
    BY <2>1, <2>2, <2>3, SoughtEndsStep
<1>9. CASE Retry
  BY <1>9, RetryEndsStep
<1>10. ASSUME page # None, NEW s \in page.seeks, SeekAnswered(s) PROVE EndsAreSound' /\ SeekEnds
  BY <1>10, AnsweredEndsStep
<1>11. ASSUME page # None, NEW s \in page.seeks, SeekRequestFails(s) PROVE EndsAreSound' /\ SeekEnds
  BY <1>11, SeekFailsEndsStep
<1>12. ASSUME page # None, NEW q \in page.pumps, ChunkArrives(q) PROVE EndsAreSound' /\ SeekEnds
  BY <1>12, ArrivesEndsStep
<1>13. ASSUME page # None, NEW q \in page.pumps, ChunkRequestFails(q) PROVE EndsAreSound' /\ SeekEnds
  BY <1>13, GoneEndsStep DEF ChunkRequestFails, Changes
<1>14. ASSUME page # None, NEW q \in page.pumps, AddMore(q) PROVE EndsAreSound' /\ SeekEnds
  BY <1>14, MoreEndsStep
<1> QED
  BY <1>1, <1>2, <1>3, <1>4, <1>5, <1>6, <1>7, <1>8, <1>9, <1>10, <1>11, <1>12, <1>13, <1>14 DEF Next

\* A seek that needed the server ends where it was meant to lead and with all of
\* the segment up to there held, whatever answers, failures, retries and other
\* seeks come in between (_completePendingSeekIfReady of replay-stream.js,
\* _target_boundary_ready of replay_streaming.py).
THEOREM SeeksEndComplete == Spec => SeekEndsComplete
<1>1. Init => EndsAreSound
  BY EndsStart
<1>2. PlayerSound /\ EndsAreSound /\ [Next]_vars => EndsAreSound' /\ [SeekEnds]_vars
  BY EndsStaySound, StreamAssumption, PlayerAssumption
<1> QED
  BY <1>1, <1>2, PlayerStaysSound, PTL DEF Spec, SeekEndsComplete

=============================================================================
