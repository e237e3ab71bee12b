------------------------- MODULE FilteredOverview -------------------------
(***************************************************************************)
(* One company-attribute variant of an overview: its cache row, the        *)
(* requests that read it, the workers that build it, and the writers that  *)
(* make it wrong or old.                                                   *)
(*                                                                         *)
(* apps/pages/filtered_overview.py never builds in a web request.  A       *)
(* request reads the row, decides from two project revisions whether it    *)
(* may be served, and asks a worker for a new one.  The worker holds the   *)
(* project's advisory lock, reads the revisions first and the values and   *)
(* facts after, and stores the row only if the filtered revision has not   *)
(* moved (apps/pages/services.py, company_analytics.py, user_analytics.py).*)
(* Attribute edits take no advisory lock: they bump one revision in their  *)
(* transaction and delete the row after it (company_attributes.py).        *)
(* Fact rebuilds hold the lock and bump both revisions.  A save of the     *)
(* whole project (Project.save()) writes back both as it has loaded them.  *)
(*                                                                         *)
(* A version of the attribute values or of the prepared facts is the       *)
(* number of committed changes to it.  The row keeps, beside the columns   *)
(* of the table, the versions it was really computed from.  History: given *)
(* (the versions each filtered revision has stood for), lowered (a save    *)
(* has written back other revisions than the current ones) and, of a       *)
(* request, version (the values when it loaded the project).               *)
(***************************************************************************)
EXTENDS Integers, FiniteSets

CONSTANTS
    Requests,      \* web requests for the variant that may be in progress
    Tasks,         \* build tasks that may be outstanding
    Renames,       \* saves of the whole project that may be in progress
    MaxRetries,    \* PAGES_LOCK_MAX_RETRIES
    NoRow, Free, NotAsked, NotLoaded,
    \* bounds of the model
    MaxSaves,      \* edits of attribute values
    MaxRebuilds,   \* rebuilds of prepared facts
    LastDay,       \* days that pass
    MaxFailures    \* crashes, lost tasks, refused publications

VARIABLES
    keepsRow,      \* whether the overview's builder returns early if there is a row
    project,       \* filtered_analytics_revision, analytics_facts_revision
    attributes,    \* version of the attribute values
    data,          \* version of the prepared facts
    today,         \* the project's local day, which fixes the window
    row,           \* cache row of the variant
    deletions,     \* on_commit deletions of attribute edits still to run
    lock,          \* holder of the pages-rebuild advisory lock
    task,          \* build tasks
    claimed,       \* the web process published a task less than 60 s ago
    request,       \* requests in progress, with the project they loaded
    answer,        \* what each client has been given, nothing while it waits
    failures,      \* failures so far
    rename,        \* the revisions that a save of the whole project has loaded
    given, lowered \* history

overviewVars == <<keepsRow, project, attributes, data, today, row, deletions, lock, task, claimed,
          request, answer, failures, rename, given, lowered>>
renameVars == <<rename, given, lowered>>

ASSUME OverviewAssumption ==
    /\ MaxRetries \in Nat
    /\ NotAsked \notin Nat
    /\ Free \notin Tasks /\ Free \notin {"rebuild", "aggregate"}
    /\ Tasks \intersect {"rebuild", "aggregate"} = {}

Revisions == [filtered: Nat, facts: Nat]

Row == [filtered: Nat, facts: Nat, day: Nat, stale: BOOLEAN,
        cohort: SUBSET Nat, data: Nat]

Version == [filtered: Nat, attributes: Nat, data: Nat]

ASSUME NoRowAssumption == NoRow \notin Row /\ NotLoaded \notin Revisions

TaskPhases == {"none", "queued", "revisions", "cohort", "payload"}

Task == [phase: TaskPhases, tries: Nat, filtered: Nat, facts: Nat, day: Nat,
         cohort: SUBSET Nat, data: Nat]

NoTask == [phase |-> "none", tries |-> 0, filtered |-> 0, facts |-> 0, day |-> 0,
           cohort |-> {}, data |-> 0]

\* A page or its data are made of the row that was read; a table is read from the row by
\* SQL after the decision on its metadata; the users page does one after the other.
Endpoints == {"page", "table", "users"}

\* A request keeps the project as it was loaded at its start, and what it has of its page.
Request == [phase: {"idle", "asked", "gated"}, filtered: Nat, facts: Nat,
            version: Nat, page: SUBSET Nat]

NoRequest == [phase |-> "idle", filtered |-> 0, facts |-> 0, version |-> 0, page |-> {}]

OverviewTypeOK ==
    /\ keepsRow \in BOOLEAN
    /\ project \in Revisions
    /\ attributes \in Nat /\ data \in Nat /\ today \in Nat
    /\ row \in Row \union {NoRow}
    /\ deletions \in Nat /\ failures \in Nat
    /\ lock \in Tasks \union {Free, "rebuild", "aggregate"}
    /\ task \in [Tasks -> Task]
    /\ claimed \in BOOLEAN
    /\ request \in [Requests -> Request]
    /\ answer \in [Requests -> [page: SUBSET Nat, table: SUBSET Nat]]
    /\ rename \in [Renames -> Revisions \union {NotLoaded}]
    /\ given \subseteq Version
    /\ lowered \in BOOLEAN

\* The answer that the overview is being prepared.
Pending == [page |-> {}, table |-> {}]

\* What the filtered revision stands for, with these values and facts.
Stands(revisions, values, facts) ==
    [filtered |-> revisions.filtered, attributes |-> values, data |-> facts]

OverviewInit ==
    /\ keepsRow \in BOOLEAN
    /\ project = [filtered |-> 0, facts |-> 0]
    /\ attributes = 0 /\ data = 0 /\ today = 0
    /\ row = NoRow
    /\ deletions = 0 /\ failures = 0
    /\ lock = Free
    /\ task = [k \in Tasks |-> NoTask]
    /\ claimed = FALSE
    /\ request = [r \in Requests |-> NoRequest]
    /\ answer = [r \in Requests |-> Pending]
    /\ rename = [n \in Renames |-> NotLoaded]
    /\ given = {Stands(project, attributes, data)}
    /\ lowered = FALSE

-----------------------------------------------------------------------------
(* Requests.                                                               *)

\* A counter that only attribute edits advance.
AttributeRevision(x) == x.filtered - x.facts

\* Mutant of Usable: only the window is compared.
UsableInWindow(x) == row # NoRow /\ row.day = today

\* The row may be served to a request that loaded the project as x.
Usable(x) ==
    /\ row # NoRow
    /\ row.day = today
    /\ AttributeRevision(row) = AttributeRevision(x)

\* Mutant of NeedsRefresh: only the flag and the expiry are looked at.
NeedsRefreshByAge(x) == row = NoRow \/ row.stale

\* A row that may be served is to be rebuilt behind the answer.
NeedsRefresh(x) ==
    \/ row = NoRow
    \/ row.stale
    \/ row.facts # x.facts

\* A task is published at most once a minute; the broker may refuse it.
QueueRebuild ==
    \/ /\ claimed
       /\ UNCHANGED <<task, claimed, failures>>
    \/ /\ ~claimed
       /\ claimed' = TRUE
       /\ \E k \in Tasks :
            /\ task[k].phase = "none"
            /\ task' = [task EXCEPT ![k] = [NoTask EXCEPT !.phase = "queued"]]
       /\ UNCHANGED failures
    \/ /\ ~claimed
       /\ failures < MaxFailures
       /\ failures' = failures + 1
       /\ UNCHANGED <<task, claimed>>

\* The claim runs out.  Bound: not while every task of the model is outstanding.
ClaimExpires ==
    /\ claimed
    /\ \E k \in Tasks : task[k].phase = "none"
    /\ claimed' = FALSE
    /\ UNCHANGED <<keepsRow, project, attributes, data, today, row, deletions, lock, task,
                   request, answer, failures>>
    /\ UNCHANGED renameVars

Ask(r) ==
    /\ request[r].phase = "idle"
    /\ request' = [request EXCEPT ![r] = [phase |-> "asked",
                                          filtered |-> project.filtered,
                                          facts |-> project.facts,
                                          version |-> attributes, page |-> {}]]
    /\ answer' = [answer EXCEPT ![r] = Pending]
    /\ UNCHANGED <<keepsRow, project, attributes, data, today, row, deletions, lock, task,
                   claimed, failures>>
    /\ UNCHANGED renameVars

\* The row is read and the request decided on it.
Look(r, endpoint) ==
    /\ request[r].phase = "asked"
    /\ IF Usable(request[r]) /\ ~NeedsRefresh(request[r])
       THEN UNCHANGED <<task, claimed, failures>>
       ELSE QueueRebuild
    /\ LET page == IF Usable(request[r]) /\ endpoint # "table" THEN row.cohort ELSE {}
       IN  IF Usable(request[r]) /\ endpoint # "page"
           THEN /\ request' = [request EXCEPT ![r].phase = "gated", ![r].page = page]
                /\ UNCHANGED answer
           ELSE /\ request' = [request EXCEPT ![r] = NoRequest]
                /\ answer' = [answer EXCEPT ![r] = [page |-> page, table |-> {}]]
    /\ UNCHANGED <<keepsRow, project, attributes, data, today, row, deletions, lock>>
    /\ UNCHANGED renameVars

\* The table of whatever row is there now; a page without one shows an empty table.
Render(r) ==
    /\ request[r].phase = "gated"
    /\ answer' = [answer EXCEPT ![r] = [page |-> request[r].page,
                                        table |-> IF row = NoRow THEN {} ELSE row.cohort]]
    /\ request' = [request EXCEPT ![r] = NoRequest]
    /\ UNCHANGED <<keepsRow, project, attributes, data, today, row, deletions, lock, task,
                   claimed, failures>>
    /\ UNCHANGED renameVars

-----------------------------------------------------------------------------
(* Workers.                                                                *)

\* The advisory lock is taken and the revisions are read, before anything else.
StartBuild(k) ==
    /\ task[k].phase = "queued"
    /\ lock = Free
    /\ ~(keepsRow /\ row # NoRow)
    /\ lock' = k
    /\ task' = [task EXCEPT ![k] = [NoTask EXCEPT !.phase = "revisions",
                                                  !.filtered = project.filtered,
                                                  !.facts = project.facts]]
    /\ UNCHANGED <<keepsRow, project, attributes, data, today, row, deletions, claimed,
                   request, answer, failures>>
    /\ UNCHANGED renameVars

\* The companies and users builders report a cache hit on any row they find.
KeepRow(k) ==
    /\ task[k].phase = "queued"
    /\ lock = Free
    /\ keepsRow /\ row # NoRow
    /\ task' = [task EXCEPT ![k] = NoTask]
    /\ UNCHANGED <<keepsRow, project, attributes, data, today, row, deletions, lock, claimed,
                   request, answer, failures>>
    /\ UNCHANGED renameVars

\* Someone else holds the lock: the task comes back later, a few times.
RetryOrDrop(k) ==
    /\ task[k].phase = "queued"
    /\ lock # Free
    /\ task' = [task EXCEPT ![k] =
          IF task[k].tries < MaxRetries
          THEN [task[k] EXCEPT !.tries = task[k].tries + 1] ELSE NoTask]
    /\ UNCHANGED <<keepsRow, project, attributes, data, today, row, deletions, lock, claimed,
                   request, answer, failures>>
    /\ UNCHANGED renameVars

\* The cohort: one query for each condition of the filter, each of them sees the
\* values committed before it.
ReadValues(k) ==
    /\ task[k].phase \in {"revisions", "cohort"}
    /\ task' = [task EXCEPT ![k] =
          [task[k] EXCEPT !.phase = "cohort",
                          !.cohort = task[k].cohort \union {attributes}]]
    /\ UNCHANGED <<keepsRow, project, attributes, data, today, row, deletions, lock, claimed,
                   request, answer, failures>>
    /\ UNCHANGED renameVars

\* The window, then the facts in it.
ReadFacts(k) ==
    /\ task[k].phase = "cohort"
    /\ task' = [task EXCEPT ![k] = [task[k] EXCEPT !.phase = "payload",
                                                  !.day = today, !.data = data]]
    /\ UNCHANGED <<keepsRow, project, attributes, data, today, row, deletions, lock, claimed,
                   request, answer, failures>>
    /\ UNCHANGED renameVars

Built(k) == [filtered |-> task[k].filtered, facts |-> task[k].facts,
             day |-> task[k].day, stale |-> FALSE,
             cohort |-> task[k].cohort, data |-> task[k].data]

\* What _delete_superseded_filtered_variants leaves.
Reachable(x) == IF x # NoRow /\ x.day = today THEN x ELSE NoRow

\* Mutant of Publish: the revision is not read again.
PublishUnchecked(k) ==
    /\ task[k].phase = "payload"
    /\ row' = Reachable(Built(k))
    /\ lock' = Free
    /\ task' = [task EXCEPT ![k] = NoTask]
    /\ UNCHANGED <<keepsRow, project, attributes, data, today, deletions, claimed, request,
                   answer, failures>>
    /\ UNCHANGED renameVars

\* Mutant of Publish: the early return keeps the lock.
PublishHoldingLock(k) ==
    /\ task[k].phase = "payload"
    /\ row' = IF project.filtered = task[k].filtered
              THEN Reachable(Built(k)) ELSE row
    /\ lock' = IF project.filtered = task[k].filtered THEN Free ELSE lock
    /\ task' = [task EXCEPT ![k] = NoTask]
    /\ UNCHANGED <<keepsRow, project, attributes, data, today, deletions, claimed, request,
                   answer, failures>>
    /\ UNCHANGED renameVars

\* Under the project's row lock: the row is stored if the filtered revision is
\* still the one read first, and rows of past windows are deleted.
Publish(k) ==
    /\ task[k].phase = "payload"
    /\ row' = IF project.filtered = task[k].filtered
              THEN Reachable(Built(k)) ELSE row
    /\ lock' = Free
    /\ task' = [task EXCEPT ![k] = NoTask]
    /\ UNCHANGED <<keepsRow, project, attributes, data, today, deletions, claimed, request,
                   answer, failures>>
    /\ UNCHANGED renameVars

\* The worker is killed or an exception ends the task: it is not run again.
LoseTask(k) ==
    /\ task[k].phase # "none"
    /\ failures < MaxFailures
    /\ failures' = failures + 1
    /\ lock' = IF lock = k THEN Free ELSE lock
    /\ task' = [task EXCEPT ![k] = NoTask]
    /\ UNCHANGED <<keepsRow, project, attributes, data, today, row, deletions, claimed,
                   request, answer>>
    /\ UNCHANGED renameVars

Build(k) ==
    \/ StartBuild(k) \/ KeepRow(k) \/ RetryOrDrop(k)
    \/ ReadValues(k) \/ ReadFacts(k) \/ Publish(k)

-----------------------------------------------------------------------------
(* Writers.                                                                *)

\* save_company_attribute_values or save_attribute_definitions commits.
Save ==
    /\ attributes < MaxSaves
    /\ attributes' = attributes + 1
    /\ project' = [project EXCEPT !.filtered = @ + 1]
    /\ given' = given \union {Stands(project', attributes', data)}
    /\ deletions' = deletions + 1
    /\ UNCHANGED <<keepsRow, data, today, row, lock, task, claimed, request, answer, failures,
                   rename, lowered>>

\* Its on_commit callback.
DeleteVariants ==
    /\ deletions > 0
    /\ deletions' = deletions - 1
    /\ row' = NoRow
    /\ UNCHANGED <<keepsRow, project, attributes, data, today, lock, task, claimed, request,
                   answer, failures>>
    /\ UNCHANGED renameVars

\* The process dies between the commit and the callback.
LoseDeletion ==
    /\ deletions > 0
    /\ failures < MaxFailures
    /\ failures' = failures + 1
    /\ deletions' = deletions - 1
    /\ UNCHANGED <<keepsRow, project, attributes, data, today, row, lock, task, claimed,
                   request, answer>>
    /\ UNCHANGED renameVars

\* rebuild_project_pages_analytics, or aggregate_page_daily_metrics alone.
StartRebuild(kind) ==
    /\ lock = Free
    /\ data < MaxRebuilds
    /\ lock' = kind
    /\ UNCHANGED <<keepsRow, project, attributes, data, today, row, deletions, task, claimed,
                   request, answer, failures>>
    /\ UNCHANGED renameVars

\* Mutant of BothRevisions: the filtered revision is left behind.
FactsRevisionOnly == [project EXCEPT !.facts = @ + 1]

BothRevisions == [filtered |-> project.filtered + 1, facts |-> project.facts + 1]

\* Facts, revisions and deleted rows become visible together, as of the day of
\* the commit.
CommitRebuild ==
    /\ lock \in {"rebuild", "aggregate"}
    /\ data' = data + 1
    /\ project' = BothRevisions
    /\ given' = given \union {Stands(project', attributes, data')}
    /\ row' = IF lock = "rebuild" THEN Reachable(row) ELSE row
    /\ lock' = Free
    /\ UNCHANGED <<keepsRow, attributes, today, deletions, task, claimed, request, answer,
                   failures, rename, lowered>>

AbortRebuild ==
    /\ lock \in {"rebuild", "aggregate"}
    /\ failures < MaxFailures
    /\ failures' = failures + 1
    /\ lock' = Free
    /\ UNCHANGED <<keepsRow, project, attributes, data, today, row, deletions, task, claimed,
                   request, answer>>
    /\ UNCHANGED renameVars

\* update_project_name, or a new API key: the project is loaded,
LoadProject(n) ==
    /\ rename[n] = NotLoaded
    /\ rename' = [rename EXCEPT ![n] = project]
    /\ UNCHANGED <<keepsRow, project, attributes, data, today, row, deletions, lock, task,
                   claimed, request, answer, failures, given, lowered>>

\* and saved with all its columns.
FullSave(n) ==
    /\ rename[n] # NotLoaded
    /\ rename' = [rename EXCEPT ![n] = NotLoaded]
    /\ project' = rename[n]
    /\ given' = given \union {Stands(project', attributes, data)}
    /\ lowered' = (lowered \/ rename[n] # project)
    /\ UNCHANGED <<keepsRow, attributes, data, today, row, deletions, lock, task, claimed,
                   request, answer, failures>>

\* The row's hour is over, or new product-area colours flag it.
RowStales ==
    /\ row # NoRow
    /\ row' = [row EXCEPT !.stale = TRUE]
    /\ UNCHANGED <<keepsRow, project, attributes, data, today, deletions, lock, task, claimed,
                   request, answer, failures>>
    /\ UNCHANGED renameVars

NextDay ==
    /\ today < LastDay
    /\ today' = today + 1
    /\ UNCHANGED <<keepsRow, project, attributes, data, row, deletions, lock, task, claimed,
                   request, answer, failures>>
    /\ UNCHANGED renameVars

-----------------------------------------------------------------------------

Serve(r) == Ask(r) \/ (\E endpoint \in Endpoints : Look(r, endpoint)) \/ Render(r)

OverviewNext ==
    \/ \E r \in Requests : Serve(r)
    \/ ClaimExpires
    \/ \E k \in Tasks : Build(k) \/ LoseTask(k)
    \/ Save \/ DeleteVariants \/ LoseDeletion
    \/ \E kind \in {"rebuild", "aggregate"} : StartRebuild(kind)
    \/ CommitRebuild \/ AbortRebuild
    \/ \E n \in Renames : LoadProject(n) \/ FullSave(n)
    \/ RowStales \/ NextDay

OverviewSpec == OverviewInit /\ [][OverviewNext]_overviewVars

\* Clients keep polling, claims run out, workers and transactions make progress.
\* Nothing is owed by edits, failures or the calendar.
OverviewFairness ==
    /\ \A r \in Requests : WF_overviewVars(Serve(r))
    /\ \A k \in Tasks : WF_overviewVars(Build(k))
    /\ WF_overviewVars(ClaimExpires)
    /\ WF_overviewVars(CommitRebuild)
    /\ WF_overviewVars(DeleteVariants)

LiveSpec == OverviewSpec /\ OverviewFairness

-----------------------------------------------------------------------------
(* Properties.                                                             *)

\* The versions that a filtered revision has stood for.
Versions(filtered) == {v \in given : v.filtered = filtered}

\* The revision has one meaning: only a save that takes revisions back gives one a second.
Reliable(filtered) == lowered => \E v \in given : Versions(filtered) = {v}

\* A row is what it says it is: its cohort comes from the one version of the
\* attribute values, its figures from the one version of the facts that its
\* filtered revision stands for.  A revision stands for two only where a save of
\* the whole project has taken it back; of other rows the same is said after that.
RowTruthful ==
    row # NoRow /\ Reliable(row.filtered) =>
        \E a \in row.cohort :
            /\ row.cohort = {a}
            /\ Versions(row.filtered) =
                  {[filtered |-> row.filtered, attributes |-> a, data |-> row.data]}

\* A row is stored only while the values and the facts it was computed from are
\* the current ones: nothing got between its first read and its publication, as
\* long as its revision has one meaning.
PublishesCurrent ==
    [][row' # row /\ row' # NoRow /\ ~row'.stale /\ Reliable(row'.filtered) =>
          row'.cohort = {attributes} /\ row'.data = data]_overviewVars

\* The answers are those of the abstract service, until a save of the whole
\* project takes the revisions back.
Answers == INSTANCE FilteredAnswers WITH
    asked <- [r \in Requests |-> IF request[r].phase = "idle" THEN NotAsked
                                 ELSE request[r].version],
    confused <- lowered

AnswersAreCurrent == Answers!AnswersSpec

RowCurrent ==
    /\ row # NoRow
    /\ row.filtered = project.filtered
    /\ row.facts = project.facts
    /\ row.day = today

RowRefreshed ==
    (row # NoRow /\ row.facts # project.facts)
        ~> (row = NoRow \/ row.facts = project.facts)

\* Once edits, rebuilds, failures and the calendar come to rest, polling clients
\* find a row of the current values, facts and window, and it stays; and where a
\* task builds anew what was found outdated (for the pages overview), a row of
\* older facts is rebuilt behind the answers even before that.
Converges == keepsRow \/ (<>[]RowCurrent /\ RowRefreshed)

\* A row of older facts that is served is rebuilt behind the answers: not where
\* the builder keeps the row it finds.
RefreshedBehind == RowRefreshed

-----------------------------------------------------------------------------
(* The inductive invariant behind them.                                    *)

\* Values and facts only go on, and the current ones are given; until a save takes
\* them back, the revisions count the changes, so that each is given once.
GivenSound ==
    /\ Stands(project, attributes, data) \in given
    /\ \A v \in given : v.attributes <= attributes /\ v.data <= data
    /\ \A v, w \in given : \/ v.attributes <= w.attributes /\ v.data <= w.data
                           \/ w.attributes <= v.attributes /\ w.data <= v.data

RevisionsCount ==
    ~lowered =>
        /\ project.facts = data
        /\ \A v \in given : v.filtered = v.attributes + v.data

\* A build holds the lock, so the facts stand still under it; the values it has
\* read are not older than those its revision stood for when it was read.
BuildSound(k) ==
    task[k].phase \in {"revisions", "cohort", "payload"} =>
        /\ lock = k
        /\ \E v \in given :
              /\ v.filtered = task[k].filtered /\ v.data = data
              /\ \A c \in task[k].cohort : v.attributes <= c /\ c <= attributes
        /\ task[k].phase # "revisions" => task[k].cohort # {}
        /\ task[k].phase = "payload" => task[k].data = data
        /\ ~lowered => task[k].facts = data

RowSound ==
    row # NoRow =>
        /\ \E v \in given : v.filtered = row.filtered
        /\ \A c \in row.cohort : c <= attributes
        /\ ~lowered => row.facts = row.data

\* A row that has passed the check is only ever followed by newer ones.
RequestSound(r) ==
    request[r].phase # "idle" =>
        /\ request[r].version <= attributes
        /\ \A c \in request[r].page : c <= attributes
        /\ ~lowered =>
              /\ AttributeRevision(request[r]) = request[r].version
              /\ request[r].page \subseteq {request[r].version}
              /\ request[r].phase = "gated" /\ row # NoRow =>
                    \A c \in row.cohort : request[r].version <= c

IInv ==
    /\ OverviewTypeOK
    /\ GivenSound
    /\ RevisionsCount
    /\ \A k \in Tasks : BuildSound(k)
    /\ RowTruthful
    /\ RowSound
    /\ \A r \in Requests : RequestSound(r)

=============================================================================
