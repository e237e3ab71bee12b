# Specifications of Hymetry

Hymetry records what visitors of a web application do and shows product teams
which pages, companies and users it concerns. A script in the customer's pages
sends rrweb recordings and analytics events; Django endpoints resolve them to
visits and store them; Celery workers prepare facts and cached overviews; web
views serve those. This directory holds TLA+ modules of the parts whose
correctness depends on order, concurrency and failure, the TLC instances that
check them, and proofs for every instance.

Contents: [the system](#1-the-system), [the modules](#2-the-modules),
[the runs](#3-the-runs), [fairness](#4-fairness), [the proofs](#5-the-proofs),
[findings](#6-findings), [what is not modelled](#7-what-is-not-modelled),
[plan](#8-plan). Paths are relative to the repository.

To repeat everything: `tlc -config X.cfg M.tla` for the runs of section 3,
`tlapm M.tla` for the modules of section 5.

## 1. The system

### How the parts interact

    page ──events──▶ localStorage ──batches──▶ analytics endpoint ┐ names by
    page ──rrweb batches────────────────────▶ recording endpoint ─┤ page rules
                                                                  ▼
                               session resolver (visitor row lock): visits
                                                                  │
                        identity fragments (visit row lock), events, flags
                                                                  │
      retention job ── deletes old visits          fact rebuild (advisory lock)
                                                                  │
      attribute edits (project row lock) ─▶ revisions ─▶ overview builds
                                                        (advisory lock)
                                                                  │
                     web requests read cached rows; a viewer's page asks
                     for the stored rrweb events answer by answer

    page naming runs (advisory lock) ── replace rules, rename events

Processes share state through PostgreSQL rows (row locks, one transaction for
each step), PostgreSQL advisory locks, Redis (masks, task claims), Celery
messages, and in the browser localStorage.

### The components

**Session resolver** (`apps/tracker/session_resolver.py`, `models.py`).
*State:* Session rows (start, last activity, end or NULL) and the Visitor row.
*Operations:* `resolve_visit_session_batch`: lock the visitor, load the visits
near the points, resolve each point (inside a visit, before one, passive, new),
save, widen the visitor's span; all in one transaction.
*Hard:* points arrive late, out of order and in several batches; the rows that
are loaded must be enough; closing and moving back interact with the maximum
duration. *Correct if:* visits are disjoint, at most one is open, activity lies
inside, no recorded span shrinks, neither error of the resolver nor the unique
index is ever reached.

**Visit retention** (`apps/tracker/visits_retention.py`, `tasks.py`).
*State:* the cutoff and the ids it has read. *Operations:* read a batch of ids,
delete those visits, their events and orphaned visitors; repeat.
*Hard:* it takes no visitor lock, reads outside the transaction that deletes, and
a visitor is deleted by the ORM in three queries. *Correct if:* only expired
visits go, but for those that arrive between two of these queries, no visit loses
its visitor, and the resolver's invariants survive.

**Analytics ingest and identity fragments** (`apps/tracker/analytics_tracker.py`).
*State:* AnalyticsSession rows of a visit, its AnalyticsEvent rows.
*Operations:* resolve the events of a request, place each in a fragment of its
identity (join, split, continue, insert, refuse), store them.
*Hard:* the visit's lock is free between resolution and placement, and between
the events of a request. *Correct if:* fragments are disjoint, keep the events
given to them, end with their visit and stay inside it.

**Recording ingest** (`apps/tracker/session_tracker.py`). *State:* Event rows,
masks in Redis. *Operations:* resolve, mask, store, clear the masks of closed
visits. *Hard:* the visit may change between resolution and cleanup. *Correct
if:* masks are cleared only when nothing can arrive for them.

**Visits scope** (`visits_scope.py`, `analytics_eligibility.py`). *State:* flags
and event intervals kept on Session rows. *Operations:* widen and set on ingest,
recompute on reconciliation. *Hard:* written after the events, not with them.
*Correct if:* a reconciled row equals what its events say, and ingest never
narrows an interval.

**Stateful masking** (`redis_stateful_masking.py`). *State:* the mask of each
field. *Operations:* read, compute, write; clear. *Hard:* not atomic. *Correct
if:* a character once hidden stays hidden.

**Page naming** (`page_naming.py`). *State:* the project's naming state and
first-event time, rules, their versions, names on events, runs. *Operations:*
hourly and daily runs and backfills; replacing and applying rules; the reset to
bootstrap; ingest. *Hard:* a run takes the advisory lock after it has read the
project; the reset and ingest do not take it; stale read-modify-write of the
first-event time; saves of the whole project write the naming columns back; a
worker may die between any two commits. *Correct if:* an
event in a window that was renamed carries the name of the active rules, and a
reset restarts the bootstrap.

**Filtered overviews** (`apps/pages/filtered_overview.py`, `services.py`,
`company_analytics.py`, `user_analytics.py`, `tasks.py`, `locks.py`).
*State:* cache rows with their revisions and window, the project's two
revisions, claims to queue a task. *Operations:* gate a request, queue, build
under the lock, publish, invalidate. *Hard:* builds read values that edits
change meanwhile; messages, callbacks and tasks are lost; the users page reads its
row twice; a save of the whole project writes back old revisions. *Correct if:* no
answer mixes versions or is older than its request, and an outdated row is
replaced.

**Company attributes** (`apps/projects/company_attributes.py`).
*State:* definitions, options, values, the filtered revision, a cache of the
definitions by revision. *Operations:* save definitions or values under the
project's lock, bump the revision, delete the variants after the commit. *Hard:*
the callback after the commit; full saves of the project that take the revision
back. *Correct if:* what is cached under a revision is what the project had then.

**Prepared facts and page reports** (`apps/pages/queries.py`, `services.py`,
`analytics_eligibility.py`). *State:* page visits with their eligibility,
transitions, eight daily tables. *Operations:* rebuild a window of days in one
transaction under the advisory lock: cut visits, judge low-confidence sessions,
make transitions, aggregate; read summaries, series, penetration and flows.
*Hard:* windows end inside sessions; ingest goes on between the statements of a
rebuild; the same figure comes from several tables and queries. *Correct if:*
windows do not show in the result, tables agree, a report agrees with itself
for every period, level and filter.

**Company reports** (`company_analytics.py`, `company_detail_analytics.py`,
`analytics_memo.py`). *State:* none of their own but a walk of two rolling windows
over one bulk read, and reads shared by the ranges of a rebuild. *Operations:*
status of a company in a period, at-risk trend, series of new, reactivated and
at-risk companies and users. *Hard:* a window moved day by day must equal a
fresh one; a shared read reaches further than asked for; facts and the date
change between reads. *Correct if:* every point of a trend is what the report
for that day says.

**User reports** (`user_analytics.py`, `user_detail_analytics.py`): the same
tables by user.

**Product-area colours** (`product_area_color_assignment.py`). *State:* colours
of areas, `is_stale` of cache rows. *Operations:* hourly and daily assignment.

**Company segments** (`company_segments.py`, `company_segment_reviews.py`,
`analytics_filter_state.py`). *State:* definitions, review flags with the deleted
attributes they wait for, the last scope of each user. *Operations:* create, edit,
flag on the deletion of an attribute, clear, delete; scope a page by its URL,
redirect to the canonical one or to the remembered scope. *Hard:* an edit is
validated, saved and cleared in three steps without a lock, and a deletion comes
between; a page reads segment and attributes one after the other, one of them
through a cache; deleting an option of a select flags nothing. *Correct if:* a segment
that names a deleted attribute is up for review, a page applies its segment with a
condition for every attribute it names or not at all, redirects end.

**Workspace membership and lifecycle** (`apps/projects/services.py`,
`access.py`, `views.py`, `admin.py`). *State:* memberships and roles, archive
times. *Operations:* add, remove, change role, leave, found, archive, restore,
purge; create and rename projects. *Hard:* views decide on rows read without a
lock, and only removal and change of role look again under one
(`services.py:232`); the purge reads expired rows before it deletes them, and a
workspace's projects once to see that there are none and again to delete it; full
saves write columns that others have changed. *Correct if:* a workspace keeps an
owner, ownership is given and taken by those who may, and only what has expired
is purged.

**Installation setup** (`apps/users/services.py`): one initial administrator,
under a row lock. **AI credentials** (`ai_credentials.py`, `secret_store.py`):
one encrypted key for each workspace.

**Browser analytics queue** (`frontend/tracker_script/src/analytics.js`).
*State:* the queue of a page, snapshots in localStorage by tab, the sweep in
progress. *Operations:* capture, persist, claim, send, restore. *Hard:* pages
share the storage without a lock, tabs are duplicated, requests fail after the
server has stored them, pages go at any time. *Correct if:* nothing is lost but
with a page, newer observations win, refused events do not block others.

**Browser recording** (`recording.js`). *State:* buffered events, pending
batches, the tab id. *Operations:* buffer, flush, remember on failure, claim a
tab id by a handshake. *Hard:* unload, duplicated tabs, late vetoes.

**Replay streaming** (`replay_streaming.py`, `static/js/tracker/replay-stream.js`,
`recording.html`). *State:* on the server only the stored events, everything else
is in signed cursors; in the page the player with what it holds, the cursor, one
pump, a pending seek and generations of abandoned requests. *Operations:*
bootstrap, chunks, seeks; play, pause, seek, retry, prefetch, stop at what is
loaded and go on. *Hard:* answers that come after they were abandoned, batches
added between callbacks, events committed while the recording is watched, many
events of one time at the end of an answer. *Correct if:* the player holds each
event of the recording once and in order, with the page and the tab it belongs
to, and a viewer never waits for ever.

**Web interface, deployment**: views, templates, charts, settings, commands.

## 2. The modules

| Module | What it is | Code |
|---|---|---|
| `VisitRows` | Session rows: effective end, containment, closing, the loading window | `session_resolver.py`, `models.py` |
| `VisitSessions` | the resolver: batches of one visitor | `session_resolver.py` |
| `VisitRetention` | the retention job beside it; extends `VisitSessions` | `visits_retention.py` |
| `IdentityFragments` | the fragments of one visit; extends `VisitRows` | `analytics_tracker.py` |
| `FilteredAnswers` | abstract: what an answer may be | promise of `filtered_overview.py` |
| `FilteredOverview` | one variant: requests, workers, writers; implements `FilteredAnswers` | `apps/pages`, `company_attributes.py` |
| `AnalyticsQueue` | pages, localStorage and the server | `analytics.js` |
| `PageNaming` | workers, requests and a reset on one project | `page_naming.py`, `analytics_tracker.py`, `tasks.py` |
| `PageFacts` | rebuilds of the prepared facts beside ingest | `queries.py`, `services.py` |
| `PageSummaries` | what the page reports read from them; extends `PageFacts` | `queries.py`, `services.py` |
| `CompanyHealth` | the report of companies: status, at-risk trend, shared reads | `company_analytics.py`, `analytics_memo.py` |
| `CompanyDetails` | the series beside it; extends `CompanyHealth` | `company_detail_analytics.py` |
| `ReplayStream` | the answers of the server, as functions of the stored events | `replay_streaming.py` |
| `ReplayPlayer` | the page that follows them; extends `ReplayStream` | `replay-stream.js`, `recording.html` |
| `WorkspaceMembers` | members of workspaces and the requests that change them | `access.py`, `services.py`, `views.py` |
| `WorkspaceProjects` | life and purge of their projects; extends `WorkspaceMembers` | `services.py`, `views.py`, `models.py`, `admin.py` |
| `CompanySegments` | attributes, segments and pages of one project; extends `WorkspaceProjects` | `company_attributes.py`, `company_segments.py`, `company_segment_reviews.py`, `analytics_filter_state.py` |
| `*Proofs` | theorems of the module they are named for | |
| `MC*` | values and symmetry for TLC | |

Definitions named after a mutated form (`NewVisitPastNext` beside `NewVisit`, the
comment says "Mutant of") are the same definition with a plausible mistake. No
specification uses them; replacing the original by them shows that the
properties would notice.

### VisitSessions and VisitRetention

`visits` and `visitor` are the committed rows; `work` is what the transaction
has loaded, changed and created; `batch` is its progress. Times are natural
numbers of any unit. `Begin` locks and loads, `Resolve` takes the next point in
time order, with one action for each outcome of `_resolve_point`
(`ResolveInside`, `ResolveBefore`, `ResolvePassive`, `ResolveNew`), `Commit`
saves everything, `Rollback` is any failure. One visitor is enough: all queries
are by visitor, and all writes hold its row lock. One batch at a time is what
that lock leaves. A batch is the interval of its points, since the resolver
keeps nothing from one point to the next except the rows: any sequence of points
in the interval is a behaviour.

The settings are constants with `Timeout <= MaxDuration` and
`2 * MaxDuration <= LateWindow` (the code ships 1800, 43200 and 86400 s). The code
reads them from the environment and never compares them; without the second
inequality a visit that is not loaded may be too close.

`VisitRetention` adds the job: `PruneStart` fixes the cutoff, `PruneRead` reads
ids, `PruneDelete` deletes them in one transaction unless the resolver holds one
of the rows, and looks for a visitor without visits. The deletion of that visitor is
Django's collector (`visits_retention.py:95`, cascade of `models.py:59`): `PruneCollect`
reads the visits that go with it, `PruneOrphan` deletes both as soon as the resolver
has let go of the visitor, or is refused by the foreign key. `PruneAbort` is a killed
worker or a lost deadlock. `Ingest` is any step of the resolver that does not wait
for a row the job has deleted. `unseen` (history) are the visits committed between the
two reads.

### IdentityFragments

The rows of one visit, and events as independent actors, each `resolved`, then
`placed`, then stored. The events of a request are placed in the order of the
request, one transaction each, so they interleave with other requests exactly as
events of different requests do. `Resolve` and `Record` let the visit become
anything the resolver can make of it (`Created`, `Grown`, `MovedBack`); they
over-approximate the neighbours of the visit, which `VisitSessions` models.
`Place` is `_get_or_create_session`: `Join`, `Split`, `Skip`, `Continue`,
`Insert` are its branches. `Close` closes visit and fragments together, as
`_close_session` does. `Delete` is the retention job; a resolved event is then
`stranded` and its request fails.

### FilteredOverview and FilteredAnswers

A version of the attribute values is the number of committed edits
(`attributes`), one of the facts the number of rebuilds (`data`). `row` keeps the
columns that readers compare (two revisions, the window's day, staleness) and,
as history, the versions its figures were really computed from. `Ask`, `Look`
and `Render` are a request: the project is loaded, the row is checked, and an
endpoint that renders from SQL reads the row again. `Endpoints` tells the three kinds
apart: a page made of the row that was checked, a table made by SQL of whatever row is
there later, and the users page, which does both (`views.py:916`). `QueueRebuild` is the claim
in the cache and the message. `StartBuild`, `ReadValues` (once for each
condition), `ReadFacts` and `Publish` are a build under the lock; `RetryOrDrop`
is a task that finds the lock held. `KeepRow` is the early return of the
companies and users builders; the variable `keepsRow` tells which kind of variant
a behaviour is about, and never changes. `Save` and `DeleteVariants` are an
edit and its callback; `StartRebuild` to `AbortRebuild` a rebuild of facts;
`LoadProject` and `FullSave` a save of the whole project, a rename or a new API key, which
writes back both revisions as it loaded them (`views.py:2263`, `models.py:292`);
`LoseTask`, `LoseDeletion` and the refused message count as failures.

The filtered revision counts edits and rebuilds, the facts revision rebuilds,
so their difference (`AttributeRevision`) counts edits only: that is what makes
`Usable` right, and it is part of the invariant (`RevisionsCount`) until a full save
takes revisions back. History says from where on it is not: `lowered` that such a
save has happened, `given` which versions each filtered revision has stood for. A
revision with two meanings can let a mixture through, or an outdated row; that is what
`Reliable` excepts in `RowTruthful` and `PublishesCurrent`, for the rows of that very
revision and for no others.

`FilteredAnswers` says it without caches: the page and the table of an answer are each
empty or of ONE version of the values that was current between the request and the
answer, and the table is not older than the page; after `GoBack` any committed versions
may be answered. `AnswersAreCurrent` is the refinement; the mapping gives the abstract
`asked` the version that was current when the request loaded the project, and `confused`
the value of `lowered`.

### AnalyticsQueue

`queue`, `store`, `sweep` are `clickQueue` with the pending sampled events,
localStorage by tab id, and `processPendingStorage` of each page; `arrived` is
what the server has stored. A snapshot is a set of clicks and the number of its newest
sampled observation. Pages of one origin may run in different processes and
localStorage gives no lock, so whatever the code reads and then writes is two steps.
`persistSnapshotToStorage` reads (`PersistQueueToStorage`, or `RestoreClaimedSnapshot`
for a request that failed) and writes (`MergeWrite`, or `MergeFails` where the storage is
full); between them `merge` has the key, what was read, what the page adds and the rest of
its task: to sweep (`StartSweep`), to leave (`Leave`), or nothing. A claim reads
(`ClaimRead`) and removes (`ClaimRemove`). Another page may take any step in between;
events of the same page may not (`AtRest`). `OpenPage` may give two pages one id: that is
what duplicating a tab does to sessionStorage. `Accepted` and `Failed` are answers; a
failed request may have been stored.

`excused` records what a page took with it, what a full storage refused of a claim, and
what was stored between the read of a snapshot and its removal or replacement
(`Overrun`); `repeated` the clicks of a lost answer and those that were read by one page,
claimed by another, and then written back or claimed again. Both are computed from what
the step does to the storage, so that a loss or a repetition of any other cause violates
the property.

### PageNaming

`project` is the row with state, time of the last change and first-event time.
`Load` starts a task: it reads the row. `TryLock` comes later and may fail (it also
fixes the mode of the run, on which nothing depends before);
`HourlyRun`, `DailyRun` and `BackfillReads` begin the three kinds of run with the
row as it was read, `ReplaceRules` is the transaction that follows the answer of
the language model (any set of patterns, a broken one among them), `ApplyStarts`
and `ApplyBatch` rename events batch by batch, `BackfillWrites` names those without
a name. `Crash` ends a run anywhere and frees the lock, as the session of a dead
worker does. A request reads project and rules (`ParseRequest`), stores an event
(`StoreEvent`) and notes the first-event time (`NoteFirst`): three steps, each
committed by itself. `Reset` is the administrator's: it reads the clock and then waits
for the row (`page_naming.py:223`), so its time is any time up to its commit, and a
version may be made in between. `LoadProject` and `FullSave` are a rename or a new API
key, which save all columns of the project as they were loaded, the naming columns
among them (`views.py:2263`, `models.py:292`): a reset in between is undone. History
variables record since when the events are renamed (`applied`), which ones were stored
under rules that had been replaced (`behind`), and whether the row has been written
back to what it was before the last reset (`reverted`), where `BootstrapRestarts` and
`ResetHolds` end.

### PageFacts and PageSummaries

`Ingest` stores an event at any time, also late, but no session spans more than
`MaxDuration`, which the resolver sees to (`session_resolver.py:43`); `Segment`, `Judge`
and `Commit` are a rebuild, split before each statement that reads events; `job` is what
the transaction has written, and only `Commit` shows it. `Wait` lets time pass, which
completes sessions. The operators between follow the SQL: `VisitsOf` cuts visits by
session, URL, rule and pause, `LowConfidence` is the judgement of a whole session, read
from a window widened by a day, `TransitionsIn` joins neighbouring visits, `PageDaily`
and its siblings are the daily tables. `settled` (history) are the days rebuilt from the
events as they are.

`PageSummaries` defines every figure once for all companies and once for a cohort,
as the queries are written: from the page table or from the company table. It has
no state; its properties quantify over all periods, levels and cohorts in every
reachable state of `PageFacts`.

### CompanyHealth and CompanyDetails

`FactsRebuilt` and `Midnight` are the surroundings. `RebuildCaches` (with or
without the lock) and `BuildOnDemand` start a report; `Headline` reads the numbers
of the period, `LoadFacts` makes or reuses the bulk read of the trend, `Fill` adds
days until both windows are whole, `Slide` moves them by a day and appends a point,
`ChartPrevious` and `EndRange` go on to the previous period and the next range.
`AdjustCount` cuts off at zero as the code does. `outdated` (history): the facts
changed since the build began, so reads of different versions may disagree.

`CompanyDetails` has the series and the totals next to which they are shown, as
functions of the facts.

### ReplayStream and ReplayPlayer

`stored` are the events a query sees, `arriving` those that have an id and are not
committed: PostgreSQL gives ids before the commit. `Bootstrap`, `NextChunk` and
`SeekAnswer` are the three builders; `Taken` is how many candidates fit the limits
of events, bytes and time, `ChunkPayload` the answer with base URLs and tab
switches, `Cursor` what the server needs to continue. They are evaluated when the
answer arrives, over what is stored then: a request that read earlier is one
whose events arrive later.

`page` is the controller with its player and the page's tab switches. The methods
are operators from page to page (`SettleBoundaryWait`, `CompletePendingSeekIfReady`,
`EnsurePump`, `Pump`), since they call each other; an action is what runs between
two returns to the browser's event loop: a click (`Play`, `Pause`, `Seek`, `Retry`),
a report of the player (`ObserveTime`, `Finish`), an answer (`ChunkArrives`,
`SeekAnswered`), its failure, and the continuation of a pump after it has yielded
(`AddMore`). Abandoned requests stay in `pumps` and `seeks` with their generation
and may still be answered. `frozen` and `cut` are history.

### WorkspaceMembers, WorkspaceProjects and CompanySegments

One specification in three modules. `request` holds the slots of requests in
progress: `AskAdd`, `AskRole`, `AskRename` and so on are the view, which checks
who asks and reads rows without a lock; `AddMember`, `ChangeRole`, `SaveName` and
so on are the transaction that follows, with the checks it repeats. Changes that
read and write in one transaction (`SaveDefinitions`, `SaveValues`,
`DeleteSegment`, the actions of the admin) are one action and only counted
(`AtOnce`); a request that is abandoned between two steps is `Fail`. Two fields of
a request are history: `as`, what gave the actor the right, and `seen`, the
target's role at that time.

A workspace or project is absent, active, archived, expired or purged;
`ExpireProject` and `ExpireWorkspace` are the thirty days. `FullSave` is
`Project.save()` without `update_fields`, which writes the columns as they were
read. A purge is one transaction, visible at its end: `PurgeSelect` and
`PurgeSelectWorkspaces` are its two lists, `PurgeLook` the query for projects of one
workspace, `PurgeCollect` what `workspace.delete()` then finds in it, `PurgeDelete` the
commit. A project that comes into a deleted workspace later still makes the foreign key
refuse all of it (`PurgeFails`). What refers to a purged project goes with it
(`Cascade`). `came` and `late` are history of a purge.

A *term* is what a condition can name, an option of a select or an attribute of another
type as a whole; an attribute is the set of its terms, and a segment's definition the
set of terms it names. `SaveDefinitions` flags, deletes attributes and options, adds and
counts the revision at once: it holds the project's row `FOR UPDATE`
(`company_attributes.py:548`), for which the insertion of a segment, whose foreign key
takes a key share of that row, has to wait. `StoreSegment` or `StoreDefinition`
and `ClearReview` are an owner's save and the clearing after it. `OpenPage`,
`ReadCachedAttributes` or `ReadAttributes`, and `ReadSegment` are what a page
reads, in the order of its view; `Scope` is what it makes of the URL and the rows,
`RedirectCanonical` and `RedirectRestored` the redirects, `Render` the answer, with
what is remembered of it. History: `quiet` (no write has overlapped the request),
`known` (the terms that had been given when the page was opened),
`unsettled` (a deletion overlapped the last save of the segment, or it broke off)
and `reverted` (a full save has taken the revision back).

## 3. The runs

| Run | Instance | Checks | Distinct states |
|---|---|---|---|
| `visits` | 3 visits, times 0, 1, 3, 4, 6, 14; timeout 3, maximum 5, window 10; retention cutoffs 6 and 15, batches of 1 | disjointness, one open visit, activity inside, window complete, spans only grow, the visitor's span, only expired deleted | 420,066 |
| `identity_fragments` | 2 events in progress, 3 fragments, 2 identities, times 0-3 | disjoint, events keep their fragment, closed with the visit, inside it | 349,907 |
| `filtered_overview` | 1 request, 1 task, 1 retry, 1 edit, 1 rebuild, 1 full save at a time, 2 days, 1 failure; both kinds of variant | row not a mixture, published current, refinement, convergence, for pages also behind the answers | 640,665 |
| `companies_refresh` | 1 task, 1 rebuild, no edit | finding 1 (violation) | |
| `analytics_queue` | 2 pages, 2 ids, 1 click, 2 moves; the storage may fill, nobody leaves | nothing lost, newest move kept | 2,661,998 |
| `analytics_queue_live` | 2 pages, 2 ids, 2 clicks, one refused, 1 page left or killed | sent once, everything arrives | 661,181 |
| `dropped_in_flight` | 1 page, 2 clicks, no crash, 1 closing | finding 2 (violation) | |
| `page_naming` | 2 workers, 1 request, 1 URL, 1 event, 2 rule sets, 1 reset, 1 full save, times 0-2 | names current, bootstrap restarts, reset holds | 4,078,015 |
| `page_facts` | 3 sessions of 2 visitors around two midnights, 3 events of 2 types, 4 pages with 2 rules of one name, windows of the first two days or both | facts independent of windows, tables agree, transitions sound, reports agree with themselves | 139,031 |
| `company_health` | 2 companies, 2 users, 2 areas, up to 4 facts, ranges of 1 and 3 days, 2 dates | windows exact, trend is the reports, series end at the figures | 1,267,164 |
| `company_segments` | 1 workspace, 1 project, 1 segment, 2 attributes, 2 members and a superuser, 2 requests at a time, 3 in all | an owner remains, ownership by right, purges only expired, flags truthful, whole answers, redirects settle | 1,319,912 |
| `replay` | 2 recordings of 8 and 6 events with 2 tabs; answers of at most 3 events and 4 bytes, batches of 2; 2 seeks, 1 late event | holds the recording, tab follows, pause holds, seeks complete, never stuck | 104,637 |

Why the bounds are enough to be of use:

- *Visits.* Three visits are a neighbour on both sides; the times cover the
  inside of a visit, its ends, the gap less and more than a timeout, the maximum
  duration, and a point beyond the late window. The cutoffs meet open, closed and
  moved visits, and the first leaves live ones beyond it, one of which may come while
  a visitor is being deleted. Bounds are only the finite sets of times and ids.
- *Fragments.* Three fragments allow a split of a split and an insertion between
  two; two events meet in every order. `MaxStored` bounds the stored events
  that are followed, not those that can be placed.
- *Overview.* A build straddles an edit and a rebuild in every order, with a lost
  message, callback or task; a task and a rebuild compete for the lock, one retry
  reaches the drop. Full saves are not counted: one may be made after the other, over
  the edit and the rebuild or within them. Rows of one variant do not meet those of
  another except through the revisions, which are modelled. The proofs cover every
  number of requests, tasks, edits, rebuilds and saves.
- *Queue.* Two pages in any two ids are a page and its duplicate, or a page and
  the orphan of another, and every race is one of two pages. One click and two moves
  are a click that is lost and a move that gives way to an older one; two clicks, one
  of them refused, are those that must not block each other. Pages are left and killed
  in the live run, where the storage does not fill; the proofs have all of it together.
- *Naming.* Two rule sets are an old one and a new one, which a request or a
  second run may straddle; one event is enough, since events are renamed
  independently of each other; two ticks separate before and after a reset. One save of
  the whole project before, across or after the reset; crashes are not bounded.
- *Facts.* A session that crosses midnight, two sessions of one visitor that overlap, an
  anonymous one that may be a bounce; every order of rebuilds of the first two days, and
  an event of the third that a rebuild reads without having to store its visit. A
  session of a visitor may reach from the first day into the third only through another
  one, since `MaxDuration` is a day. `Arrivals` names the events that may come; it
  leaves out those that only repeat a shape, to keep the enumeration of three events
  small.
- *Companies.* A range of 3 days has windows that fill and slide, and its trend
  compares 9 days; the fourth fact lets two days of two users coincide. Facts that
  change during a build are those of one day and user (`Changing`).
- *Segments.* Two requests at once are all pairs of a request and what disturbs it;
  the third is what came before, or a change that is made at once (`MaxRequests`).
  `MCStarts` begins with a workspace of an owner and an admin, or with none; `MCAsked`
  leaves out requests that repeat another with a different name: the segment is that
  of one user, who also opens the pages. Two attributes are one that is deleted and
  one that stays; one of them is a select that may lose an option and stay.
- *Replay.* Two seeks are an abandoned one and the one that abandons it; the
  targets are within and beyond what is loaded. In the first recording several
  events have the time at which an answer ends, the URL of a tab changes between
  answers and one tab opens another; in the second ids and times disagree, one
  event nearly fills an answer, and both tabs are used in the millisecond at which an
  answer ends.

Deadlock is not checked in `page_naming` and `company_segments`: clock, rule sets,
resets and saves of the one and requests of both are bounded, so that they come to an end.
Elsewhere some step, of the
environment at least, is always possible.

In every run of the live specifications symmetry is left out. Type invariants are
stated in the modules and proved where there are proofs (section 5); those of
`PageNaming` and `ReplayPlayer` hold in their instances too, that of the first is proved,
and both are left out of the configurations, which check what could be wrong.

## 4. Fairness

Safety runs assume none. The live specifications assume:

- `FilteredOverview!LiveSpec`: clients keep polling while an answer is pending
  (the endpoints answer 202 and the page polls); a worker that has a task
  takes its next step; a claim runs out (its cache timeout, 60 s); a transaction
  that is open commits or has failed; the callback of a commit runs unless
  its process has died (`LoseDeletion`). Edits, rebuilds, days and failures are
  not fair, and bounded: `Converges` speaks of the time after them. No strong
  fairness: a task that finds the lock held may retry and be dropped for ever as
  far as fairness goes; it converges since the holder finishes and the claims run
  out.
- `AnalyticsQueue!LiveSpec`: the flush timer of an open page fires (`setInterval`), a
  task that has begun ends (`Working`: its write, its sweep, its leaving), time passes
  (an unwritten snapshot becomes an orphan), each request is answered or fails, a
  visitor with no page open comes back. Strong fairness of `Accepted`: a server that is
  asked again and again, between failures, does not fail every time. It says nothing for
  a batch with a refused click, for which `Accepted` is never enabled.

- `ReplayPlayer!FairSpec`: each request is answered or fails (the browser gives up
  on it or the page goes), a pump goes on after it has yielded (`setTimeout`), a
  player that plays goes on (rrweb's animation frames). What the viewer does is
  never due, and an error is an end: `NeverStuck` does not promise that the server
  answers well.

The queue and the player share one assumption the code does not enforce: a request
has no timeout of its own (`analytics.js:898`), so one that hangs for ever stops
the sweep, or the pump, of its page.

## 5. The proofs

All proofs hold for every value of the constants that satisfies the assumptions
stated in the modules.

| Module | Theorems |
|---|---|
| `VisitRetentionProofs` | of the resolver alone `ResolverInvariant`, `TypeCorrect`, `VisitsStayDisjoint`, `OneOpenVisit`, `ActivityStaysInside`, `LoadedRowsSuffice`, `SpansOnlyGrow`; beside the job `RetentionInvariant`, `RetentionTyped`, `DisjointWhilePruning`, `OneOpenWhilePruning`, `VisitorsSpanTheirVisits`, `OnlyExpiredDeleted` |
| `IdentityFragmentsProofs` | `FragmentsInvariant`, `FragmentsTypeCorrect`, `FragmentsStayDisjoint`, `EventsKeepFragments`, `ClosedVisitsAreDone`, `ActivityStaysInsideVisit` |
| `BrowserAnswersProofs` | of a filtered variant `OverviewInvariant`, `OverviewTypeCorrect`, `RowAlwaysTruthful`, `PublishesOnlyCurrent`, `AnswersAreCurrentAlways`; of a replay `PlayerStaysSound`, `RecordingStaysHeld`, `PausesHold`, `TabStaysFollowed`, `SeeksEndComplete` |
| `AnalyticsQueueProofs` | `QueueInvariant`, `QueueTypeCorrect`, `NothingEverLost`, `NewestMoveNeverLost`, `ClicksSentOnce` |
| `PageNamingProofs` | `PageNamingInvariant`, `NamingTyped`, `NamesStayCurrent`, `BootstrapStartsAgain`, `ResetsHold` |
| `PageFactsProofs` | `FactsStaySound`, `TransitionsStaySound`, `AnonymousStay`, `FactsStayFresh`, `WindowsStayAlike`, `TablesStayTold`, `DaysStayAlike`, `ActionsStayTold`, `ClicksStayCounted`, `TablesTellOneStory`, `TablesStayMade`, `ReportsStayAlike` |
| `CompanyHealthProofs` | `HealthTyped`, `WindowsStayExact`, `TrendIsTheReports`, `TrendsMeetFigures` |
| `CompanySegmentsProofs` | `OwnersRemain`, `OwnersByRight`, `PurgesKeepTheRest`, `FlagsTruthful`, `AnswersWhole`, `RedirectsEnd` |

*Resolver.* Disjointness is not inductive. A visitor whose open visit the
retention job has deleted may keep closed ones; a batch far before those does not
load them and starts an open visit, so the open visit need not be the last one.
`Separated` says what is true: closed
visits end before the next starts, and an open visit that is not the last is so
far before the next that growth within its maximum duration cannot reach it,
nor can the next one be moved back to it. `Sound` adds one open visit and
activity inside, for the table and for what the transaction sees (`View`).
`WindowComplete` is the bridge between the two: what is not loaded is closed and
more than a late window away, hence, by the assumption on the settings, out of
reach of every point of the batch. `IInv` is these with the types and
`BatchOrdered`. Each outcome of a point has a lemma. The retention job only
removes rows, and `IInv` is closed under removal: that is the proof of the first
four theorems about the job, and the reason why the invariant must not
mention the last visit being open. What the job promises itself needs `JobInv`. A
visitor's span covers its visits only because the rows that a batch has changed but
not committed lie within its points or within that span (`WorkSpanned`), by which the
visitor is widened when it commits. The ids that the job has read are of visits that
are there and expired still (`BatchExpired`): nobody else deletes, and a start only
moves back, whatever else the resolver does to them before the deletion. Until the
second query of a visitor's deletion every visit is one of the batch or new since the
first (`CollectedUnseen`), so that nothing else is collected.

*Fragments.* The strengthening is `InsideSpan`: a fragment's start and last
activity, and a resolved event, lie between the start and the last activity of
the visit, not merely before its end. The span of a visit only widens while its
end may move in either direction, which is why an event resolved earlier still
fits.

*Overview.* `BuildSound`: a build holds the lock, so facts stand still under it; the
versions its filtered revision stood for when it was read have been `given`, and its
values are between those and the current ones. What has been given only goes on
(`GivenSound`), so if the revision is unmoved at the publication and has one meaning, the
two ends are equal and one version remains. As long as no save has taken revisions back
they count the changes (`RevisionsCount`), so each has one meaning. `RequestSound`
compares a request that has passed the check with the row that is there later: until
such a save rows only get newer. Refinement follows step by step; every step but `Save`,
`FullSave`, `Ask`, `Look` and `Render` stutters.

*Queue.* `NothingLost` is nearly inductive: a snapshot is only ever merged, moved
or excused, and what is removed or replaced is what was read or is excused.
`NewestMoveKept` is not, because a merge keeps the move with the larger number
and drops the other. The strengthening counts by tab id. `MovesNumbered`: what is
stored, queued, read by a merge or by a claim under an id holds no move newer than the
newest of that id. `NewestMoveAtHome`: the newest is in one of those, and two
snapshots are only merged under one id, so the merge has to keep it: if it was in what the
merge has read or adds it is the larger number, and if it is in what is replaced unread
it is excused. `SentOnce` says that a click that nothing has doubled is at one place
(with the server, under one key, in one queue, one merge or one request). It is inductive
beside `CapturedFirst` - what has not been captured is nowhere, not even in what was read
- because every step moves a click from its place to one other: a merge writes back what
it has read only if that is still stored, or the click is `repeated`. `TasksSound` ties
the three stages of a task together: while a page has a merge under way its queue is
empty, unless it restores a claim, so a write that fails can put the events back.
`AllClicksKept`, `AllMovesKept` and `AllInOnePlace` say the same place by place, which is
what the steps are proved with (`Parts`); `PersistStep` covers every step that persists a
queue, `GoneStep` a page that is left or killed.

*Naming.* A run works on copies, and the invariant says which of them still count.
`Locked`: a run beyond its loading holds the advisory lock, so one run at most may
replace or apply rules. `Dated`: the last change of state in the row, and in a copy of
it that was read after the last reset, is no earlier than the time of the reset, unless
an older copy has been saved over it since; the copy that a rename is about to save is
one of them. `ResetHolds` follows by arithmetic on the two ages, and
`BootstrapRestarts` since only versions later than that change are counted.
`RequestsKnow`: a request whose rules have not been replaced since it read them holds
the active ones, but for rules that do not compile and name nothing. `RunsKnow`:
a run that applies rules or backfills, and that no reset has overtaken, holds them too;
and every event of the window of one that applies is named already or among the ids it
has still to write, those stored meanwhile included. With these `NamesCurrent`
is inductive: what a batch writes is what ingest would write by now.

*Facts.* Four invariants, one on top of the other. `FactsSound`: the visits in the
store and in a rebuild are of stored events, with the identity of their session, and
a rebuild differs from the store on its own days only; events that arrive between its
statements do not change that, they are more events. `FactsFresh`: on a settled day
the visits are those that all events give, `FactsOn`, which does not mention a window.
It rests on what the day read on each side of a window holds. Of a visit that starts
in the window it holds every event, since a session spans no more than `MaxDuration`
(`VisitsAlike`). Of a scope it may not: two sessions of a visitor, or one after
another, go on for days. But a scope decides something only if it is short, less than
`MaxSpan` (`MeaningfulOtherwise`); a short one around an event of the window lies within
the widened days with a timeout to spare on both sides (`Timeout + MaxSpan <= DayLength`),
so that a scope short in either reading is the same in the other (`ScopeInWindow`,
`ScopeOfWindow`). `TablesTold`: for every day, settled or not, the tables
are those of the stored visits, because both change in one commit. `ActionsTold` is the
same for the clicks, which are counted from the events and therefore only on settled
days. From these the properties follow by adding up: rows of disjoint groups of visits
add up to all of them (`PartsTotal`, `SumOfGroups`), every click falls into a visit of its
session (`VisitHolding`), and the visits of one scope are taken out together. Sums are
those of the library's folds, and each fact about them is proved for a smallest set for
which it would be wrong (`LeastSet`).

*Page reports.* The reports need one invariant more, `TablesMade`: the page, company and
user tables are exactly those of all stored visits, with no row left over from a window
made again. From it follows what the queries rely on without saying so (`TablesLinked`):
every company and every user that a filter lets through has a row beside it in the page
table, and a user's company one in the company table, so that a report row that is not
there leaves nobody out (`NothingShown`). `Figures` is then what a report row shows whether
it is there or not. *Series:* picked rows of a period, cut at a day, are the picked rows of
the shorter period (`PickedUpTo`); the first days of identities partition those seen so far
(`RunningNames`), and the users of the denominator count from the day on which the row has
a company of theirs and they have been seen (`ReachedBy`). *Filters:* both tables group
disjoint visits and hold their measures (`Stands`), and the visits behind the rows of all
companies are among those behind the unfiltered rows (`CompaniesWithin`), though these come
from another table. *Adoption:* a day's actives are those of the project's row by
`DaysAgree`; the counts stored with a page are of one row (`StoredWithin`). *Flows:* a
transition between two pages does not both leave and enter one of them (`FlowsRead`), and
no URL is the key of a rule (`KeyOfRule`), which `SummariesAssumption` takes from the keys
the query makes, a number or a URL (`queries.py:2551`); the assumption says besides that the
company of a session is one of `Companies` or none, and that no set of companies is the
sign for no filter.

*Companies.* The invariant says where a walk is, and that what it has counted so
far is exact. `Positions` ties the bounds of the windows to the period that is
charted and the days that are loaded; `WindowsExact` says each counter is the
number of days, or of facts, of its window; `Fresh` that the loaded facts are the
current ones on the days needed, unless outdated; `Charted` and `Resting` what is
there between two walks; `TrendAgrees` is then added to for each point. A day that
enters raises a counter by one exactly if a fact is on it (`DayEnters`), a day that
leaves lowers it (`DayLeaves`), and it was counted, so that nothing is cut off at
zero (`DayCounted`). `RowExact` and `StaleExact` turn exact counters into the status
a report would compute, `PointExact` into a point; `PointAppended` serves `Fill` and
`Slide` both. The assumption is only that periods are not empty: the trend is right
for every threshold. `TrendsEndAtFigures` needs only the types and is about sums over
days, which have no induction here; each is proved from the least day on which it
would be wrong (`LeastDay`). The first days of companies, or users, partition those
active in a period, so that the counts of the days add up to the number of them
(`SumOfNumbers`); a user new and one back on the same days are told apart as the totals
tell them. A prefix sum counts the facts up to a day (`PrefixCounts`), a difference of
two the facts between, and `UserHistoryStart` reaches back to the base period of the
first day charted, so that no difference lacks a term (`RiskTrendExact`).

*Segments.* `FlagInv` is about ids and requests. An id is given once, so that what is
missing from a definition has been deleted (`spent`), and an attribute that has no term
left never has one again; a request that no deletion has overlapped (`quiet`) knows a
definition whose attributes are all there; and a flag that is set with nothing missing
has a request that is going to clear it. `PagesInvariant` is about what is read: no
cached revision is newer than the project's unless a full save took that back, what is
cached under the current one is what the project has, and what a quiet page has read is
what is there. `KnownInv` says of any page, quiet or not, that an attribute given before
it was opened and not deleted since is among what it has read or will find cached: a
revision that is current when the page is opened was cached after all the deletions
before it. So a definition read after the attributes, and not under review, misses none
of them. `PurgeSound` carries what a purge has found through its queries: what it has
collected was expired, listed, or came after its look. `HopsSound` counts redirects: the
URL a redirect leads to is `Straight`, what the canonical redirect would make of it, and
the second one states its conditions, so that there is no third. Membership needs that
an actor was let through as owner or superuser (`as`) and nothing about who is owner
later, since removal and change of role count again under the lock.

*Replay.* `PlayerSound` follows the protocol from the stored events to what the page
holds. Of the store it needs that all events are of one recording, in which ids tell
events apart (`StreamAssumption`: recordings are finite, as rows of a table are); every
answer is then a `Run`, the first events of its candidates in order, each resolved against
the URL its tab had there (`PayloadIs`, `ChunkIs`, `BootstrapIs`, `SeekIs`). That the URL is
right across answers is a fact about what the server looks up before the first event
(`BaseIs`, `SeekContext`). Of the page, `Sound` says that what is held is a stretch of the
recording as it was opened: every event between the first of the segment and any one held
is held (`HoldsSound`); the cursor stands after one of them (`CursorSound`); the pumps of
abandoned generations count for nothing, the current one goes on from the page's cursor
with a chunk for it, of which what has been added is held (`PumpsSound`); at most one
request is the current seek's, and while there is one no pump is current (`SeeksSound`);
and unless a seek has cut a chunk off, what is held is in order, each event once, and ends
where the chunk or the cursor goes on (`OrderSound`). Without the last part a chunk
might be added where it does not follow. Each method is followed through the ones it
calls by what it leaves alone (`Same`, `Pumps`, `Starts`), so that an action is proved from
the few that change something: a chunk that grows (`Added`), a turn of the pump
(`Turned`), a new player (`Renewed`), a page that opens (`Opened`). `PlaySound` is
`PauseHolds` with what it rests on: a player that plays does not wait at the end of what it
holds, or the end of the wait would start it again.

`TabFollows` needs `TabsSound` on top of it. A page starts with a tab in use, or none, and
from then on the switches it was told are exactly the uses that change the tab, in
order; a chunk that is being added has told all of its switches already, and the cursor
carries the tab of the last use (`TabsKnown`). What an answer tells then joins what was
told before (`TurnsJoin`, `TellsJoin`), and the last switch passed names the tab used last
(`KnownFollows`). The property speaks of what the page was told, not only of what is held:
two tabs may be used in one millisecond that a batch of a chunk divides, and
`updateCurrentTabForTime` goes by time, so that it shows the later of the two while only
the first is held. It was stated of what is held before a proof was tried.

`SeekEndsComplete` needs `EndsAreSound` on top of `PlayerSound`. Until the server has
answered, the seek that waits has the target of the current request; from then on it has
the time it leads to, the cursor carries that time, and a seek known to be ready holds
the segment up to it (`PendingSound`). An answer without a cursor leaves nothing of the
recording out, and one that says whether it reaches the target knows it of the event its
cursor stands after (`ChunkEnds`), which is what `_target_boundary_ready` looks up. A seek
ends without an error in two steps, its own answer (`Replaced`) and the end of a chunk
whose answer reached the target (`ChunkAdded`); any other step keeps it waiting, fails it
or starts another one. That a model value for "none" is no cursor and no pending seek is part
of `StreamAssumption` and `PlayerAssumption`, as `null` is neither in the code.

*Model-checked only:* liveness (`Converges`, `EverythingArrives`, `NeverStuck`), which needs
fairness and ENABLED and is out of the prover's reach. Sums need no induction over data,
whose theorems take an operator as a parameter: they are proved from a smallest
counterexample instead.

## 6. Findings

1. **A companies or users variant is never refreshed behind its answers**
   (`companies_refresh`). `build_companies_overview_cache` and
   `build_users_overview_cache` report `cache_hit` for any row of the current
   schema (`company_analytics.py:1415`, `user_analytics.py:1815`). The rebuild
   that `variant_needs_refresh` asks for never replaces the row, against
   `filtered_overview.py:150-152`. The answers stay those of one version of the
   attribute values (`filtered_overview`); the facts behind them grow old until
   an edit, or the rebuild after a change of day, deletes the row.
2. **Events under way go with their page** (`dropped_in_flight`). The snapshot is
   removed before the request and the request has no keepalive
   (`analytics.js:872`, `930`); leaving the page in between loses the events,
   silently, which the comment at `analytics.js:18-19` wants designed out.

Met while reading or while a property was refined; the properties excuse them where
they are in a model:

- *Retention.* `orphan_visitors.delete()` (`visits_retention.py:95`) reads the visitors
  without visits, then the visits that refer to them, and deletes both. A visit that the
  resolver commits between the two reads goes too, with its events, though it has just
  begun (`unseen` in `DeletesOnlyExpired`); one committed later is kept by the foreign
  key, which makes the job fail.
- *Overview.* A rename of the project writes the revisions back that it had loaded
  (`models.py:292`). The next edit gives a revision a second time: a build that read it
  before publishes a mixture or an outdated row, and readers take rows of the older
  values for usable until the day changes (`Reliable`, `confused`).
- *Overview.* The users page reads its row twice (`views.py:916`, `926`): its table may be
  of later values than the page around it, and it is empty when the row was deleted in
  between.
- *Queue.* A merge reads localStorage and writes it without a lock (`analytics.js:826`,
  `829`), like a claim (860, 872). Two pages of one tab id, or a page and one that sweeps
  its orphaned snapshot, in processes of their own, may write over what the other has
  stored in between, or write back, and so send twice, what the other has claimed
  (`excused`, `repeated`).
- *Replay.* A seek abandons a chunk after some of its batches and all of its tab
  switches were added (`replay-stream.js:442`, `735`). If the player stays, because
  the seek failed or a second one went back to what is loaded, its cursor still
  stands before that chunk and all of it is added again (`cut` in `HoldsTheRecording`
  and `TabFollows`).
- *Replay.* After a seek to a snapshot that precedes every use of a tab, the initial
  tab is that of the snapshot and no switch is sent for the first use of another one
  (`replay_streaming.py:944`), so the wrong tab is shown until the next switch.
- *Replay.* "Freezes a recording at bootstrap time" (`replay_streaming.py:4`) holds
  for ids, not for commits: an event with a lower id committed later is
  delivered if it lies ahead of the position and never if behind.
- *Replay.* A local seek after a failed remote one leaves the error shown, and retry
  goes to the target that failed, not to where the viewer went
  (`replay-stream.js:651`).
- *Facts.* The transition that crosses midnight is deleted by a rebuild of either day
  and made again only by one of both days (`queries.py:696`); `TransitionsSound` asks
  only for those within a day.
- *Facts.* A rebuild reads one day more on each side of its window
  (`services.py:704-812`). That a visit is whole in it is due to the maximum duration of
  a session, 12 hours, which is a setting of its own: with more than a day, visits of the
  window would be cut, or begun, where the widened days end. `MaxDuration <= DayLength`
  in `PageFactsAssumption` is what the proof needed; nothing in the code compares them.
- *Facts.* In the filtered form of the top actions (`TOP_ACTIONS_FILTERED_SQL`) all
  pages without a rule share one identity.
- *Companies.* The previous count of users at risk is taken over the users of the risk
  window, which for a range of 180 days is not the previous period.
- *Companies.* The command `rebuild_analytics_cache` shares reads between ranges
  without the rebuild lock; what it writes may be of two versions of the facts.
- *Naming.* `refresh_page_group_short_labels` applies rules without the naming lock.
- *Naming.* A rename of the project that began before a reset takes the reset back: the
  row has its old state and times again, while rules and names are gone (`reverted`).
  A version made between the clock of a reset and its commit counts for the bootstrap
  that the reset begins (`page_naming.py:223`).
- *Segments.* An edit validated before an attribute is deleted may be saved after the
  segments were flagged (`company_segments.py:293`): the segment names the deleted
  attribute without being up for review, and a page applies the rest of it
  (`unsettled` in `FlagTruthful` and `WholeAnswers`).
- *Segments.* Deleting an option of a select (`company_attributes.py:505`) flags no
  segment, and a condition of which no option is left is dropped
  (`company_attribute_filters.py:1005`): a page applies the rest under the segment's
  name. The comment of the flagging (`company_attributes.py:593`) says that a
  half-empty definition is never applied silently; for deleted attributes that holds.
- *Segments.* Companies, Users and Visits read the segment before the attributes; a
  deletion between the two is applied to a definition that is not up for review. Only
  for the Pages overview, which reads the segment last, does `WholeAnswers` speak of
  pages that a write overlaps.
- *Segments.* The canonical redirect also takes the page number from the URL
  (`company_attribute_filters.py:842`); of page parameters there is only whether the
  URL states any.
- *Projects.* `Project.save()` without `update_fields` writes the revision it has read:
  attributes cached under the higher one are then taken for current again
  (`reverted` in `WholeAnswers`). It also inserts a project that a purge has deleted.
- *Purge.* `purge_archived_entities` (`apps/projects/services.py:149`) reads the expired
  rows and deletes them by key later: one restored in between is deleted. A project that
  comes into an expired workspace between the query that finds none in it
  (`services.py:166`) and the deletion that collects what belongs to it (168) goes with
  it. `PurgesOnlyExpired` allows these two and nothing else.
- *Fragments.* "Contiguous" (`analytics_tracker.py:231`) is said of the fragments of a
  visit; one that was closed with its visit keeps its end when late activity moves the
  visit's end, and the time between belongs to none.
- `bump_filtered_analytics_revision` (`services.py:91`),
  `Session.check_and_close_if_expired` and `access.remove_workspace_membership` have
  no callers; `sendBeacon` in `analytics.js` is never used, since the only caller
  passes `false`.

## 7. What is not modelled

- In the reports: top actions with their selectors, treemap, Sankey and scatter
  charts, product-area pages, benchmarks, health mix, expansion opportunities, the
  payloads of detail pages and their cache rows, and all user reports; these
  are arithmetic of rows that `PageFacts` and `CompanyHealth` produce. Rendering,
  filters of tables and sorting.
- In the replay: signing of cursors, rows that are not rrweb events, Metas without a
  viewport, the legacy payload and servers that do not know seek cursors, the
  analytical timeline, leaving the page.
- The language model and the patterns of masking: external or data.
- Recording in the browser, masking, scope flags: the plan below. Installation setup and
  AI credentials: one guarded transaction each, nothing to interleave. Deployment,
  settings, demo data.
- In the modelled parts: the content of events; clocks of different machines (event
  times are any times); isolation anomalies below row locks (PostgreSQL's READ COMMITTED
  is modelled as statements that see what is committed before them); the listing of the
  stored snapshots at the start of a sweep is one step, and localStorage is one map that
  every page sees at once; the foreign key between a deletion by retention and a
  fragment inserted at that moment.

## 8. Plan

The order is by what a failure would cost and by how little tests reach it.

Done: `VisitSessions` and `VisitRetention`, `FilteredOverview` over `FilteredAnswers`
with the refinement proved, `IdentityFragments`, `AnalyticsQueue`, `PageNaming`,
`PageFacts` with `PageSummaries`, `CompanyHealth` with `CompanyDetails`, `ReplayStream`
with `ReplayPlayer`, `CompanySegments` over `WorkspaceProjects` and `WorkspaceMembers`.

Left:

1. `RecordingQueue` and `TabIds`: pending batches with their limit of ten, unload,
   and the handshake over BroadcastChannel with its two timers. An abstract
   "ids of open tabs differ" to be refined or refuted.
2. `VisitScope`: flags and intervals beside ingest and reconciliation; abstract
   specification: the flags computed from the events at every instant,
   implemented once a reconciliation has ended.
3. `FieldMasks`: the mask of a field under overlapping requests.
4. User reports and the rest of the page reports, over `PageFacts`.
5. An abstract `Playback` (what a viewer is shown as a function of the recording and
   the time), with `ReplayPlayer` as its implementation.
6. Composition: the scope flags and fragments over the actual resolver
   (`VisitSessions`) instead of its over-approximation, on small instances.
