----------------------------- MODULE PageNaming -----------------------------
(***************************************************************************)
(* How the pages of a project get their names (tracker/page_naming.py,     *)
(* tracker/tasks.py, the naming part of tracker/analytics_tracker.py).     *)
(*                                                                         *)
(* Periodic runs ask a language model for rules that map URLs to pages,    *)
(* replace the active rules and rename the recent events.  A run holds a   *)
(* lock of the project, but works on the row of the project it read before *)
(* it asked for the lock.  Requests name the events they store with the    *)
(* rules they read when they began, a reset by an administrator waits for  *)
(* nobody, and a new name or key of the project is saved with all columns. *)
(*                                                                         *)
(* The model has one project, that captures analytics, and one event in a  *)
(* request.  A rule matches one URL or does not compile; all have the same *)
(* priority.                                                               *)
(***************************************************************************)
EXTENDS Integers, FiniteSets, Sequences, FiniteSetsExt

CONSTANTS
    Workers,     \* processes that run the periodic tasks
    Requests,    \* ingest requests under way at a time
    Urls,
    Broken,      \* a pattern that does not compile
    None,        \* no rule, no time, no worker
    Short, Long, Comparison,  \* the windows new URLs are counted in
    Rewrite,     \* how far back an hourly run renames events
    Input,       \* how far back a daily run reads and renames events
    Soft, Hard,  \* the ages at which a quiet project becomes stable
    MinUrls,     \* the URLs that takes at the soft age
    StableAt, UnstableAt,     \* new URLs of a day, in percent of the days before
    Target,      \* the bootstrap runs after a state change
    \* bounds of the model
    MaxTime, MaxEvents, MaxRuleSets, MaxResets, MaxSaves,
    MaxPatterns  \* in a rule set

ASSUME NamingAssumption ==
    /\ {Short, Long, Comparison, Rewrite, Input, Soft, Hard} \subseteq Nat
    /\ {MinUrls, StableAt, UnstableAt, Target} \subseteq Nat
    /\ {MaxTime, MaxEvents, MaxRuleSets, MaxResets, MaxSaves, MaxPatterns}
         \subseteq Nat
    /\ Broken \notin Urls /\ None \notin Urls \union Workers \union Nat

VARIABLES
    now,
    project,   \* the row of the project
    rules,     \* its active rules
    events,    \* the events stored so far
    versions,  \* ProjectPageRuleVersion of bootstrap runs
    lock,      \* the advisory lock
    run,       \* run_page_naming_for_project in a worker
    request,   \* AnalyticsRequestProcessor of a request
    saving,    \* the project as a request has loaded it that will save all of it
    \* history
    ruleSets,  \* rule sets created so far
    saves,     \* requests so far that save all of the project
    resets,    \* resets so far, and the time the last one was given
    reverted,  \* the row has been written back as it was before that reset
    applied,   \* since when events have been renamed by the active rules, or None
    behind     \* events stored under rules replaced since their request began

history == <<ruleSets, saves, resets, reverted, applied, behind>>

vars == <<now, project, rules, events, versions, lock, run, request, saving, history>>

Times == 0 .. MaxTime

Rules == [set: 1 .. MaxRuleSets, pattern: Urls \union {Broken}]

Project == [state: {"not_stable", "stable"}, changed: Times \union {None},
            first: Times \union {None}]

NewProject == [state |-> "not_stable", changed |-> None, first |-> None]

Event == [url: Urls, at: Times, rule: Rules \union {None}]

Resets == [count: 0 .. MaxResets, at: Times \union {None}]

Modes == {"hourly_unstable", "daily_stable", "hourly_title_backfill"}

\* seen, read: the resets there had been when the row of the project, and the
\* rules, were read.
Run == [phase: {"loaded", "locked", "asking", "replaced", "applying", "backfilling"},
        mode: Modes, project: Project, seen: 0 .. MaxResets, naming: {"bootstrap", "incremental"},
        now: Times, rules: SUBSET Rules, todo: SUBSET (1 .. MaxEvents),
        read: 0 .. MaxResets]

Saving == [project: Project, seen: 0 .. MaxResets]

Request == [first: Times \union {None}, rules: SUBSET Rules, at: Times \union {None},
            sets: 0 .. MaxRuleSets, seen: 0 .. MaxResets]

\* The types; and the active rules are those of the last rule set.
TypeOK ==
    /\ now \in Times /\ project \in Project
    /\ rules \subseteq Rules /\ \A r \in rules : r.set = ruleSets
    /\ events \in Seq(Event) /\ Len(events) <= MaxEvents
    /\ versions \subseteq [set: 0 .. MaxRuleSets, at: Times]
    /\ lock \in Workers \union {None}
    /\ run \in [Workers -> Run \union {None}] /\ request \in [Requests -> Request \union {None}]
    /\ saving \in Saving \union {None} /\ reverted \in BOOLEAN
    /\ \A w \in Workers : run[w] # None => run[w].todo \subseteq DOMAIN events
    /\ ruleSets \in 0 .. MaxRuleSets /\ saves \in 0 .. MaxSaves /\ resets \in Resets
    /\ applied \in Int \union {None} /\ behind \subseteq DOMAIN events

Init ==
    /\ now = 0 /\ rules = {} /\ events = <<>> /\ versions = {} /\ lock = None
    /\ project = NewProject
    /\ run = [w \in Workers |-> None] /\ request = [q \in Requests |-> None]
    /\ saving = None /\ saves = 0 /\ reverted = FALSE
    /\ ruleSets = 0 /\ resets = [count |-> 0, at |-> None]
    /\ applied = 0 /\ behind = {}

Tick == now < MaxTime /\ now' = now + 1
    /\ UNCHANGED <<project, rules, events, versions, lock, run, request, saving, history>>

-----------------------------------------------------------------------------
(* Rules.                                                                  *)

Compiled(rs) == {r \in rs : r.pattern # Broken}

\* The rows compile_page_rules leaves active when it is given rs.
StillActive(rs) == rules \ (rs \ Compiled(rs))

\* resolve_page_rule_match, the rules in the order of their ids.
Match(url, rs) ==
    LET matching == {r \in Compiled(rs) : r.pattern = url}
    IN IF matching = {} THEN None ELSE CHOOSE r \in matching : \A s \in matching : r.set <= s.set

NeedRefresh(urls, rs) == \E u \in urls : Match(u, rs) = None

-----------------------------------------------------------------------------
(* What a run reads of the events.                                         *)

EventsIn(from, to) == {i \in DOMAIN events : from <= events[i].at /\ events[i].at < to}

UrlsIn(from, to) == {events[i].url : i \in EventsIn(from, to)}

FirstEvent ==
    IF events = <<>> THEN None ELSE Min({events[i].at : i \in DOMAIN events})

NewUrls(window, t) ==
    UrlsIn(t - window, t) \ UrlsIn(t - window - Comparison, t - window)

\* Whether new_urls_24h exceeds a percentage.
ChurnAbove(percentage, t) ==
    100 * Cardinality(NewUrls(Long, t))
        > percentage * Max({1, Cardinality(UrlsIn(t - Long - Comparison, t - Long))})

\* The first event a run knows of: what its copy of the project says, or the events.
FirstFor(p) == IF p.first # None THEN p.first ELSE FirstEvent

\* ensure_project_first_event_at, which compares with the copy and writes the row.
EnsureFirst(row, known, t) ==
    IF t # None /\ (known = None \/ t < known) THEN [row EXCEPT !.first = t] ELSE row

ReadyToBeStable(first, t) ==
    /\ first # None /\ ~ChurnAbove(StableAt, t)
    /\ \/ t - first > Hard
       \/ t - first > Soft /\ Cardinality(UrlsIn(0, MaxTime + 1)) >= MinUrls

\* set_project_page_naming_state, which compares with the copy and writes the row.
SetState(row, copy, state) ==
    IF copy.state = state THEN row ELSE [row EXCEPT !.state = state, !.changed = now]

\* Mutant of BootstrapVersions: the version of the tick of the reset counts.
BootstrapVersionsFrom(p) == {v \in versions : p.changed # None => v.at >= p.changed}

BootstrapVersions(p) == {v \in versions : p.changed # None => v.at > p.changed}

Naming(p) ==
    IF p.state = "not_stable" /\ Cardinality(BootstrapVersions(p)) < Target
    THEN "bootstrap" ELSE "incremental"

-----------------------------------------------------------------------------
(* Runs.                                                                   *)

\* Of a project without a run.  The mode, on which nothing depends before, is chosen
\* with the lock.
Load(w) ==
    /\ run[w] = None
    /\ run' = [run EXCEPT ![w] = [phase |-> "loaded", mode |-> "hourly_unstable",
                                  project |-> project, seen |-> resets.count,
                                  naming |-> "incremental", now |-> 0,
                                  rules |-> {}, todo |-> {}, read |-> 0]]
    /\ UNCHANGED <<now, project, rules, events, versions, lock, request, saving, history>>

In(w, phase) == run[w] # None /\ run[w].phase = phase

\* Mutant of TryLock: the run goes on without the lock.
TryLockAnyway(w) ==
    /\ In(w, "loaded") /\ lock' = w
    /\ \E mode \in Modes :
         run' = [run EXCEPT ![w].phase = "locked", ![w].mode = mode, ![w].now = now]
    /\ UNCHANGED <<now, project, rules, events, versions, request, saving, history>>

\* In any mode: the periodic tasks run the modes for the state they listed the project
\* in, the tasks for one project any of them.
TryLock(w) ==
    /\ In(w, "loaded")
    /\ \/ lock = None /\ lock' = w
          /\ \E mode \in Modes :
               run' = [run EXCEPT ![w].phase = "locked", ![w].mode = mode, ![w].now = now]
       \/ lock # None /\ lock' = lock /\ run' = [run EXCEPT ![w] = None]
    /\ UNCHANGED <<now, project, rules, events, versions, request, saving, history>>

\* _finalize_run, and the end of the lock.
Finish(w) == run' = [run EXCEPT ![w] = None] /\ lock' = IF lock = w THEN None ELSE lock

Ask(w, naming) ==
    /\ run' = [run EXCEPT ![w].phase = "asking", ![w].naming = naming]
    /\ UNCHANGED lock

HourlyRun(w) ==
    LET r == run[w]  t == r.now  first == FirstFor(r.project)
        row == EnsureFirst(project, r.project.first, first)
        quiet == EventsIn(t - Short, t) = {}
        stable == ReadyToBeStable(first, t)
        nothingNew == NewUrls(Short, t) = {}
        refresh == NeedRefresh(UrlsIn(0, t), rules)
    IN
    /\ In(w, "locked") /\ r.mode = "hourly_unstable"
    /\ \/ quiet /\ Finish(w) /\ project' = row /\ UNCHANGED rules
       \/ /\ ~quiet /\ stable
          /\ Finish(w) /\ project' = SetState(row, r.project, "stable") /\ UNCHANGED rules
       \/ ~quiet /\ ~stable /\ nothingNew /\ Finish(w) /\ project' = row /\ UNCHANGED rules
       \/ /\ ~quiet /\ ~stable /\ ~nothingNew /\ project' = row
          /\ \/ Naming(r.project) = "bootstrap" /\ Ask(w, "bootstrap") /\ UNCHANGED rules
             \/ /\ Naming(r.project) = "incremental" /\ rules' = StillActive(rules)
                /\ IF refresh THEN Ask(w, "incremental") ELSE Finish(w)
    /\ UNCHANGED <<now, events, versions, request, saving, history>>

DailyRun(w) ==
    LET r == run[w]  t == r.now
        row == EnsureFirst(project, r.project.first, FirstFor(r.project))
        unstable == ChurnAbove(UnstableAt, t)
        urls == UrlsIn(t - Input, t)
    IN
    /\ In(w, "locked") /\ r.mode = "daily_stable"
    /\ \/ /\ unstable
          /\ Finish(w) /\ project' = SetState(row, r.project, "not_stable") /\ UNCHANGED rules
       \/ ~unstable /\ urls = {} /\ Finish(w) /\ project' = row /\ UNCHANGED rules
       \/ /\ ~unstable /\ urls # {} /\ project' = row /\ rules' = StillActive(rules)
          /\ IF NeedRefresh(urls, rules) THEN Ask(w, "incremental") ELSE Finish(w)
    /\ UNCHANGED <<now, events, versions, request, saving, history>>

\* The model answers with an error, with no valid rule, or there is no key.
AiFails(w) ==
    /\ In(w, "asking") /\ Finish(w)
    /\ UNCHANGED <<now, project, rules, events, versions, request, saving, history>>

\* replace_project_page_rules: one transaction.
ActiveRules(created) == created

ReplaceRules(w) ==
    /\ In(w, "asking") /\ ruleSets < MaxRuleSets
    /\ \E patterns \in SUBSET (Urls \union {Broken}) \ {{}} :
         /\ Cardinality(patterns) <= MaxPatterns
         /\ LET created == [set: {ruleSets + 1}, pattern: patterns]
            IN /\ rules' = ActiveRules(created)
               /\ run' = [run EXCEPT ![w].phase = "replaced", ![w].rules = created,
                                     ![w].project = NewProject, ![w].read = resets.count]
    /\ ruleSets' = ruleSets + 1 /\ applied' = None
    /\ UNCHANGED <<now, project, events, versions, lock, request, saving, saves, resets,
                   reverted, behind>>

Since(r) == r.now - (IF r.mode = "hourly_unstable" THEN Rewrite ELSE Input)

\* Mutant of ToRename: only the events without a name.
Unnamed(r) == {i \in DOMAIN events : events[i].at >= Since(r) /\ events[i].rule = None}

ToRename(r) == {i \in DOMAIN events : events[i].at >= Since(r)}

\* The version is stored, then the events to rename are read.
ApplyStarts(w) ==
    /\ In(w, "replaced")
    /\ versions' = IF run[w].naming = "bootstrap"
                   THEN versions \union {[set |-> ruleSets, at |-> now]}
                   ELSE versions
    /\ rules' = StillActive(run[w].rules)
    /\ run' = [run EXCEPT ![w].phase = "applying", ![w].todo = ToRename(run[w])]
    /\ behind' = IF run[w].read = resets.count THEN behind \ ToRename(run[w]) ELSE behind
    /\ UNCHANGED <<now, project, events, lock, request, saving, ruleSets, saves, resets,
                   reverted, applied>>

Renamed(ids, rs) ==
    [i \in DOMAIN events |->
        IF i \in ids THEN [events[i] EXCEPT !.rule = Match(events[i].url, rs)] ELSE events[i]]

\* The events are renamed in batches, the last one ends the run.
ApplyBatch(w) ==
    LET r == run[w]
        disturbed == r.read # resets.count
    IN
    /\ In(w, "applying")
    /\ \E batch \in SUBSET r.todo :
         /\ r.todo # {} => batch # {}
         /\ events' = Renamed(batch, r.rules)
         /\ IF batch = r.todo
            THEN Finish(w) /\ applied' = (IF disturbed THEN None ELSE Since(r))
            ELSE /\ run' = [run EXCEPT ![w].todo = @ \ batch] /\ UNCHANGED lock
                 /\ applied' = IF disturbed THEN None ELSE applied
    /\ UNCHANGED <<now, project, rules, versions, request, saving, ruleSets, saves,
                   resets, reverted, behind>>

Unresolved == {i \in DOMAIN events : events[i].rule = None}

BackfillReads(w) ==
    /\ In(w, "locked") /\ run[w].mode = "hourly_title_backfill"
    /\ project' = EnsureFirst(project, run[w].project.first, FirstFor(run[w].project))
    /\ IF Unresolved = {} \/ rules = {}
       THEN Finish(w) /\ UNCHANGED rules
       ELSE /\ rules' = StillActive(rules) /\ UNCHANGED lock
            /\ run' = [run EXCEPT ![w].phase = "backfilling", ![w].rules = rules,
                                  ![w].project = NewProject, ![w].todo = Unresolved,
                                  ![w].read = resets.count]
    /\ UNCHANGED <<now, events, versions, request, saving, history>>

BackfillWrites(w) ==
    LET r == run[w]
        named == {i \in r.todo : Match(events[i].url, r.rules) # None}
    IN
    /\ In(w, "backfilling") /\ Finish(w)
    /\ events' = Renamed(named, r.rules)
    /\ applied' = IF r.read = resets.count \/ named = {} THEN applied ELSE None
    /\ UNCHANGED <<now, project, rules, versions, request, saving, ruleSets, saves,
                   resets, reverted, behind>>

\* The process ends, or a statement fails: the lock goes with the connection.
Crash(w) ==
    /\ run[w] # None /\ Finish(w)
    /\ UNCHANGED <<now, project, rules, events, versions, request, saving, history>>

-----------------------------------------------------------------------------
(* Requests and resets.                                                    *)

ParseRequest(q) ==
    /\ request[q] = None /\ Len(events) < MaxEvents
    /\ request' = [request EXCEPT ![q] = [first |-> project.first, rules |-> Compiled(rules),
                                          at |-> None, sets |-> ruleSets, seen |-> resets.count]]
    /\ rules' = StillActive(rules)
    /\ UNCHANGED <<now, project, events, versions, lock, run, saving, history>>

\* process_events, up to bulk_create.
StoreEvent(q) ==
    LET r == request[q]  id == Len(events) + 1 IN
    /\ r # None /\ Len(events) < MaxEvents /\ r.at = None
    /\ \E url \in Urls, at \in 0 .. now :
         /\ events' = Append(events, [url |-> url, at |-> at, rule |-> Match(url, r.rules)])
         /\ request' = [request EXCEPT ![q].at = at]
    /\ behind' = IF r.sets = ruleSets /\ r.seen = resets.count THEN behind
                 ELSE behind \union {id}
    /\ UNCHANGED <<now, project, rules, versions, lock, run, saving, ruleSets, saves,
                   resets, reverted, applied>>

\* process_events, after bulk_create.
NoteFirst(q) ==
    LET r == request[q] IN
    /\ r # None /\ r.at # None
    /\ project' = EnsureFirst(project, r.first, r.at)
    /\ request' = [request EXCEPT ![q] = None]
    /\ UNCHANGED <<now, rules, events, versions, lock, run, saving, history>>

RequestFails(q) ==
    /\ request[q] # None /\ request' = [request EXCEPT ![q] = None]
    /\ UNCHANGED <<now, project, rules, events, versions, lock, run, saving, history>>

\* Mutant of RestartedProject: the age of the project stays.
RestartedState(at) == [project EXCEPT !.state = "not_stable", !.changed = at]

RestartedProject(at) == [state |-> "not_stable", changed |-> at, first |-> at]

\* reset_project_page_naming_to_bootstrap: one transaction, without the lock.  The
\* clock is read before it waits for the row, which may take any time.
Reset ==
    /\ resets.count < MaxResets
    /\ \E at \in 0 .. now :
         /\ project' = RestartedProject(at)
         /\ resets' = [count |-> resets.count + 1, at |-> at]
    /\ rules' = {} /\ events' = [i \in DOMAIN events |-> [events[i] EXCEPT !.rule = None]]
    /\ applied' = 0 /\ behind' = {} /\ reverted' = FALSE
    /\ UNCHANGED <<now, versions, lock, run, request, saving, ruleSets, saves>>

\* update_project_name, generate_api_key: the project is loaded, and saved later
\* without update_fields, so that its naming columns are as they were.
LoadProject ==
    /\ saves < MaxSaves /\ saves' = saves + 1
    /\ saving' = [project |-> project, seen |-> resets.count]
    /\ UNCHANGED <<now, project, rules, events, versions, lock, run, request, ruleSets,
                   resets, reverted, applied, behind>>

FullSave ==
    /\ saving # None /\ saving' = None
    /\ project' = saving.project
    /\ reverted' = (reverted \/ saving.seen # resets.count)
    /\ UNCHANGED <<now, rules, events, versions, lock, run, request, ruleSets, saves,
                   resets, applied, behind>>

-----------------------------------------------------------------------------
RunStep(w) ==
    \/ Load(w)
    \/ TryLock(w) \/ HourlyRun(w) \/ DailyRun(w) \/ AiFails(w) \/ ReplaceRules(w)
    \/ ApplyStarts(w) \/ ApplyBatch(w) \/ BackfillReads(w)
    \/ BackfillWrites(w)

RequestStep(q) == ParseRequest(q) \/ StoreEvent(q) \/ NoteFirst(q)

Next ==
    \/ Tick \/ Reset \/ LoadProject \/ FullSave
    \/ \E w \in Workers : RunStep(w) \/ Crash(w)
    \/ \E q \in Requests : RequestStep(q) \/ RequestFails(q)

Spec == Init /\ [][Next]_vars

-----------------------------------------------------------------------------
(* Once the active rules have been applied, every event of the rewritten   *)
(* window is named by them, those stored meanwhile included.  Only a       *)
(* request that began under other rules leaves one behind: runs do not     *)
(* undo each other, whatever order they began in, where they were          *)
(* interrupted, and whatever a reset or a backfill did meanwhile.          *)
NamesCurrent ==
    applied # None =>
        \A i \in DOMAIN events \ behind :
            events[i].at >= applied => events[i].rule = Match(events[i].url, rules)

\* A reset restarts the bootstrap: a run that read the project after the reset
\* leaves the bootstrap only when Target versions have been made later than the
\* time of the reset, and not with those of the same tick, whatever runs that
\* were under way have written; unless the row has been written back as it was.
BootstrapRestarts ==
    \A w \in Workers :
        /\ run[w] # None /\ run[w].phase = "asking" /\ run[w].naming = "incremental"
        /\ run[w].mode = "hourly_unstable" /\ run[w].project.state = "not_stable"
        /\ run[w].seen = resets.count /\ resets.count > 0 /\ ~reverted
        => Cardinality({v \in versions : v.at > resets.at}) >= Target

\* A reset project is not declared stable again before the lower of the two ages: not
\* by a run that read it after the reset, unless an event from before the reset came
\* late, or the row has been written back as it was.
ResetHolds ==
    [][\A w \in Workers :
         /\ project.state = "not_stable" /\ project'.state = "stable"
         /\ run[w] # None /\ run'[w] = None
         /\ run[w].seen = resets.count /\ resets.count > 0 /\ ~reverted
         => \/ run[w].project.first # None /\ run[w].project.first < resets.at
            \/ now - resets.at > Min({Soft, Hard})]_vars

=============================================================================
