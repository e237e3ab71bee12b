-------------------------- MODULE PageNamingProofs --------------------------
(***************************************************************************)
(* The names of the events follow the active rules, and a reset restarts   *)
(* the bootstrap and holds, for any workers, requests, URLs, settings and  *)
(* bounds.                                                                 *)
(*                                                                         *)
(* A run works on what it read before: on a copy of the project from       *)
(* before it had the lock, on rules and ids of events from a transaction   *)
(* before.  The invariant says which of it still counts.  Of the copy,     *)
(* that it is younger than the last reset if it was read after it; of the  *)
(* rules, that nobody but a reset replaces them under a run that holds the *)
(* lock; of the ids, that every event not among them already has its name. *)
(***************************************************************************)
EXTENDS PageNaming, FiniteSetTheorems, SequenceTheorems, WellFoundedInduction, TLAPS

-----------------------------------------------------------------------------
(* Operators.                                                              *)

\* Every nonempty set of naturals has a least element.
LEMMA LeastNatural ==
    ASSUME NEW T, T \subseteq Nat, T # {}
    PROVE  \E x \in T : \A y \in T : x <= y
<1>. DEFINE R == OpToRel(<, Nat)
<1>1. IsWellFoundedOn(R, Nat)
    BY NatLessThanWellFounded
<1>2. \A x, y \in Nat : <<y, x>> \in R <=> y < x
    BY DEF OpToRel
<1>. HIDE DEF R
<1>3. PICK x \in T : \A y \in T : ~ (<<y, x>> \in R)
    BY <1>1, WFMin
<1>4. \A y \in T : x \in Nat /\ y \in Nat /\ ~ (y < x)
    BY <1>2, <1>3
<1>. QED
    BY <1>3, <1>4

\* A match is one of the rules.
LEMMA MatchIsRule ==
    ASSUME NEW rs, rs \subseteq Rules, NEW url
    PROVE  Match(url, rs) \in rs \union {None}
<1>. DEFINE matching == {r \in Compiled(rs) : r.pattern = url}
<1>1. CASE matching = {}
    BY <1>1 DEF Match
<1>2. CASE matching # {}
    <2>. DEFINE sets == {r.set : r \in matching}
    <2>1. sets \subseteq Nat /\ sets # {}
        BY <1>2, NamingAssumption DEF Compiled, Rules
    <2>2. PICK x \in sets : \A y \in sets : x <= y
        BY <2>1, LeastNatural
    <2>3. \E r \in matching : \A s \in matching : r.set <= s.set
        BY <2>2
    <2>4. Match(url, rs) = CHOOSE r \in matching : \A s \in matching : r.set <= s.set
        BY <1>2 DEF Match
    <2>5. Match(url, rs) \in matching
        BY <2>3, <2>4
    <2>. QED
        BY <2>5 DEF Compiled
<1>. QED
    BY <1>1, <1>2

\* What does not compile matches nothing: rules that agree on the rest name alike.
LEMMA MatchCompiled ==
    ASSUME NEW rs, NEW ss, Compiled(rs) = Compiled(ss)
    PROVE  \A url : Match(url, rs) = Match(url, ss)
    BY DEF Match

LEMMA CompiledTwice == \A rs : Compiled(Compiled(rs)) = Compiled(rs)
    BY DEF Compiled

\* Rules that do not compile are all that is taken out.
LEMMA StillActiveCompiled == \A rs : Compiled(StillActive(rs)) = Compiled(rules)
    BY DEF StillActive, Compiled

\* The settings are naturals.
LEMMA Naturals ==
    /\ MaxTime \in Nat /\ MaxEvents \in Nat /\ MaxRuleSets \in Nat
    /\ MaxResets \in Nat /\ MaxSaves \in Nat /\ Target \in Nat
    /\ Soft \in Nat /\ Hard \in Nat /\ Rewrite \in Nat /\ Input \in Nat
    /\ None \notin Workers /\ \A t \in Nat : t # None
    BY NamingAssumption

LEMMA FirstEventTyped ==
    ASSUME TypeOK
    PROVE  FirstEvent \in Times \union {None}
<1>. DEFINE T == {events[i].at : i \in DOMAIN events}
<1>1. /\ \A i \in DOMAIN events : events[i] \in Event
      /\ events # <<>> => DOMAIN events # {}
    <2>1. events \in Seq(Event)
        BY DEF TypeOK
    <2>2. Len(events) \in Nat /\ DOMAIN events = 1 .. Len(events)
        BY <2>1, LenProperties
    <2>3. \A i \in 1 .. Len(events) : events[i] \in Event
        BY <2>1, ElementOfSeq
    <2>4. events # <<>> => Len(events) > 0
        BY <2>1, EmptySeq
    <2>. QED
        BY <2>2, <2>3, <2>4
<1>2. T \subseteq Times /\ Times \subseteq Nat
    BY <1>1, Naturals DEF Event, Times
<1>3. CASE events = <<>>
    BY <1>3 DEF FirstEvent
<1>4. CASE events # <<>>
    <2>1. T # {}
        BY <1>1, <1>4
    <2>2. \E x \in T : \A y \in T : x <= y
        BY <1>2, <2>1, LeastNatural
    <2>3. FirstEvent = CHOOSE x \in T : \A y \in T : x <= y
        BY <1>4 DEF FirstEvent, Min
    <2>. HIDE DEF T
    <2>4. FirstEvent \in T
        BY <2>2, <2>3
    <2>. QED
        BY <1>2, <2>4
<1>. QED
    BY <1>3, <1>4

LEMMA FirstForTyped ==
    ASSUME TypeOK, NEW p \in Project
    PROVE  FirstFor(p) \in Times \union {None}
    BY FirstEventTyped DEF FirstFor, Project

\* A row is written as a whole: one column of it changes.
LEMMA EnsureFirstTyped ==
    ASSUME NEW row \in Project, NEW known, NEW t \in Times \union {None}
    PROVE  /\ EnsureFirst(row, known, t) \in Project
           /\ EnsureFirst(row, known, t).state = row.state
           /\ EnsureFirst(row, known, t).changed = row.changed
           /\ EnsureFirst(row, known, t).first \in {row.first} \union (Times \ {None})
    BY DEF EnsureFirst, Project

LEMMA SetStateTyped ==
    ASSUME NEW row \in Project, NEW copy, NEW state \in {"stable", "not_stable"}, now \in Times
    PROVE  /\ SetState(row, copy, state) \in Project
           /\ SetState(row, copy, state).first = row.first
           /\ SetState(row, copy, state).changed \in {row.changed, now}
           /\ SetState(row, copy, state).state # row.state => copy.state # state
    BY DEF SetState, Project

-----------------------------------------------------------------------------
(* Types.  First what an action of a run leaves of the runs.               *)

Phases == {"loaded", "locked", "asking", "replaced", "applying", "backfilling"}

LEMMA Runs ==
    ASSUME TypeOK, NEW w \in Workers, run[w] # None
    PROVE  /\ run[w] \in Run /\ run[w].project \in Project
           /\ run[w].now \in Times /\ run[w].todo \subseteq DOMAIN events
           /\ run[w].rules \subseteq Rules
    BY DEF TypeOK, Run

LEMMA RunChange ==
    ASSUME TypeOK, NEW w \in Workers, NEW x, run' = [run EXCEPT ![w] = x]
    PROVE  /\ run'[w] = x
           /\ \A v \in Workers \ {w} : run'[v] = run[v]
           /\ x \in Run \union {None} => run' \in [Workers -> Run \union {None}]
    BY DEF TypeOK

LEMMA FinishRuns ==
    ASSUME TypeOK, NEW w \in Workers, Finish(w)
    PROVE  /\ run' = [run EXCEPT ![w] = None]
           /\ run'[w] = None
           /\ \A v \in Workers \ {w} : run'[v] = run[v]
           /\ run' \in [Workers -> Run \union {None}]
           /\ lock' \in Workers \union {None}
    BY RunChange DEF Finish, TypeOK

LEMMA LoadRuns ==
    ASSUME TypeOK, NEW w \in Workers, Load(w)
    PROVE  \E x \in Run :
               /\ run' = [run EXCEPT ![w] = x]
               /\ x.phase = "loaded" /\ x.project = project
               /\ x.seen = resets.count /\ x.now = 0 /\ x.todo = {} /\ x.read = 0
<1>. DEFINE x == [phase |-> "loaded", mode |-> "hourly_unstable", project |-> project,
                  seen |-> resets.count, naming |-> "incremental", now |-> 0,
                  rules |-> {}, todo |-> {}, read |-> 0]
<1>1. x \in Run
    BY Naturals DEF TypeOK, Run, Modes, Times, Resets
<1>2. run' = [run EXCEPT ![w] = x]
    BY DEF Load
<1>. QED
    BY <1>1, <1>2

LEMMA LockRuns ==
    ASSUME TypeOK, NEW w \in Workers, TryLock(w), lock = None
    PROVE  \E x \in Run :
               /\ run' = [run EXCEPT ![w] = x]
               /\ x.phase = "locked" /\ x.project = run[w].project
               /\ x.seen = run[w].seen /\ x.now = now /\ x.todo = run[w].todo
               /\ x.read = run[w].read /\ x.naming = run[w].naming
<1>1. PICK mode \in Modes :
          run' = [run EXCEPT ![w].phase = "locked", ![w].mode = mode, ![w].now = now]
    BY Naturals DEF TryLock, TypeOK
<1>. DEFINE x == [run[w] EXCEPT !.phase = "locked", !.mode = mode, !.now = now]
<1>2. run[w] \in Run
    BY Runs DEF TryLock, In
<1>3. now \in Times
    BY DEF TypeOK
<1>4. /\ x \in Run /\ x.phase = "locked" /\ x.project = run[w].project
      /\ x.seen = run[w].seen /\ x.now = now /\ x.todo = run[w].todo
      /\ x.read = run[w].read /\ x.naming = run[w].naming
    BY <1>2, <1>3 DEF Run
<1>5. run' = [run EXCEPT ![w] = x]
    BY <1>1 DEF TypeOK
<1>. HIDE DEF x
<1>. QED
    BY <1>4, <1>5

LEMMA AskRuns ==
    ASSUME TypeOK, NEW w \in Workers, NEW naming \in {"bootstrap", "incremental"},
           run[w] # None, Ask(w, naming)
    PROVE  \E x \in Run :
               /\ run' = [run EXCEPT ![w] = x]
               /\ x.phase = "asking" /\ x.mode = run[w].mode /\ x.project = run[w].project
               /\ x.seen = run[w].seen /\ x.now = run[w].now /\ x.todo = run[w].todo
               /\ x.read = run[w].read /\ x.naming = naming
<1>. DEFINE x == [run[w] EXCEPT !.phase = "asking", !.naming = naming]
<1>1. run[w] \in Run
    BY Runs
<1>2. /\ x \in Run /\ x.phase = "asking" /\ x.mode = run[w].mode /\ x.project = run[w].project
      /\ x.seen = run[w].seen /\ x.now = run[w].now /\ x.todo = run[w].todo
      /\ x.read = run[w].read /\ x.naming = naming
    BY <1>1 DEF Run
<1>3. run' = [run EXCEPT ![w] = x]
    BY DEF Ask, TypeOK
<1>. HIDE DEF x
<1>. QED
    BY <1>2, <1>3

LEMMA ReplaceRuns ==
    ASSUME TypeOK, NEW w \in Workers, ReplaceRules(w)
    PROVE  /\ rules' \subseteq Rules /\ \A r \in rules' : r.set = ruleSets'
           /\ ruleSets' = ruleSets + 1 /\ ruleSets' \in 0 .. MaxRuleSets
           /\ \E x \in Run :
               /\ run' = [run EXCEPT ![w] = x]
               /\ x.phase = "replaced" /\ x.rules = rules' /\ x.read = resets.count
               /\ x.now = run[w].now /\ x.todo = run[w].todo /\ x.mode = run[w].mode
<1>1. run[w] \in Run
    BY Runs DEF ReplaceRules, In
<1>2. ruleSets' = ruleSets + 1 /\ ruleSets' \in 1 .. MaxRuleSets
    BY Naturals DEF ReplaceRules, TypeOK
<1>3. PICK patterns \in SUBSET (Urls \union {Broken}) :
          LET created == [set: {ruleSets + 1}, pattern: patterns]
          IN /\ rules' = created
             /\ run' = [run EXCEPT ![w].phase = "replaced", ![w].rules = created,
                                   ![w].project = NewProject, ![w].read = resets.count]
    BY DEF ReplaceRules, ActiveRules
<1>. DEFINE created == [set: {ruleSets + 1}, pattern: patterns]
            x == [run[w] EXCEPT !.phase = "replaced", !.rules = created,
                                !.project = NewProject, !.read = resets.count]
<1>4. created \subseteq Rules /\ \A r \in created : r.set = ruleSets + 1
    BY <1>2 DEF Rules
<1>5. NewProject \in Project /\ resets.count \in 0 .. MaxResets
    BY DEF NewProject, Project, TypeOK, Resets
<1>6. /\ rules' = created
      /\ run' = [run EXCEPT ![w].phase = "replaced", ![w].rules = created,
                            ![w].project = NewProject, ![w].read = resets.count]
    BY <1>3
<1>. HIDE DEF created
<1>7. /\ x \in Run /\ x.phase = "replaced" /\ x.rules = created /\ x.read = resets.count
      /\ x.now = run[w].now /\ x.todo = run[w].todo /\ x.mode = run[w].mode
    BY <1>1, <1>4, <1>5 DEF Run
<1>8. run' = [run EXCEPT ![w] = x]
    BY <1>6 DEF TypeOK
<1>. HIDE DEF x
<1>9. rules' \subseteq Rules /\ \A r \in rules' : r.set = ruleSets'
    BY <1>2, <1>4, <1>6
<1>10. x.rules = rules'
    BY <1>6, <1>7
<1>11. ruleSets' = ruleSets + 1 /\ ruleSets' \in 0 .. MaxRuleSets
    BY <1>2, Naturals DEF TypeOK
<1>. QED
    BY <1>7, <1>8, <1>9, <1>10, <1>11

LEMMA StartRuns ==
    ASSUME TypeOK, NEW w \in Workers, ApplyStarts(w)
    PROVE  \E x \in Run :
               /\ run' = [run EXCEPT ![w] = x]
               /\ x.phase = "applying" /\ x.rules = run[w].rules /\ x.read = run[w].read
               /\ x.now = run[w].now /\ x.mode = run[w].mode
               /\ x.todo = ToRename(run[w])
<1>. DEFINE x == [run[w] EXCEPT !.phase = "applying", !.todo = ToRename(run[w])]
<1>1. run[w] \in Run
    BY Runs DEF ApplyStarts, In
<1>2. ToRename(run[w]) \subseteq 1 .. MaxEvents
    <2>1. DOMAIN events = 1 .. Len(events) /\ Len(events) \in Nat /\ Len(events) <= MaxEvents
        BY LenProperties DEF TypeOK
    <2>2. DOMAIN events \subseteq 1 .. MaxEvents
        BY <2>1, Naturals
    <2>. QED
        BY <2>2 DEF ToRename
<1>3. run' = [run EXCEPT ![w] = x]
    BY DEF ApplyStarts, TypeOK
<1>4. /\ x \in Run /\ x.phase = "applying" /\ x.rules = run[w].rules /\ x.read = run[w].read
      /\ x.now = run[w].now /\ x.mode = run[w].mode /\ x.todo = ToRename(run[w])
    BY <1>1, <1>2 DEF Run
<1>. HIDE DEF x
<1>. QED
    BY <1>3, <1>4

LEMMA BatchRuns ==
    ASSUME TypeOK, NEW w \in Workers, ApplyBatch(w)
    PROVE  \E batch \in SUBSET run[w].todo :
               /\ events' = Renamed(batch, run[w].rules)
               /\ \/ /\ batch = run[w].todo /\ Finish(w)
                     /\ applied' = IF run[w].read = resets.count THEN Since(run[w]) ELSE None
                  \/ /\ UNCHANGED lock
                     /\ applied' = IF run[w].read = resets.count THEN applied ELSE None
                     /\ \E x \in Run :
                          /\ run' = [run EXCEPT ![w] = x]
                          /\ x.phase = "applying" /\ x.rules = run[w].rules
                          /\ x.read = run[w].read /\ x.now = run[w].now
                          /\ x.mode = run[w].mode /\ x.todo = run[w].todo \ batch
<1>1. run[w] \in Run /\ run[w].phase = "applying"
    BY Runs DEF ApplyBatch, In
<1>2. PICK batch \in SUBSET run[w].todo :
          /\ events' = Renamed(batch, run[w].rules)
          /\ IF batch = run[w].todo
             THEN Finish(w) /\ applied' = (IF run[w].read # resets.count THEN None ELSE Since(run[w]))
             ELSE /\ run' = [run EXCEPT ![w].todo = @ \ batch] /\ UNCHANGED lock
                  /\ applied' = IF run[w].read # resets.count THEN None ELSE applied
    BY DEF ApplyBatch
<1>3. CASE batch = run[w].todo
    BY <1>2, <1>3
<1>4. CASE batch # run[w].todo
    <2>. DEFINE x == [run[w] EXCEPT !.todo = @ \ batch]
    <2>1. run' = [run EXCEPT ![w] = x]
        BY <1>2, <1>4 DEF TypeOK
    <2>2. /\ x \in Run /\ x.phase = "applying" /\ x.rules = run[w].rules /\ x.read = run[w].read
          /\ x.now = run[w].now /\ x.mode = run[w].mode /\ x.todo = run[w].todo \ batch
        BY <1>1 DEF Run
    <2>3. /\ UNCHANGED lock
          /\ applied' = IF run[w].read = resets.count THEN applied ELSE None
          /\ events' = Renamed(batch, run[w].rules)
        BY <1>2, <1>4
    <2>. HIDE DEF x
    <2>. QED
        BY <2>1, <2>2, <2>3
<1>. QED
    BY <1>3, <1>4

LEMMA BackfillRuns ==
    ASSUME TypeOK, NEW w \in Workers, run[w] # None,
           run' = [run EXCEPT ![w].phase = "backfilling", ![w].rules = rules,
                              ![w].project = NewProject,
                              ![w].todo = Unresolved, ![w].read = resets.count]
    PROVE  \E x \in Run :
               /\ run' = [run EXCEPT ![w] = x]
               /\ x.phase = "backfilling" /\ x.rules = rules /\ x.read = resets.count
               /\ x.now = run[w].now /\ x.mode = run[w].mode /\ x.todo = Unresolved
<1>. DEFINE x == [run[w] EXCEPT !.phase = "backfilling", !.rules = rules, !.project = NewProject,
                                !.todo = Unresolved, !.read = resets.count]
<1>1. run[w] \in Run /\ rules \subseteq Rules /\ resets.count \in 0 .. MaxResets
    BY Runs DEF TypeOK, Resets
<1>2. Unresolved \subseteq 1 .. MaxEvents
    <2>1. DOMAIN events = 1 .. Len(events) /\ Len(events) \in Nat /\ Len(events) <= MaxEvents
        BY LenProperties DEF TypeOK
    <2>2. DOMAIN events \subseteq 1 .. MaxEvents
        BY <2>1, Naturals
    <2>. QED
        BY <2>2 DEF Unresolved
<1>3. run' = [run EXCEPT ![w] = x]
    BY DEF TypeOK
<1>4. /\ x \in Run /\ x.phase = "backfilling" /\ x.rules = rules /\ x.read = resets.count
      /\ x.now = run[w].now /\ x.mode = run[w].mode /\ x.todo = Unresolved
    BY <1>1, <1>2 DEF Run, Project, NewProject
<1>. HIDE DEF x
<1>. QED
    BY <1>3, <1>4

-----------------------------------------------------------------------------
(* Types.  Then the table of events, the rules and the row.                *)

LEMMA EventRows ==
    ASSUME TypeOK
    PROVE  /\ Len(events) \in Nat /\ Len(events) <= MaxEvents
           /\ DOMAIN events = 1 .. Len(events)
           /\ \A i \in DOMAIN events : events[i] \in Event
<1>1. events \in Seq(Event) /\ Len(events) <= MaxEvents
    BY DEF TypeOK
<1>. QED
    BY <1>1, LenProperties, ElementOfSeq

LEMMA SeqOfEvents ==
    ASSUME TypeOK, NEW s, DOMAIN s = DOMAIN events, s = [i \in DOMAIN s |-> s[i]],
           \A i \in DOMAIN s : s[i] \in Event
    PROVE  s \in Seq(Event) /\ Len(s) <= MaxEvents
<1>1. DOMAIN s = 1 .. Len(events) /\ Len(events) \in Nat /\ Len(events) <= MaxEvents
    BY EventRows
<1>2. s \in [1 .. Len(events) -> Event]
    BY <1>1
<1>3. s \in Seq(Event)
    BY <1>1, <1>2, SeqDef
<1>4. Len(s) \in Nat /\ DOMAIN s = 1 .. Len(s)
    BY <1>3, LenProperties
<1>5. Len(s) = Len(events)
    BY <1>1, <1>4
<1>. QED
    BY <1>1, <1>3, <1>5

LEMMA RenamedEvents ==
    ASSUME TypeOK, NEW ids, NEW rs, rs \subseteq Rules
    PROVE  /\ Renamed(ids, rs) \in Seq(Event) /\ Len(Renamed(ids, rs)) <= MaxEvents
           /\ DOMAIN Renamed(ids, rs) = DOMAIN events
           /\ \A i \in DOMAIN events :
                /\ Renamed(ids, rs)[i].url = events[i].url
                /\ Renamed(ids, rs)[i].at = events[i].at
                /\ Renamed(ids, rs)[i].rule =
                     IF i \in ids THEN Match(events[i].url, rs) ELSE events[i].rule
<1>. DEFINE s == Renamed(ids, rs)
<1>1. DOMAIN s = DOMAIN events /\ s = [i \in DOMAIN s |-> s[i]]
    BY DEF Renamed
<1>2. ASSUME NEW i \in DOMAIN events
      PROVE  /\ s[i] \in Event /\ s[i].url = events[i].url /\ s[i].at = events[i].at
             /\ s[i].rule = IF i \in ids THEN Match(events[i].url, rs) ELSE events[i].rule
    <2>1. events[i] \in Event
        BY EventRows
    <2>2. Match(events[i].url, rs) \in Rules \union {None}
        BY MatchIsRule
    <2>3. s[i] = IF i \in ids THEN [events[i] EXCEPT !.rule = Match(events[i].url, rs)]
                 ELSE events[i]
        BY DEF Renamed
    <2>. HIDE DEF s
    <2>. QED
        BY <2>1, <2>2, <2>3 DEF Event
<1>. HIDE DEF s
<1>3. s \in Seq(Event) /\ Len(s) <= MaxEvents
    BY <1>1, <1>2, SeqOfEvents
<1>. QED
    BY <1>1, <1>2, <1>3 DEF s

LEMMA ResetEvents ==
    ASSUME TypeOK, Reset
    PROVE  /\ events' \in Seq(Event) /\ Len(events') <= MaxEvents
           /\ DOMAIN events' = DOMAIN events
           /\ \A i \in DOMAIN events : events'[i].at = events[i].at /\ events'[i].rule = None
<1>1. events' = [i \in DOMAIN events |-> [events[i] EXCEPT !.rule = None]]
    BY DEF Reset
<1>2. ASSUME NEW i \in DOMAIN events
      PROVE  events'[i] \in Event /\ events'[i].at = events[i].at /\ events'[i].rule = None
    <2>1. events[i] \in Event
        BY EventRows
    <2>2. events'[i] = [events[i] EXCEPT !.rule = None]
        BY <1>1
    <2>. QED
        BY <2>1, <2>2 DEF Event
<1>3. DOMAIN events' = DOMAIN events /\ events' = [i \in DOMAIN events' |-> events'[i]]
    BY <1>1
<1>4. events' \in Seq(Event) /\ Len(events') <= MaxEvents
    BY <1>2, <1>3, SeqOfEvents
<1>. QED
    BY <1>2, <1>3, <1>4

LEMMA StoredEvents ==
    ASSUME TypeOK, NEW q \in Requests, StoreEvent(q)
    PROVE  /\ events' \in Seq(Event) /\ Len(events') <= MaxEvents
           /\ DOMAIN events' = DOMAIN events \union {Len(events) + 1}
           /\ Len(events) + 1 \notin DOMAIN events
           /\ \A i \in DOMAIN events : events'[i] = events[i]
           /\ events'[Len(events) + 1].rule =
                Match(events'[Len(events) + 1].url, request[q].rules)
           /\ request' \in [Requests -> Request \union {None}]
           /\ request'[q].sets = request[q].sets /\ request'[q].seen = request[q].seen
           /\ request'[q].rules = request[q].rules
           /\ \A p \in Requests \ {q} : request'[p] = request[p]
<1>. DEFINE id == Len(events) + 1
<1>1. PICK url \in Urls, at \in 0 .. now :
          /\ events' = Append(events, [url |-> url, at |-> at, rule |-> Match(url, request[q].rules)])
          /\ request' = [request EXCEPT ![q].at = at]
    BY DEF StoreEvent
<1>2. request[q] \in Request /\ request[q] # None /\ Len(events) < MaxEvents
    BY DEF StoreEvent, TypeOK
<1>3. at \in Times
    BY <1>1, Naturals DEF TypeOK, Times
<1>. DEFINE e == [url |-> url, at |-> at, rule |-> Match(url, request[q].rules)]
<1>4. e \in Event
    <2>1. request[q].rules \subseteq Rules
        BY <1>2 DEF Request
    <2>2. Match(url, request[q].rules) \in Rules \union {None}
        BY <2>1, MatchIsRule
    <2>. QED
        BY <1>1, <1>3, <2>2 DEF Event
<1>5. e.url = url /\ e.rule = Match(url, request[q].rules)
    OBVIOUS
<1>6. events \in Seq(Event) /\ DOMAIN events = 1 .. Len(events) /\ Len(events) \in Nat
    BY EventRows DEF TypeOK
<1>7. events' = Append(events, e)
    BY <1>1
<1>. HIDE DEF e
<1>8. /\ events' \in Seq(Event) /\ Len(events') = Len(events) + 1
      /\ \A i \in 1 .. Len(events) : events'[i] = events[i]
      /\ events'[id] = e
    BY <1>4, <1>6, <1>7
<1>9. DOMAIN events' = 1 .. id
    BY <1>8, LenProperties
<1>10. Len(events') <= MaxEvents
    BY <1>2, <1>6, <1>8, Naturals
<1>11. 1 .. id = DOMAIN events \union {id} /\ id \notin DOMAIN events
    BY <1>6
<1>12. request'[q] = [request[q] EXCEPT !.at = at]
    BY <1>1 DEF TypeOK
<1>13. /\ request'[q] \in Request /\ request'[q].sets = request[q].sets
       /\ request'[q].seen = request[q].seen /\ request'[q].rules = request[q].rules
    BY <1>2, <1>3, <1>12 DEF Request
<1>14. /\ request' \in [Requests -> Request \union {None}]
       /\ \A p \in Requests \ {q} : request'[p] = request[p]
    <2>1. request' = [request EXCEPT ![q] = request'[q]]
        BY <1>1, <1>12 DEF TypeOK
    <2>. QED
        BY <1>13, <2>1 DEF TypeOK
<1>. QED
    BY <1>5, <1>6, <1>8, <1>9, <1>10, <1>11, <1>13, <1>14

LEMMA ParsedRequest ==
    ASSUME TypeOK, NEW q \in Requests, ParseRequest(q)
    PROVE  /\ request' \in [Requests -> Request \union {None}]
           /\ request'[q].sets = ruleSets /\ request'[q].seen = resets.count
           /\ request'[q].rules = Compiled(rules)
           /\ \A p \in Requests \ {q} : request'[p] = request[p]
<1>. DEFINE x == [first |-> project.first, rules |-> Compiled(rules),
                  at |-> None, sets |-> ruleSets, seen |-> resets.count]
<1>1. x \in Request
    BY DEF TypeOK, Request, Project, Resets, Compiled
<1>2. request' = [request EXCEPT ![q] = x]
    BY DEF ParseRequest
<1>3. x.sets = ruleSets /\ x.seen = resets.count /\ x.rules = Compiled(rules)
    OBVIOUS
<1>. HIDE DEF x
<1>. QED
    BY <1>1, <1>2, <1>3 DEF TypeOK

LEMMA EndedRequest ==
    ASSUME TypeOK, NEW q \in Requests, NoteFirst(q) \/ RequestFails(q)
    PROVE  /\ request' \in [Requests -> Request \union {None}]
           /\ request'[q] = None
           /\ \A p \in Requests \ {q} : request'[p] = request[p]
<1>1. request' = [request EXCEPT ![q] = None]
    BY DEF NoteFirst, RequestFails
<1>. QED
    BY <1>1 DEF TypeOK

\* A row that a run or a request saves keeps its first event or gets another, and
\* keeps the time of the last change of state or gets the present one.
RowSaved ==
    /\ project' \in Project
    /\ project'.first \in {project.first} \union (Times \ {None})
    /\ project'.changed \in {project.changed, now}

LEMMA RowUnchanged ==
    ASSUME TypeOK, project' = project
    PROVE  RowSaved
    BY DEF RowSaved, TypeOK

LEMMA RowEnsured ==
    ASSUME TypeOK, NEW known, NEW t \in Times \union {None},
           project' = EnsureFirst(project, known, t)
    PROVE  RowSaved /\ project'.state = project.state
    BY EnsureFirstTyped DEF RowSaved, TypeOK

LEMMA RowOfHourly ==
    ASSUME TypeOK, NEW w \in Workers, HourlyRun(w)
    PROVE  RowSaved
<1>. DEFINE p   == run[w].project
            row == EnsureFirst(project, p.first, FirstFor(p))
<1>1. project \in Project /\ p \in Project /\ now \in Times
    BY Runs DEF HourlyRun, In, TypeOK
<1>2. project' = row \/ project' = SetState(row, p, "stable")
    BY DEF HourlyRun
<1>3. FirstFor(p) \in Times \union {None}
    BY <1>1, FirstForTyped
<1>4. /\ row \in Project /\ row.changed = project.changed
      /\ row.first \in {project.first} \union (Times \ {None})
    BY <1>1, <1>3, EnsureFirstTyped
<1>. HIDE DEF row
<1>. QED
    BY <1>1, <1>2, <1>4, SetStateTyped DEF RowSaved

LEMMA RowOfDaily ==
    ASSUME TypeOK, NEW w \in Workers, DailyRun(w)
    PROVE  RowSaved /\ (project'.state = "stable" => project.state = "stable")
<1>. DEFINE p   == run[w].project
            row == EnsureFirst(project, p.first, FirstFor(p))
<1>1. project \in Project /\ p \in Project /\ now \in Times
    BY Runs DEF DailyRun, In, TypeOK
<1>2. project' = row \/ project' = SetState(row, p, "not_stable")
    BY DEF DailyRun
<1>3. FirstFor(p) \in Times \union {None}
    BY <1>1, FirstForTyped
<1>4. /\ row \in Project /\ row.changed = project.changed /\ row.state = project.state
      /\ row.first \in {project.first} \union (Times \ {None})
    BY <1>1, <1>3, EnsureFirstTyped
<1>. HIDE DEF row
<1>5. RowSaved
    BY <1>1, <1>2, <1>4, SetStateTyped DEF RowSaved
<1>6. SetState(row, p, "not_stable").state \in {row.state, "not_stable"}
    BY <1>4 DEF SetState, Project
<1>. QED
    BY <1>2, <1>4, <1>5, <1>6

LEMMA RowOfBackfill ==
    ASSUME TypeOK, NEW w \in Workers, BackfillReads(w)
    PROVE  RowSaved /\ project'.state = project.state
<1>1. run[w].project \in Project
    BY Runs DEF BackfillReads, In
<1>. QED
    BY <1>1, FirstForTyped, RowEnsured DEF BackfillReads

LEMMA RowOfRequest ==
    ASSUME TypeOK, NEW q \in Requests, NoteFirst(q)
    PROVE  RowSaved /\ project'.state = project.state
<1>1. request[q].at \in Times \union {None}
    BY DEF NoteFirst, TypeOK, Request
<1>. QED
    BY <1>1, RowEnsured DEF NoteFirst

-----------------------------------------------------------------------------
(* Types.                                                                  *)

\* What is active after broken rules are taken out was active before.
LEMMA StillActiveTyped ==
    ASSUME TypeOK, NEW rs
    PROVE  StillActive(rs) \subseteq Rules /\ \A r \in StillActive(rs) : r.set = ruleSets
    BY DEF StillActive, TypeOK

LEMMA RunStepTyped ==
    ASSUME TypeOK, NEW w \in Workers, RunStep(w)
    PROVE  TypeOK'
<1>. USE DEF history
<1>0. TypeOK
    OBVIOUS
<1>1. ASSUME Load(w)
      PROVE  TypeOK'
    <2>1. PICK x \in Run : run' = [run EXCEPT ![w] = x] /\ x.todo = {}
        BY <1>1, LoadRuns
    <2>. QED
        BY <1>0, <1>1, <2>1, RunChange DEF Load, TypeOK
<1>2. CASE TryLock(w)
    <2>1. CASE lock = None
        <3>1. PICK x \in Run : run' = [run EXCEPT ![w] = x] /\ x.todo = run[w].todo
            BY <1>2, <2>1, LockRuns
        <3>2. lock' = w
            BY <1>2, <2>1 DEF TryLock
        <3>3. run[w] # None
            BY <1>2 DEF TryLock, In
        <3>. QED
            BY <1>0, <1>2, <3>1, <3>2, <3>3, RunChange DEF TryLock, TypeOK
    <2>2. CASE lock # None
        <3>1. run' = [run EXCEPT ![w] = None] /\ lock' = lock
            BY <1>2, <2>2 DEF TryLock
        <3>. QED
            BY <1>0, <1>2, <3>1, RunChange DEF TryLock, TypeOK
    <2>. QED
        BY <2>1, <2>2
<1>3. CASE HourlyRun(w) \/ DailyRun(w)
    <2>1. RowSaved /\ run[w] # None
        BY <1>3, RowOfHourly, RowOfDaily DEF HourlyRun, DailyRun, In
    <2>2. rules' = rules \/ rules' = StillActive(rules)
        BY <1>3 DEF HourlyRun, DailyRun
    <2>3. rules' \subseteq Rules /\ \A r \in rules' : r.set = ruleSets
        BY <2>2, StillActiveTyped DEF TypeOK
    <2>4. UNCHANGED <<now, events, versions, request, saving, history>>
        BY <1>3 DEF HourlyRun, DailyRun
    <2>5. CASE Finish(w)
        BY <1>0, <2>1, <2>3, <2>4, <2>5, FinishRuns DEF RowSaved, TypeOK
    <2>6. ASSUME NEW naming \in {"bootstrap", "incremental"}, Ask(w, naming)
          PROVE  TypeOK'
        <3>1. PICK x \in Run : run' = [run EXCEPT ![w] = x] /\ x.todo = run[w].todo
            BY <2>1, <2>6, AskRuns
        <3>2. lock' = lock
            BY <2>6 DEF Ask
        <3>. QED
            BY <1>0, <2>1, <2>3, <2>4, <3>1, <3>2, RunChange DEF RowSaved, TypeOK
    <2>. QED
        BY <1>3, <2>5, <2>6 DEF HourlyRun, DailyRun
<1>4. CASE AiFails(w)
    <2>1. Finish(w)
        BY <1>4 DEF AiFails
    <2>. QED
        BY <1>0, <1>4, <2>1, FinishRuns DEF AiFails, TypeOK
<1>5. CASE ReplaceRules(w)
    <2>1. /\ rules' \subseteq Rules /\ \A r \in rules' : r.set = ruleSets'
          /\ ruleSets' \in 0 .. MaxRuleSets
        BY <1>5, ReplaceRuns
    <2>2. PICK x \in Run : run' = [run EXCEPT ![w] = x] /\ x.todo = run[w].todo
        BY <1>5, ReplaceRuns
    <2>3. /\ UNCHANGED <<now, project, events, versions, lock, request, saving, saves, resets, reverted,
                     behind>>
          /\ applied' = None /\ run[w] # None
        BY <1>5 DEF ReplaceRules, In
    <2>. QED
        BY <1>0, <2>1, <2>2, <2>3, RunChange DEF TypeOK
<1>6. CASE ApplyStarts(w)
    <2>1. PICK x \in Run : run' = [run EXCEPT ![w] = x] /\ x.todo = ToRename(run[w])
        BY <1>6, StartRuns
    <2>2. ToRename(run[w]) \subseteq DOMAIN events
        BY DEF ToRename
    <2>3. rules' \subseteq Rules /\ \A r \in rules' : r.set = ruleSets
        BY <1>6, StillActiveTyped DEF ApplyStarts
    <2>4. versions' \subseteq [set: 0 .. MaxRuleSets, at: Times]
        <3>1. versions' = versions \/
              versions' = versions \union {[set |-> ruleSets, at |-> now]}
            BY <1>6 DEF ApplyStarts
        <3>. QED
            BY <3>1 DEF TypeOK
    <2>5. /\ UNCHANGED <<now, project, events, lock, request, saving, ruleSets, saves, resets,
                     reverted, applied>>
          /\ behind' \subseteq behind
        BY <1>6 DEF ApplyStarts
    <2>. QED
        BY <1>0, <2>1, <2>2, <2>3, <2>4, <2>5, RunChange DEF TypeOK
<1>7. CASE ApplyBatch(w)
    <2>1. PICK batch \in SUBSET run[w].todo :
              /\ events' = Renamed(batch, run[w].rules)
              /\ \/ Finish(w) /\ applied' \in {None, Since(run[w])}
                 \/ /\ UNCHANGED lock /\ applied' \in {None, applied}
                    /\ \E x \in Run :
                         run' = [run EXCEPT ![w] = x] /\ x.todo = run[w].todo \ batch
        BY <1>7, BatchRuns
    <2>2. run[w] # None
        BY <1>7 DEF ApplyBatch, In
    <2>3. /\ events' \in Seq(Event) /\ Len(events') <= MaxEvents
          /\ DOMAIN events' = DOMAIN events
        BY <2>1, <2>2, Runs, RenamedEvents
    <2>4. UNCHANGED <<now, project, rules, versions, request, saving, ruleSets, saves, resets,
                     reverted, behind>>
        BY <1>7 DEF ApplyBatch
    <2>5. Since(run[w]) \in Int
        BY <2>2, Runs, Naturals DEF Since, Times
    <2>6. CASE Finish(w) /\ applied' \in {None, Since(run[w])}
        BY <1>0, <2>3, <2>4, <2>5, <2>6, FinishRuns DEF TypeOK
    <2>7. ASSUME UNCHANGED lock, applied' \in {None, applied}, NEW x \in Run,
                 run' = [run EXCEPT ![w] = x], x.todo = run[w].todo \ batch
          PROVE  TypeOK'
        BY <1>0, <2>2, <2>3, <2>4, <2>7, RunChange DEF TypeOK
    <2>. QED
        BY <2>1, <2>6, <2>7
<1>8. CASE BackfillReads(w)
    <2>1. RowSaved /\ run[w] # None
        BY <1>8, RowOfBackfill DEF BackfillReads, In
    <2>2. rules' \subseteq Rules /\ \A r \in rules' : r.set = ruleSets
        BY <1>8, StillActiveTyped DEF BackfillReads, TypeOK
    <2>3. UNCHANGED <<now, events, versions, request, saving, history>>
        BY <1>8 DEF BackfillReads
    <2>4. CASE Finish(w)
        BY <1>0, <2>1, <2>2, <2>3, <2>4, FinishRuns DEF RowSaved, TypeOK
    <2>5. CASE ~Finish(w)
        <3>1. PICK x \in Run : run' = [run EXCEPT ![w] = x] /\ x.todo = Unresolved
            BY <1>8, <2>1, <2>5, BackfillRuns DEF BackfillReads
        <3>2. lock' = lock /\ Unresolved \subseteq DOMAIN events
            BY <1>8, <2>5 DEF BackfillReads, Unresolved
        <3>. QED
            BY <1>0, <2>1, <2>2, <2>3, <3>1, <3>2, RunChange DEF RowSaved, TypeOK
    <2>. QED
        BY <2>4, <2>5
<1>9. CASE BackfillWrites(w)
    <2>1. /\ \E named : events' = Renamed(named, run[w].rules)
          /\ run[w] # None /\ Finish(w) /\ applied' \in {applied, None}
          /\ UNCHANGED <<now, project, rules, versions, request, saving, ruleSets, saves, resets,
                     reverted, behind>>
        BY <1>9 DEF BackfillWrites, In
    <2>2. /\ events' \in Seq(Event) /\ Len(events') <= MaxEvents
          /\ DOMAIN events' = DOMAIN events
        BY <2>1, Runs, RenamedEvents
    <2>. QED
        BY <1>0, <2>1, <2>2, FinishRuns DEF TypeOK
<1>. QED
    BY <1>1, <1>2, <1>3, <1>4, <1>5, <1>6, <1>7, <1>8, <1>9 DEF RunStep

LEMMA TypesKept ==
    ASSUME TypeOK, [Next]_vars
    PROVE  TypeOK'
<1>. USE DEF history
<1>0. TypeOK
    OBVIOUS
<1>1. CASE Tick
    BY <1>0, <1>1, Naturals DEF Tick, TypeOK, Times
<1>2. CASE Reset
    <2>1. /\ events' \in Seq(Event) /\ Len(events') <= MaxEvents
          /\ DOMAIN events' = DOMAIN events
        BY <1>2, ResetEvents
    <2>2. resets' \in Resets /\ project' \in Project
        <3>1. PICK at \in 0 .. now : /\ project' = RestartedProject(at)
                                     /\ resets' = [count |-> resets.count + 1, at |-> at]
            BY <1>2 DEF Reset
        <3>2. at \in Times
            BY Naturals DEF TypeOK, Times
        <3>3. resets.count + 1 \in 0 .. MaxResets
            <4>1. resets.count \in 0 .. MaxResets /\ resets.count < MaxResets
                BY <1>2 DEF Reset, TypeOK, Resets
            <4>. QED
                BY <4>1, Naturals
        <3>. QED
            BY <3>1, <3>2, <3>3 DEF RestartedProject, Resets, Project
    <2>3. /\ rules' = {} /\ applied' = 0 /\ behind' = {} /\ reverted' = FALSE
          /\ UNCHANGED <<now, versions, lock, run, request, saving, ruleSets, saves>>
        BY <1>2 DEF Reset
    <2>4. /\ applied' \in Int \union {None}
          /\ behind' \subseteq DOMAIN events' /\ rules' \subseteq Rules
          /\ \A r \in rules' : r.set = ruleSets'
        BY <2>3
    <2>5. reverted' \in BOOLEAN
        BY <2>3, Zenon
    <2>. QED
        BY <1>0, <2>1, <2>2, <2>3, <2>4, <2>5 DEF TypeOK
<1>3. ASSUME NEW w \in Workers, RunStep(w)
      PROVE  TypeOK'
    BY <1>3, RunStepTyped
<1>4. ASSUME NEW w \in Workers, Crash(w)
      PROVE  TypeOK'
    <2>1. /\ Finish(w)
          /\ UNCHANGED <<now, project, rules, events, versions, request, saving, history>>
        BY <1>4 DEF Crash
    <2>. QED
        BY <1>0, <2>1, FinishRuns DEF TypeOK
<1>5. ASSUME NEW q \in Requests, ParseRequest(q)
      PROVE  TypeOK'
    <2>1. request' \in [Requests -> Request \union {None}]
        BY <1>5, ParsedRequest
    <2>2. rules' \subseteq Rules /\ \A r \in rules' : r.set = ruleSets
        BY <1>5, StillActiveTyped DEF ParseRequest
    <2>. QED
        BY <1>0, <1>5, <2>1, <2>2 DEF ParseRequest, TypeOK
<1>6. ASSUME NEW q \in Requests, StoreEvent(q)
      PROVE  TypeOK'
    <2>1. /\ events' \in Seq(Event) /\ Len(events') <= MaxEvents
          /\ DOMAIN events' = DOMAIN events \union {Len(events) + 1}
          /\ request' \in [Requests -> Request \union {None}]
        BY <1>6, StoredEvents
    <2>2. behind' \subseteq behind \union {Len(events) + 1}
        BY <1>6 DEF StoreEvent
    <2>3. UNCHANGED <<now, project, rules, versions, lock, run, saving, ruleSets, saves, resets,
                     reverted, applied>>
        BY <1>6 DEF StoreEvent
    <2>. QED
        BY <1>0, <2>1, <2>2, <2>3 DEF TypeOK
<1>7. ASSUME NEW q \in Requests, NoteFirst(q)
      PROVE  TypeOK'
    <2>1. RowSaved /\ request' \in [Requests -> Request \union {None}]
        BY <1>7, RowOfRequest, EndedRequest
    <2>. QED
        BY <1>0, <1>7, <2>1 DEF NoteFirst, RowSaved, TypeOK
<1>8. ASSUME NEW q \in Requests, RequestFails(q)
      PROVE  TypeOK'
    <2>1. request' \in [Requests -> Request \union {None}]
        BY <1>8, EndedRequest
    <2>. QED
        BY <1>0, <1>8, <2>1 DEF RequestFails, TypeOK
<1>9. CASE UNCHANGED vars
    BY <1>0, <1>9 DEF vars, TypeOK
<1>10. CASE LoadProject
    <2>1. saving' \in Saving /\ saves' \in 0 .. MaxSaves
        BY <1>10, Naturals DEF LoadProject, Saving, TypeOK, Resets
    <2>. QED
        BY <1>0, <1>10, <2>1 DEF LoadProject, TypeOK
<1>11. CASE FullSave
    <2>1. project' \in Project /\ saving' = None /\ reverted' \in BOOLEAN
        BY <1>11 DEF FullSave, Saving, TypeOK
    <2>. QED
        BY <1>0, <1>11, <2>1 DEF FullSave, TypeOK
<1>. QED
    BY <1>1, <1>2, <1>3, <1>4, <1>5, <1>6, <1>7, <1>8, <1>9, <1>10, <1>11 DEF Next, RequestStep

LEMMA InitTyped == Init => TypeOK
<1>1. <<>> \in Seq(Event) /\ Len(<<>>) = 0
    BY EmptySeq
<1>. QED
    <2>1. Init => /\ now \in Times /\ project \in Project /\ resets \in Resets
                  /\ ruleSets \in 0 .. MaxRuleSets /\ saves \in 0 .. MaxSaves
                  /\ applied \in Int \union {None}
        BY Naturals DEF Init, Times, NewProject, Project, Resets
    <2>2. Init => /\ events \in Seq(Event) /\ Len(events) <= MaxEvents
                  /\ behind \subseteq DOMAIN events
        BY <1>1, Naturals DEF Init
    <2>3. Init => /\ rules \subseteq Rules /\ \A r \in rules : r.set = ruleSets
                  /\ versions \subseteq [set: 0 .. MaxRuleSets, at: Times]
                  /\ lock \in Workers \union {None}
                  /\ run \in [Workers -> Run \union {None}]
                  /\ request \in [Requests -> Request \union {None}]
                  /\ saving \in Saving \union {None} /\ reverted \in BOOLEAN
                  /\ \A w \in Workers : run[w] = None
        BY DEF Init
    <2>. QED
        BY <2>1, <2>2, <2>3 DEF TypeOK

-----------------------------------------------------------------------------
(* The lock, and what a run knows of the project.                          *)

\* A run that has gone on from where it asked for the lock has it.
Locked == \A w \in Workers : run[w] # None /\ run[w].phase # "loaded" => lock = w

\* While a run works with the copy of the project that it loaded.
Copies == {"loaded", "locked", "asking"}

\* Since the last reset: a row of the project read after it has a first event, and its
\* last change of state is not older; unless the row has been written back.
AfterReset(p, seen) ==
    seen = resets.count /\ resets.count > 0 /\ ~reverted =>
        p.first # None /\ p.changed # None /\ resets.at <= p.changed

\* So is the row, and every copy of it.
Dated ==
    /\ IsFiniteSet(versions)
    /\ resets.count > 0 => resets.at \in Times /\ resets.at <= now
    /\ AfterReset(project, resets.count)
    /\ saving # None => saving.seen <= resets.count /\ AfterReset(saving.project, saving.seen)
    /\ \A w \in Workers : run[w] # None =>
        /\ run[w].now <= now
        /\ run[w].phase \in Copies =>
            run[w].seen <= resets.count /\ AfterReset(run[w].project, run[w].seen)

\* What a step of a run does to the run and to the lock.
LockMoves(w) ==
    \/ run'[w] = None /\ (Finish(w) \/ lock' = lock)
    \/ run'[w].phase = "loaded" /\ lock' = lock
    \/ lock = None /\ lock' = w
    \/ run[w] # None /\ run[w].phase # "loaded" /\ lock' = lock

CopyMoves(w) ==
    run'[w] # None =>
        /\ run'[w] \in Run
        /\ \/ run'[w].now \in {0, now}
           \/ run[w] # None /\ run'[w].now = run[w].now
        /\ run'[w].phase \in Copies =>
            \/ run'[w].project = project /\ run'[w].seen = resets.count
            \/ /\ run[w] # None /\ run[w].phase \in Copies
               /\ run'[w].project = run[w].project /\ run'[w].seen = run[w].seen

RunMoves(w) ==
    /\ \A v \in Workers \ {w} : run'[v] = run[v]
    /\ LockMoves(w)
    /\ CopyMoves(w)

LEMMA FinishMoves ==
    ASSUME TypeOK, NEW w \in Workers, Finish(w)
    PROVE  RunMoves(w)
    BY FinishRuns DEF RunMoves, LockMoves, CopyMoves

LEMMA RunStepMoves ==
    ASSUME TypeOK, NEW w \in Workers, RunStep(w)
    PROVE  RunMoves(w)
<1>0. TypeOK
    OBVIOUS
<1>1. ASSUME Load(w)
      PROVE  RunMoves(w)
    <2>1. PICK x \in Run : /\ run' = [run EXCEPT ![w] = x] /\ x.phase = "loaded"
                           /\ x.project = project /\ x.seen = resets.count /\ x.now = 0
        BY <1>1, LoadRuns
    <2>2. lock' = lock
        BY <1>1 DEF Load
    <2>. QED
        BY <1>0, <2>1, <2>2, RunChange DEF RunMoves, LockMoves, CopyMoves
<1>2. CASE TryLock(w)
    <2>1. run[w] # None /\ run[w].phase = "loaded"
        BY <1>2 DEF TryLock, In
    <2>2. CASE lock = None
        <3>1. PICK x \in Run : /\ run' = [run EXCEPT ![w] = x] /\ x.phase = "locked"
                               /\ x.project = run[w].project /\ x.seen = run[w].seen /\ x.now = now
            BY <1>2, <2>2, LockRuns
        <3>2. lock' = w
            BY <1>2, <2>2 DEF TryLock
        <3>. QED
            BY <1>0, <2>1, <2>2, <3>1, <3>2, RunChange DEF RunMoves, LockMoves, CopyMoves, Copies
    <2>3. CASE lock # None
        <3>1. run' = [run EXCEPT ![w] = None] /\ lock' = lock
            BY <1>2, <2>3 DEF TryLock
        <3>. QED
            BY <1>0, <3>1, RunChange DEF RunMoves, LockMoves, CopyMoves
    <2>. QED
        BY <2>2, <2>3
<1>3. CASE HourlyRun(w) \/ DailyRun(w)
    <2>1. run[w] # None /\ run[w].phase = "locked"
        BY <1>3 DEF HourlyRun, DailyRun, In
    <2>2. ASSUME NEW naming \in {"bootstrap", "incremental"}, Ask(w, naming)
          PROVE  RunMoves(w)
        <3>1. PICK x \in Run : /\ run' = [run EXCEPT ![w] = x] /\ x.phase = "asking"
                               /\ x.project = run[w].project /\ x.seen = run[w].seen
                               /\ x.now = run[w].now
            BY <2>1, <2>2, AskRuns
        <3>2. lock' = lock
            BY <2>2 DEF Ask
        <3>. QED
            BY <1>0, <2>1, <3>1, <3>2, RunChange DEF RunMoves, LockMoves, CopyMoves, Copies
    <2>. QED
        BY <1>3, <2>2, FinishMoves DEF HourlyRun, DailyRun
<1>4. CASE AiFails(w)
    BY <1>4, FinishMoves DEF AiFails
<1>5. CASE ReplaceRules(w)
    <2>1. PICK x \in Run : /\ run' = [run EXCEPT ![w] = x] /\ x.phase = "replaced"
                           /\ x.now = run[w].now
        BY <1>5, ReplaceRuns
    <2>2. lock' = lock /\ run[w] # None /\ run[w].phase # "loaded"
        BY <1>5 DEF ReplaceRules, In
    <2>. QED
        BY <1>0, <2>1, <2>2, RunChange DEF RunMoves, LockMoves, CopyMoves, Copies
<1>6. CASE ApplyStarts(w)
    <2>1. PICK x \in Run : /\ run' = [run EXCEPT ![w] = x] /\ x.phase = "applying"
                           /\ x.now = run[w].now
        BY <1>6, StartRuns
    <2>2. lock' = lock /\ run[w] # None /\ run[w].phase # "loaded"
        BY <1>6 DEF ApplyStarts, In
    <2>. QED
        BY <1>0, <2>1, <2>2, RunChange DEF RunMoves, LockMoves, CopyMoves, Copies
<1>7. CASE ApplyBatch(w)
    <2>1. Finish(w) \/ \E x \in Run : /\ run' = [run EXCEPT ![w] = x] /\ x.phase = "applying"
                                      /\ x.now = run[w].now /\ lock' = lock
        BY <1>7, BatchRuns
    <2>2. run[w] # None /\ run[w].phase # "loaded"
        BY <1>7 DEF ApplyBatch, In
    <2>3. ASSUME NEW x \in Run, run' = [run EXCEPT ![w] = x], x.phase = "applying",
                 x.now = run[w].now, lock' = lock
          PROVE  RunMoves(w)
        BY <1>0, <2>2, <2>3, RunChange DEF RunMoves, LockMoves, CopyMoves, Copies
    <2>. QED
        BY <2>1, <2>3, FinishMoves
<1>8. CASE BackfillReads(w)
    <2>1. run[w] # None /\ run[w].phase # "loaded"
        BY <1>8 DEF BackfillReads, In
    <2>2. CASE ~Finish(w)
        <3>1. PICK x \in Run : /\ run' = [run EXCEPT ![w] = x] /\ x.phase = "backfilling"
                               /\ x.now = run[w].now
            BY <1>8, <2>1, <2>2, BackfillRuns DEF BackfillReads
        <3>2. lock' = lock
            BY <1>8, <2>2 DEF BackfillReads
        <3>. QED
            BY <1>0, <2>1, <3>1, <3>2, RunChange DEF RunMoves, LockMoves, CopyMoves, Copies
    <2>. QED
        BY <2>2, FinishMoves
<1>9. CASE BackfillWrites(w)
    BY <1>9, FinishMoves DEF BackfillWrites
<1>. QED
    BY <1>1, <1>2, <1>3, <1>4, <1>5, <1>6, <1>7, <1>8, <1>9 DEF RunStep

LEMMA LockedKept ==
    ASSUME TypeOK, Locked, [Next]_vars
    PROVE  Locked'
<1>1. ASSUME NEW w \in Workers, RunMoves(w)
      PROVE  Locked'
    <2>1. lock \in Workers \union {None} /\ w # None
        BY Naturals DEF TypeOK
    <2>. QED
        BY <1>1, <2>1, Naturals DEF RunMoves, LockMoves, Locked, Finish
<1>2. ASSUME NEW w \in Workers, Crash(w)
      PROVE  Locked'
    BY <1>1, <1>2, FinishMoves DEF Crash
<1>3. CASE UNCHANGED <<lock, run>>
    BY <1>3 DEF Locked
<1>. QED
    BY <1>1, <1>2, <1>3, RunStepMoves
    DEF Next, vars, Tick, Reset, LoadProject, FullSave, RequestStep, ParseRequest, StoreEvent,
        NoteFirst, RequestFails

\* All but a reset and a full save keep the row, or save a few columns of it.
LEMMA RowStep ==
    ASSUME TypeOK, Next
    PROVE  Reset \/ FullSave \/ RowSaved
<1>1. ASSUME NEW w \in Workers, RunStep(w)
      PROVE  RowSaved
    BY <1>1, RowOfHourly, RowOfDaily, RowOfBackfill, RowUnchanged
    DEF RunStep, Load, TryLock, AiFails, ReplaceRules, ApplyStarts, ApplyBatch, BackfillWrites
<1>2. ASSUME NEW q \in Requests, RequestStep(q)
      PROVE  RowSaved
    BY <1>2, RowOfRequest, RowUnchanged DEF RequestStep, ParseRequest, StoreEvent
<1>. QED
    BY <1>1, <1>2, RowUnchanged DEF Next, Tick, LoadProject, Crash, RequestFails

\* The clock only goes on, and the rest of the history of resets is that of Reset.
LEMMA ClockStep ==
    ASSUME TypeOK, Next
    PROVE  /\ now \in Nat /\ now' \in Nat /\ now <= now'
           /\ Reset \/ resets' = resets
           /\ \/ versions' = versions
              \/ /\ versions' = versions \union {[set |-> ruleSets, at |-> now]}
                 /\ resets' = resets
<1>1. now \in Nat
    BY Naturals DEF TypeOK, Times
<1>. DEFINE Clock == now' = now \/ now' = now + 1
             Versions == \/ versions' = versions
                         \/ /\ versions' = versions \union
                                    {[set |-> ruleSets, at |-> now]}
                            /\ resets' = resets
<1>2. Tick => Clock /\ Versions /\ resets' = resets
    BY DEF Tick, history
<1>3. Reset => Clock /\ Versions
    BY DEF Reset
<1>4. ASSUME NEW q \in Requests, RequestStep(q) \/ RequestFails(q)
      PROVE  Clock /\ Versions /\ resets' = resets
    BY <1>4 DEF RequestStep, ParseRequest, StoreEvent, NoteFirst, RequestFails, history
<1>5. ASSUME NEW w \in Workers, RunStep(w)
      PROVE  Clock /\ Versions /\ resets' = resets
    <2>1. CASE Load(w) \/ TryLock(w) \/ HourlyRun(w) \/ DailyRun(w) \/ AiFails(w)
        BY <2>1 DEF Load, TryLock, HourlyRun, DailyRun, AiFails, history
    <2>2. CASE ReplaceRules(w)
        BY <2>2 DEF ReplaceRules, history
    <2>3. CASE ApplyStarts(w) \/ ApplyBatch(w) \/ BackfillReads(w) \/ BackfillWrites(w)
        BY <2>3 DEF ApplyStarts, ApplyBatch, BackfillReads, BackfillWrites, history
    <2>. QED
        BY <1>5, <2>1, <2>2, <2>3 DEF RunStep
<1>6. ASSUME NEW w \in Workers, Crash(w)
      PROVE  Clock /\ Versions /\ resets' = resets
    BY <1>6 DEF Crash, history
<1>7. LoadProject \/ FullSave => Clock /\ Versions /\ resets' = resets
    BY DEF LoadProject, FullSave
<1>8. Clock /\ Versions /\ (Reset \/ resets' = resets)
    BY <1>2, <1>3, <1>4, <1>5, <1>6, <1>7 DEF Next
<1>. QED
    BY <1>1, <1>8

\* Only a reset and full saves say whether the row has been written back, and a copy to
\* be saved is of the row as it is.
LEMMA SavingStep ==
    ASSUME TypeOK, Next
    PROVE  \/ Reset \/ FullSave
           \/ /\ reverted' = reverted
              /\ saving' = saving \/ saving' = [project |-> project, seen |-> resets.count]
<1>1. ASSUME NEW w \in Workers, RunStep(w)
      PROVE  UNCHANGED <<saving, reverted>>
    BY <1>1 DEF RunStep, history, Load, TryLock, HourlyRun, DailyRun, AiFails, ReplaceRules,
        ApplyStarts, ApplyBatch, BackfillReads, BackfillWrites
<1>. QED
    BY <1>1 DEF Next, history, Tick, LoadProject, Crash, RequestStep, ParseRequest, StoreEvent,
        NoteFirst, RequestFails

\* A step moves one run at most.
LEMMA RunsStep ==
    ASSUME TypeOK, Next
    PROVE  UNCHANGED run \/ \E w \in Workers : RunMoves(w) /\ resets' = resets
<1>1. ASSUME NEW w \in Workers, RunStep(w)
      PROVE  RunMoves(w) /\ resets' = resets
    BY <1>1, RunStepMoves
    DEF RunStep, history, Load, TryLock, HourlyRun, DailyRun, AiFails, ReplaceRules,
        ApplyStarts, ApplyBatch, BackfillReads, BackfillWrites
<1>2. ASSUME NEW w \in Workers, Crash(w)
      PROVE  RunMoves(w) /\ resets' = resets
    BY <1>2, FinishMoves DEF Crash, history
<1>. QED
    BY <1>1, <1>2
    DEF Next, Tick, Reset, LoadProject, FullSave, RequestStep, ParseRequest, StoreEvent,
        NoteFirst, RequestFails

LEMMA DatedKept ==
    ASSUME TypeOK, Dated, [Next]_vars
    PROVE  Dated'
<1>1. CASE UNCHANGED vars
    BY <1>1 DEF vars, history, Dated, AfterReset
<1>. SUFFICES ASSUME Next
              PROVE  Dated'
    BY <1>1
<1>2. TypeOK /\ TypeOK'
    BY TypesKept
<1>3. /\ now \in Nat /\ now' \in Nat /\ now <= now'
      /\ Reset \/ resets' = resets
      /\ \/ versions' = versions
         \/ /\ versions' = versions \union {[set |-> ruleSets, at |-> now]}
            /\ resets' = resets
    BY ClockStep
<1>4. /\ resets.count \in Nat /\ resets.at \in Nat \union {None}
      /\ project.changed \in Nat \union {None} /\ project'.changed \in Nat \union {None}
      /\ saving # None => saving.seen \in Nat
      /\ \A w \in Workers : run[w] # None => run[w].now \in Nat /\ run[w].seen \in Nat
    <2>1. Times \subseteq Nat /\ 0 .. MaxResets \subseteq Nat
        BY Naturals DEF Times
    <2>2. resets \in Resets /\ project \in Project /\ project' \in Project
        BY <1>2 DEF TypeOK
    <2>3. saving # None => saving.seen \in Nat
        BY <1>2, <2>1 DEF TypeOK, Saving
    <2>4. \A w \in Workers : run[w] # None => run[w] \in Run
        BY <1>2 DEF TypeOK
    <2>5. resets.count \in Nat /\ resets.at \in Nat \union {None}
        BY <2>1, <2>2 DEF Resets
    <2>6. project.changed \in Nat \union {None} /\ project'.changed \in Nat \union {None}
        BY <2>1, <2>2 DEF Project
    <2>7. \A w \in Workers : run[w] # None => run[w].now \in Nat /\ run[w].seen \in Nat
        BY <2>1, <2>4 DEF Run
    <2>. QED
        BY <2>3, <2>5, <2>6, <2>7
<1>5. IsFiniteSet(versions')
    BY <1>3, FS_AddElement DEF Dated
<1>6. CASE Reset
    <2>1. PICK at \in 0 .. now :
              /\ resets' = [count |-> resets.count + 1, at |-> at]
              /\ project' = [state |-> "not_stable", changed |-> at, first |-> at]
              /\ UNCHANGED <<now, versions, run, saving>>
        BY <1>6 DEF Reset, RestartedProject
    <2>2. resets'.count = resets.count + 1 /\ resets'.at = at
        BY <2>1
    <2>3. at # None /\ at \in Times /\ at \in Nat /\ at <= now
        BY <1>2, <1>3, Naturals DEF TypeOK, Times
    <2>4. resets'.at \in Times /\ resets'.at <= now' /\ AfterReset(project, resets.count)'
        BY <1>3, <2>1, <2>2, <2>3 DEF AfterReset
    <2>5. ASSUME saving' # None
          PROVE  saving'.seen <= resets'.count /\ saving'.seen # resets'.count
        BY <1>4, <2>1, <2>2, <2>5 DEF Dated
    <2>6. ASSUME NEW w \in Workers, run'[w] # None
          PROVE  /\ run'[w].now <= now'
                 /\ run'[w].phase \in Copies =>
                    run'[w].seen <= resets'.count /\ run'[w].seen # resets'.count
        BY <1>4, <2>1, <2>2, <2>6 DEF Dated
    <2>. QED
        BY <1>5, <2>4, <2>5, <2>6 DEF Dated, AfterReset
<1>7. CASE FullSave
    <2>1. /\ saving # None /\ saving' = None /\ project' = saving.project
          /\ reverted' = (reverted \/ saving.seen # resets.count)
          /\ UNCHANGED <<now, versions, run, resets>>
        BY <1>7 DEF FullSave
    <2>2. AfterReset(project, resets.count)'
        BY <2>1 DEF Dated, AfterReset
    <2>3. ASSUME NEW p, NEW seen, AfterReset(p, seen)
          PROVE  seen = resets'.count /\ resets'.count > 0 /\ ~reverted' =>
                     p.first # None /\ p.changed # None /\ resets'.at <= p.changed
        BY <2>1, <2>3 DEF AfterReset
    <2>4. ASSUME NEW w \in Workers, run'[w] # None
          PROVE  /\ run'[w].now <= now'
                 /\ run'[w].phase \in Copies =>
                    run'[w].seen <= resets'.count /\ AfterReset(run[w].project, run[w].seen)'
        BY <2>1, <2>3, <2>4 DEF Dated, AfterReset
    <2>. QED
        BY <1>5, <2>1, <2>2, <2>4 DEF Dated
<1>8. CASE ~Reset /\ ~FullSave
    <2>1. resets' = resets /\ RowSaved /\ reverted' = reverted
        BY <1>3, <1>8, RowStep, SavingStep
    <2>2. resets.count > 0 => resets.at \in Times /\ resets.at <= now'
        BY <1>3, <1>4, Naturals DEF Dated, Times
    <2>3. AfterReset(project, resets.count)'
        <3>1. SUFFICES ASSUME resets.count > 0, ~reverted
                       PROVE  /\ project'.first # None /\ project'.changed # None
                              /\ resets.at <= project'.changed
            BY <2>1 DEF AfterReset
        <3>2. /\ resets.at \in Times /\ resets.at <= now /\ resets.at \in Nat
              /\ project.first # None /\ project.changed # None /\ resets.at <= project.changed
            BY <3>1, Naturals DEF Dated, AfterReset, Times
        <3>3. project'.changed \in {project.changed, now} /\ project'.first # None
            BY <2>1, <3>2 DEF RowSaved
        <3>. QED
            BY <1>3, <3>2, <3>3, Naturals
    <2>4. ASSUME saving' # None
          PROVE  saving'.seen <= resets'.count /\ AfterReset(saving.project, saving.seen)'
        <3>1. CASE saving' = saving
            BY <2>1, <2>4, <3>1 DEF Dated, AfterReset
        <3>2. CASE saving' = [project |-> project, seen |-> resets.count]
            BY <1>4, <2>1, <3>2 DEF Dated, AfterReset
        <3>. QED
            BY <1>8, <3>1, <3>2, SavingStep
    <2>5. ASSUME NEW w \in Workers, run'[w] # None
          PROVE  /\ run'[w].now <= now'
                 /\ run'[w].phase \in Copies =>
                    run'[w].seen <= resets'.count /\ AfterReset(run[w].project, run[w].seen)'
        <3>1. \/ run'[w] = run[w]
              \/ CopyMoves(w)
            BY RunsStep DEF RunMoves
        <3>2. CASE run'[w] = run[w]
            BY <1>3, <1>4, <2>1, <2>5, <3>2 DEF Dated, AfterReset
        <3>3. CASE CopyMoves(w)
            <4>1. run'[w].now <= now'
                BY <1>3, <1>4, <2>5, <3>3 DEF CopyMoves, Dated
            <4>2. CASE run'[w].project = project /\ run'[w].seen = resets.count
                BY <1>4, <2>1, <4>1, <4>2 DEF Dated, AfterReset
            <4>3. CASE /\ run[w] # None /\ run[w].phase \in Copies
                       /\ run'[w].project = run[w].project /\ run'[w].seen = run[w].seen
                BY <2>1, <4>1, <4>3 DEF Dated, AfterReset
            <4>. QED
                BY <2>5, <3>3, <4>1, <4>2, <4>3 DEF CopyMoves
        <3>. QED
            BY <3>1, <3>2, <3>3
    <2>. QED
        BY <1>5, <2>1, <2>2, <2>3, <2>4, <2>5 DEF Dated
<1>. QED
    BY <1>6, <1>7, <1>8

LEMMA InitDated == Init => Dated
    BY FS_EmptySet DEF Init, Dated, AfterReset

-----------------------------------------------------------------------------
(* The bootstrap.                                                          *)

Counted == {v \in versions : v.at > resets.at}

\* The versions that count for a copy read after the reset are later than it.
LEMMA CopyCounts ==
    ASSUME TypeOK, Dated, NEW w \in Workers, run[w] # None, run[w].phase \in Copies,
           run[w].seen = resets.count, resets.count > 0, ~reverted
    PROVE  BootstrapVersions(run[w].project) \subseteq Counted
<1>. DEFINE p == run[w].project
<1>1. SUFFICES ASSUME NEW v \in versions, p.changed # None => v.at > p.changed
               PROVE  v.at > resets.at
    BY DEF BootstrapVersions, Counted
<1>2. p.changed # None /\ resets.at <= p.changed /\ resets.at \in Times
    BY DEF Dated, AfterReset
<1>3. p.changed \in Times /\ v.at \in Times
    BY <1>2, Runs DEF Project, TypeOK
<1>4. Times \subseteq Nat
    BY Naturals DEF Times
<1>5. v.at > p.changed
    BY <1>1, <1>2
<1>6. v.at \in Nat /\ p.changed \in Nat /\ resets.at \in Nat
    BY <1>2, <1>3, <1>4
<1>. HIDE DEF p
<1>. QED
    BY <1>2, <1>5, <1>6

\* Which runs ask for rules.
LEMMA AskStep ==
    ASSUME TypeOK, Next, NEW w \in Workers, run'[w] # run[w], run'[w] # None,
           run'[w].phase = "asking"
    PROVE  HourlyRun(w) \/ DailyRun(w)
<1>1. ASSUME NEW v \in Workers, RunStep(v) \/ Crash(v)
      PROVE  v = w
    BY <1>1, RunStepMoves, FinishMoves DEF RunMoves, Crash
<1>2. ~Finish(w)
    BY FinishRuns
<1>3. RunStep(w)
    BY <1>1, <1>2
    DEF Next, Tick, Reset, LoadProject, FullSave, Crash, RequestStep, ParseRequest, StoreEvent,
        NoteFirst, RequestFails
<1>4. ASSUME Load(w)
      PROVE  FALSE
    BY <1>4, LoadRuns, RunChange
<1>5. ~TryLock(w)
    <2>1. SUFFICES ASSUME TryLock(w)
                   PROVE  FALSE
        OBVIOUS
    <2>2. lock = None
        BY <2>1, RunChange DEF TryLock
    <2>. QED
        BY <2>1, <2>2, LockRuns, RunChange
<1>6. ~ReplaceRules(w) /\ ~ApplyStarts(w)
    BY ReplaceRuns, StartRuns, RunChange
<1>7. ~ApplyBatch(w)
    BY <1>2, BatchRuns, RunChange
<1>8. ~BackfillReads(w)
    <2>1. SUFFICES ASSUME BackfillReads(w)
                   PROVE  FALSE
        OBVIOUS
    <2>2. \E x \in Run : run' = [run EXCEPT ![w] = x] /\ x.phase = "backfilling"
        BY <1>2, <2>1, BackfillRuns DEF BackfillReads, In
    <2>. QED
        BY <2>2, RunChange
<1>. QED
    BY <1>2, <1>3, <1>4, <1>5, <1>6, <1>7, <1>8 DEF RunStep, AiFails, BackfillWrites

LEMMA BootstrapKept ==
    ASSUME TypeOK, Dated, BootstrapRestarts, [Next]_vars
    PROVE  BootstrapRestarts'
<1>1. CASE UNCHANGED vars
    BY <1>1 DEF vars, history, BootstrapRestarts
<1>2. SUFFICES ASSUME Next, NEW w \in Workers,
                      run'[w] # None, run'[w].phase = "asking", run'[w].naming = "incremental",
                      run'[w].mode = "hourly_unstable", run'[w].project.state = "not_stable",
                      run'[w].seen = resets'.count, resets'.count > 0, ~reverted'
               PROVE  Cardinality(Counted') >= Target
    BY <1>1 DEF BootstrapRestarts, Counted
<1>3. TypeOK' /\ Dated'
    BY <1>2, TypesKept, DatedKept
<1>4. /\ Cardinality(Counted) \in Nat /\ Cardinality(Counted') \in Nat /\ Target \in Nat
      /\ IsFiniteSet(Counted) /\ IsFiniteSet(Counted')
    <2>1. IsFiniteSet(Counted) /\ IsFiniteSet(Counted')
        BY <1>3, FS_Subset DEF Dated, Counted
    <2>. QED
        BY <2>1, FS_CardinalityType, Naturals
<1>5. resets.count \in Nat
    BY Naturals DEF TypeOK, Resets
<1>6. CASE run'[w] = run[w]
    <2>1. ~Reset
        <3>1. run[w].seen <= resets.count /\ run[w].seen \in Nat
            BY <1>2, <1>6, Runs, Naturals DEF Dated, Copies, Run
        <3>2. Reset => resets'.count = resets.count + 1
            BY DEF Reset
        <3>. QED
            BY <1>2, <1>5, <1>6, <3>1, <3>2
    <2>2. resets' = resets /\ versions \subseteq versions' /\ ~reverted
        <3>1. resets' = resets /\ versions \subseteq versions'
            BY <1>2, <2>1, ClockStep
        <3>2. CASE FullSave
            BY <1>2, <3>1, <3>2, Zenon DEF FullSave
        <3>3. CASE reverted' = reverted
            BY <1>2, <3>1, <3>3, Zenon
        <3>. QED
            BY <1>2, <2>1, <3>2, <3>3, SavingStep, Zenon
    <2>3. Counted \subseteq Counted'
        BY <2>2 DEF Counted
    <2>4. Cardinality(Counted) >= Target
        BY <1>2, <1>6, <2>2 DEF BootstrapRestarts, Counted
    <2>5. Cardinality(Counted) <= Cardinality(Counted')
        BY <1>4, <2>3, FS_Subset
    <2>. QED
        BY <1>4, <2>4, <2>5
<1>7. CASE run'[w] # run[w]
    <2>1. HourlyRun(w) \/ DailyRun(w)
        BY <1>2, <1>7, AskStep
    <2>2. run[w] # None /\ run[w].phase = "locked"
        BY <2>1 DEF HourlyRun, DailyRun, In
    <2>3. ~Finish(w)
        BY <1>2, FinishRuns
    <2>4. PICK naming \in {"bootstrap", "incremental"} :
              Ask(w, naming) /\ (HourlyRun(w) => naming = Naming(run[w].project))
        BY <2>1, <2>3 DEF HourlyRun, DailyRun
    <2>5. PICK x \in Run : /\ run' = [run EXCEPT ![w] = x] /\ x.mode = run[w].mode
                           /\ x.project = run[w].project /\ x.seen = run[w].seen
                           /\ x.naming = naming
        BY <2>2, <2>4, AskRuns
    <2>6. run'[w] = x
        BY <2>5, RunChange
    <2>7. HourlyRun(w)
        BY <1>2, <2>1, <2>5, <2>6 DEF DailyRun
    <2>8. Naming(run[w].project) = "incremental" /\ run[w].project.state = "not_stable"
        BY <1>2, <2>4, <2>5, <2>6, <2>7
    <2>9. UNCHANGED <<resets, reverted, versions>>
        BY <2>7 DEF HourlyRun, history
    <2>10. run[w].seen = resets.count
        BY <1>2, <2>5, <2>6, <2>9
    <2>11. BootstrapVersions(run[w].project) \subseteq Counted
        BY <1>2, <2>2, <2>9, <2>10, CopyCounts DEF Copies
    <2>12. /\ Cardinality(BootstrapVersions(run[w].project)) \in Nat
           /\ Cardinality(BootstrapVersions(run[w].project)) <= Cardinality(Counted)
        BY <1>4, <2>11, FS_Subset, FS_CardinalityType
    <2>13. ~(Cardinality(BootstrapVersions(run[w].project)) < Target)
        BY <2>8 DEF Naming
    <2>14. Counted' = Counted
        BY <2>9 DEF Counted
    <2>. QED
        BY <1>4, <2>12, <2>13, <2>14
<1>. QED
    BY <1>6, <1>7

LEMMA InitBootstrap == Init => BootstrapRestarts
    BY DEF Init, BootstrapRestarts

\* A project becomes stable again by the clock that the run that found it so has
\* started with.
LEMMA StableStep ==
    ASSUME TypeOK, Dated, Next, NEW w \in Workers,
           project.state = "not_stable", project'.state = "stable",
           run[w] # None, run'[w] = None, run[w].seen = resets.count, resets.count > 0,
           ~reverted
    PROVE  \/ run[w].project.first # None /\ run[w].project.first < resets.at
           \/ now - resets.at > Min({Soft, Hard})
<1>1. HourlyRun(w)
    <2>1. ~UNCHANGED project
        OBVIOUS
    <2>2. ~Reset
        BY DEF Reset, RestartedProject
    <2>3. ASSUME NEW q \in Requests, NoteFirst(q)
          PROVE  FALSE
        BY <2>3, RowOfRequest
    <2>4. ASSUME NEW v \in Workers, DailyRun(v) \/ BackfillReads(v)
          PROVE  FALSE
        BY <2>4, RowOfDaily, RowOfBackfill
    <2>5. PICK v \in Workers : HourlyRun(v)
        BY <2>1, <2>2, <2>3, <2>4
        DEF Next, Tick, LoadProject, FullSave, RunStep, Load, TryLock, AiFails, ReplaceRules,
            ApplyStarts, ApplyBatch, BackfillWrites, Crash, RequestStep, ParseRequest, StoreEvent, RequestFails
    <2>6. v = w
        BY <2>5, RunStepMoves DEF RunStep, RunMoves
    <2>. QED
        BY <2>5, <2>6
<1>. DEFINE p == run[w].project
            t == run[w].now
<1>2. run[w].phase = "locked" /\ p \in Project /\ t \in Times
    BY <1>1, Runs DEF HourlyRun, In
<1>3. p.first # None /\ resets.at \in Times /\ t <= now
    <2>1. run[w].now <= now /\ AfterReset(p, run[w].seen) /\ resets.at \in Times
        BY <1>2 DEF Dated, Copies
    <2>. QED
        BY <2>1, Zenon DEF AfterReset
<1>4. p.first \in Nat /\ resets.at \in Nat /\ t \in Nat /\ now \in Nat
    <2>1. Times \subseteq Nat
        BY Naturals DEF Times
    <2>2. now \in Times
        BY DEF TypeOK
    <2>3. p.first \in Times
        BY <1>2, <1>3 DEF Project
    <2>. QED
        BY <1>2, <1>3, <2>1, <2>2, <2>3
<1>5. ReadyToBeStable(p.first, t)
    <2>1. FirstFor(p) = p.first
        BY <1>3 DEF FirstFor
    <2>2. EnsureFirst(project, p.first, p.first) = project
        BY <1>3, <1>4 DEF EnsureFirst
    <2>. QED
        BY <1>1, <2>1, <2>2 DEF HourlyRun
<1>6. t - p.first > Hard \/ t - p.first > Soft
    BY <1>5 DEF ReadyToBeStable
<1>7. /\ Min({Soft, Hard}) \in Nat
      /\ Min({Soft, Hard}) <= Soft /\ Min({Soft, Hard}) <= Hard
    <2>1. Soft \in Nat /\ Hard \in Nat
        BY Naturals
    <2>2. \E x \in {Soft, Hard} : \A y \in {Soft, Hard} : x <= y
        BY <2>1
    <2>3. Min({Soft, Hard}) \in {Soft, Hard} /\ \A y \in {Soft, Hard} : Min({Soft, Hard}) <= y
        BY <2>2 DEF Min
    <2>. QED
        BY <2>1, <2>3
<1>. QED
    BY <1>3, <1>4, <1>6, <1>7, Naturals

-----------------------------------------------------------------------------
(* The names.                                                              *)

\* A request that no rule set and no reset has overtaken names by the active rules.
RequestsKnow ==
    \A q \in Requests : request[q] # None =>
        /\ request[q].sets <= ruleSets /\ request[q].seen <= resets.count
        /\ request[q].sets = ruleSets /\ request[q].seen = resets.count =>
            request[q].rules = Compiled(rules)

Applies(w) ==
    run[w] # None /\ run[w].phase \in {"replaced", "applying"} /\ run[w].read = resets.count

Backfills(w) ==
    run[w] # None /\ run[w].phase = "backfilling" /\ run[w].read = resets.count

\* So does a run that no reset has overtaken; one that applies new rules still has,
\* in todo, every event of its window that has no name by them yet.
Knows(w) ==
    /\ run[w] # None => run[w].read <= resets.count
    /\ Applies(w) => applied = None
    /\ Applies(w) \/ Backfills(w) => Compiled(run[w].rules) = Compiled(rules)
    /\ Applies(w) /\ run[w].phase = "applying" =>
        \A i \in DOMAIN events \ (behind \union run[w].todo) :
            events[i].at >= Since(run[w]) => events[i].rule = Match(events[i].url, run[w].rules)

RunsKnow == \A w \in Workers : Knows(w)

\* What takes nothing but broken rules out of the active ones, and what leaves the
\* rules to their replacement.
SameRules == Compiled(rules') = Compiled(rules) /\ ruleSets' = ruleSets /\ resets' = resets

LEMMA RulesStep ==
    ASSUME TypeOK, Next
    PROVE  \/ SameRules
           \/ Reset
           \/ \E w \in Workers : ReplaceRules(w)
<1>1. ASSUME NEW w \in Workers, RunStep(w)
      PROVE  SameRules \/ ReplaceRules(w)
    <2>1. CASE Load(w) \/ TryLock(w) \/ AiFails(w)
        BY <2>1 DEF SameRules, history, Load, TryLock, AiFails
    <2>2. CASE HourlyRun(w) \/ DailyRun(w) \/ BackfillReads(w)
        BY <2>2, StillActiveCompiled DEF SameRules, history, HourlyRun, DailyRun, BackfillReads
    <2>3. CASE ApplyStarts(w) \/ ApplyBatch(w) \/ BackfillWrites(w)
        BY <2>3, StillActiveCompiled DEF SameRules, ApplyStarts, ApplyBatch, BackfillWrites
    <2>. QED
        BY <1>1, <2>1, <2>2, <2>3 DEF RunStep
<1>2. ASSUME NEW w \in Workers, Crash(w)
      PROVE  SameRules
    BY <1>2 DEF SameRules, Crash, history
<1>3. ASSUME NEW q \in Requests, RequestStep(q) \/ RequestFails(q)
      PROVE  SameRules
    BY <1>3, StillActiveCompiled
    DEF SameRules, history, RequestStep, ParseRequest, StoreEvent, NoteFirst, RequestFails
<1>4. Tick \/ LoadProject \/ FullSave => SameRules
    BY DEF SameRules, history, Tick, LoadProject, FullSave
<1>. QED
    BY <1>1, <1>2, <1>3, <1>4 DEF Next

LEMMA Counts ==
    ASSUME TypeOK
    PROVE  /\ ruleSets \in Nat /\ resets.count \in Nat
           /\ \A q \in Requests : request[q] # None => request[q].sets \in Nat /\ request[q].seen \in Nat
           /\ \A w \in Workers : run[w] # None => run[w].read \in Nat
<1>1. 0 .. MaxRuleSets \subseteq Nat /\ 0 .. MaxResets \subseteq Nat
    BY Naturals
<1>. QED
    BY <1>1 DEF TypeOK, Resets, Request, Run

\* Requests change on their own.
LEMMA RequestsStep ==
    ASSUME TypeOK, Next
    PROVE  \A q \in Requests :
               \/ request'[q] = request[q]
               \/ request'[q] = None
               \/ SameRules /\ /\ request'[q].sets = ruleSets /\ request'[q].seen = resets.count
                               /\ request'[q].rules = Compiled(rules)
               \/ SameRules /\ /\ request[q] # None
                               /\ request'[q].sets = request[q].sets
                               /\ request'[q].seen = request[q].seen
                               /\ request'[q].rules = request[q].rules
<1>1. CASE UNCHANGED request
    BY <1>1
<1>2. ASSUME NEW q \in Requests, ParseRequest(q)
      PROVE  /\ SameRules /\ request'[q].sets = ruleSets /\ request'[q].seen = resets.count
             /\ request'[q].rules = Compiled(rules)
             /\ \A p \in Requests \ {q} : request'[p] = request[p]
    BY <1>2, ParsedRequest, StillActiveCompiled DEF ParseRequest, SameRules, history
<1>3. ASSUME NEW q \in Requests, StoreEvent(q)
      PROVE  /\ SameRules /\ request[q] # None
             /\ request'[q].sets = request[q].sets /\ request'[q].seen = request[q].seen
             /\ request'[q].rules = request[q].rules
             /\ \A p \in Requests \ {q} : request'[p] = request[p]
    BY <1>3, StoredEvents DEF StoreEvent, SameRules
<1>4. ASSUME NEW q \in Requests, NoteFirst(q) \/ RequestFails(q)
      PROVE  /\ request'[q] = None
             /\ \A p \in Requests \ {q} : request'[p] = request[p]
    BY <1>4, EndedRequest
<1>5. \/ UNCHANGED request
      \/ \E q \in Requests : ParseRequest(q) \/ StoreEvent(q) \/ NoteFirst(q) \/ RequestFails(q)
    BY DEF Next, Tick, Reset, LoadProject, FullSave, RunStep, Load, TryLock, HourlyRun, DailyRun, AiFails,
           ReplaceRules, ApplyStarts, ApplyBatch, BackfillReads, BackfillWrites, Crash, RequestStep
<1>. QED
    BY <1>1, <1>2, <1>3, <1>4, <1>5

LEMMA RequestsKnowKept ==
    ASSUME TypeOK, RequestsKnow, [Next]_vars
    PROVE  RequestsKnow'
<1>1. CASE UNCHANGED vars
    BY <1>1 DEF vars, history, RequestsKnow
<1>. SUFFICES ASSUME Next, NEW q \in Requests, request'[q] # None
              PROVE  /\ request'[q].sets <= ruleSets' /\ request'[q].seen <= resets'.count
                     /\ request'[q].sets = ruleSets' /\ request'[q].seen = resets'.count =>
                            request'[q].rules = Compiled(rules')
    BY <1>1 DEF RequestsKnow
<1>2. CASE request'[q] = request[q]
    <2>1. /\ request[q].sets <= ruleSets /\ request[q].seen <= resets.count
          /\ request[q].sets = ruleSets /\ request[q].seen = resets.count =>
                request[q].rules = Compiled(rules)
        BY <1>2 DEF RequestsKnow
    <2>2. CASE SameRules
        BY <1>2, <2>1, <2>2 DEF SameRules
    <2>3. CASE Reset
        <3>1. ruleSets' = ruleSets /\ resets'.count = resets.count + 1
            BY <2>3 DEF Reset
        <3>. QED
            BY <1>2, <2>1, <3>1, Counts
    <2>4. ASSUME NEW w \in Workers, ReplaceRules(w)
          PROVE  ruleSets' = ruleSets + 1 /\ resets' = resets
        BY <2>4 DEF ReplaceRules
    <2>. QED
        BY <1>2, <2>1, <2>2, <2>3, <2>4, RulesStep, Counts
<1>3. CASE /\ SameRules /\ request'[q].sets = ruleSets /\ request'[q].seen = resets.count
           /\ request'[q].rules = Compiled(rules)
    BY <1>3, Counts DEF SameRules
<1>4. CASE /\ SameRules /\ request[q] # None
           /\ request'[q].sets = request[q].sets /\ request'[q].seen = request[q].seen
           /\ request'[q].rules = request[q].rules
    BY <1>4 DEF SameRules, RequestsKnow
<1>. QED
    BY <1>2, <1>3, <1>4, RequestsStep

\* An event that is stored is behind, or has its name by the active rules.
LEMMA StoredName ==
    ASSUME TypeOK, RequestsKnow, NEW q \in Requests, StoreEvent(q)
    PROVE  \A i \in DOMAIN events' \ behind' :
               \/ i \in DOMAIN events \ behind /\ events'[i] = events[i]
               \/ events'[i].rule = Match(events'[i].url, rules)
<1>1. /\ DOMAIN events' = DOMAIN events \union {Len(events) + 1}
      /\ \A i \in DOMAIN events : events'[i] = events[i]
      /\ events'[Len(events) + 1].rule = Match(events'[Len(events) + 1].url, request[q].rules)
    BY StoredEvents
<1>2. behind' = IF request[q].sets = ruleSets /\ request[q].seen = resets.count THEN behind
                ELSE behind \union {Len(events) + 1}
    BY DEF StoreEvent
<1>3. request[q].sets = ruleSets /\ request[q].seen = resets.count =>
        request[q].rules = Compiled(rules)
    BY DEF StoreEvent, RequestsKnow
<1>4. \A url : Match(url, Compiled(rules)) = Match(url, rules)
    BY CompiledTwice, MatchCompiled
<1>. QED
    BY <1>1, <1>2, <1>3, <1>4

\* Names and rules stay what they are to a run that stays what it is.
Untouched == UNCHANGED <<events, behind, applied>> /\ SameRules

LEMMA UntouchedNames ==
    ASSUME NamesCurrent, Untouched
    PROVE  NamesCurrent'
<1>1. \A url : Match(url, rules') = Match(url, rules)
    BY MatchCompiled DEF Untouched, SameRules
<1>. QED
    BY <1>1 DEF Untouched, NamesCurrent

LEMMA UntouchedKnows ==
    ASSUME Untouched, NEW v \in Workers, Knows(v), run'[v] = run[v]
    PROVE  Knows(v)'
    BY DEF Untouched, SameRules, Knows, Applies, Backfills, Since

\* Only the run that has the lock renames or replaces.
LEMMA Alone ==
    ASSUME Locked, NEW w \in Workers, run[w] # None, run[w].phase # "loaded"
    PROVE  \A v \in Workers \ {w} : ~Applies(v) /\ ~Backfills(v)
    BY DEF Locked, Applies, Backfills

\* A run that neither applies nor backfills knows nothing that could be false.
LEMMA Innocent ==
    ASSUME NEW v \in Workers, run'[v] # None => run'[v].read <= resets'.count,
           ~Applies(v)', ~Backfills(v)'
    PROVE  Knows(v)'
    BY DEF Knows

\* The other runs, when a run that has the lock changes names or rules.
LEMMA OthersInnocent ==
    ASSUME Locked, RunsKnow, NEW w \in Workers, run[w] # None, run[w].phase # "loaded",
           resets' = resets, NEW v \in Workers \ {w}, run'[v] = run[v]
    PROVE  Knows(v)'
<1>1. ~Applies(v) /\ ~Backfills(v)
    BY Alone
<1>2. run[v] # None => run[v].read <= resets.count
    BY DEF RunsKnow, Knows
<1>3. ~Applies(v)' /\ ~Backfills(v)'
    BY <1>1 DEF Applies, Backfills
<1>. QED
    BY <1>2, <1>3, Innocent

Soundness == TypeOK /\ Locked /\ RequestsKnow /\ RunsKnow /\ NamesCurrent

LEMMA ReplaceNames ==
    ASSUME Soundness, NEW w \in Workers, ReplaceRules(w)
    PROVE  RunsKnow' /\ NamesCurrent'
<1>1. PICK x \in Run : /\ run' = [run EXCEPT ![w] = x] /\ x.phase = "replaced"
                       /\ x.rules = rules' /\ x.read = resets.count
    BY ReplaceRuns DEF Soundness
<1>2. run'[w] = x /\ \A v \in Workers \ {w} : run'[v] = run[v]
    BY <1>1, RunChange DEF Soundness
<1>3. applied' = None /\ resets' = resets /\ run[w] # None /\ run[w].phase # "loaded"
    BY DEF ReplaceRules, In
<1>4. NamesCurrent'
    BY <1>3 DEF NamesCurrent
<1>5. Knows(w)'
    BY <1>1, <1>2, <1>3, Counts DEF Knows, Applies, Backfills, Soundness
<1>6. \A v \in Workers \ {w} : Knows(v)'
    BY <1>2, <1>3, OthersInnocent DEF Soundness
<1>. QED
    BY <1>4, <1>5, <1>6 DEF RunsKnow

LEMMA StartNames ==
    ASSUME Soundness, NEW w \in Workers, ApplyStarts(w)
    PROVE  RunsKnow' /\ NamesCurrent'
<1>1. PICK x \in Run : /\ run' = [run EXCEPT ![w] = x] /\ x.phase = "applying"
                       /\ x.rules = run[w].rules /\ x.read = run[w].read
                       /\ x.now = run[w].now /\ x.mode = run[w].mode
                       /\ x.todo = ToRename(run[w])
    BY StartRuns DEF Soundness
<1>2. run'[w] = x /\ \A v \in Workers \ {w} : run'[v] = run[v]
    BY <1>1, RunChange DEF Soundness
<1>3. /\ SameRules /\ run[w] # None /\ run[w].phase = "replaced"
      /\ UNCHANGED <<events, applied, resets>>
      /\ behind' = IF run[w].read = resets.count THEN behind \ ToRename(run[w]) ELSE behind
    BY StillActiveCompiled DEF ApplyStarts, In, SameRules
<1>4. Knows(w)
    BY DEF Soundness, RunsKnow
<1>5. NamesCurrent'
    <2>1. CASE Applies(w)
        BY <1>3, <1>4, <2>1 DEF Knows, NamesCurrent
    <2>2. CASE ~Applies(w)
        <3>1. Untouched
            BY <1>3, <2>2 DEF Untouched, Applies
        <3>. QED
            BY <3>1, UntouchedNames DEF Soundness
    <2>. QED
        BY <2>1, <2>2
<1>6. Knows(w)'
    <2>1. run'[w].read <= resets'.count /\ ~Backfills(w)'
        BY <1>1, <1>2, <1>3, <1>4 DEF Knows, Backfills
    <2>2. Applies(w)' => Applies(w)
        BY <1>1, <1>2, <1>3 DEF Applies
    <2>3. Applies(w) => applied' = None /\ Compiled(run'[w].rules) = Compiled(rules')
        BY <1>1, <1>2, <1>3, <1>4 DEF Knows, SameRules
    <2>4. Since(run'[w]) = Since(run[w])
        BY <1>1, <1>2 DEF Since
    <2>5. \A i \in DOMAIN events' \ (behind' \union run'[w].todo) :
              ~(events'[i].at >= Since(run'[w]))
        BY <1>1, <1>2, <1>3, <2>4 DEF ToRename
    <2>. QED
        BY <2>1, <2>2, <2>3, <2>5 DEF Knows
<1>7. \A v \in Workers \ {w} : Knows(v)'
    BY <1>2, <1>3, OthersInnocent DEF Soundness
<1>. QED
    BY <1>5, <1>6, <1>7 DEF RunsKnow

LEMMA BatchNames ==
    ASSUME Soundness, NEW w \in Workers, ApplyBatch(w)
    PROVE  RunsKnow' /\ NamesCurrent'
<1>. DEFINE r == run[w]
<1>1. PICK batch \in SUBSET r.todo :
          /\ events' = Renamed(batch, r.rules)
          /\ \/ /\ batch = r.todo /\ Finish(w)
                /\ applied' = IF r.read = resets.count THEN Since(r) ELSE None
             \/ /\ applied' = IF r.read = resets.count THEN applied ELSE None
                /\ \E x \in Run :
                     /\ run' = [run EXCEPT ![w] = x]
                     /\ x.phase = "applying" /\ x.rules = r.rules
                     /\ x.read = r.read /\ x.now = r.now
                     /\ x.mode = r.mode /\ x.todo = r.todo \ batch
    BY BatchRuns DEF Soundness
<1>2. /\ run[w] # None /\ run[w].phase = "applying"
      /\ UNCHANGED <<rules, ruleSets, resets, behind>>
    BY DEF ApplyBatch, In
<1>3. /\ DOMAIN events' = DOMAIN events
      /\ \A i \in DOMAIN events :
            /\ events'[i].url = events[i].url /\ events'[i].at = events[i].at
            /\ events'[i].rule = IF i \in batch THEN Match(events[i].url, r.rules) ELSE events[i].rule
    BY <1>1, <1>2, Runs, RenamedEvents DEF Soundness
<1>4. Knows(w)
    BY DEF Soundness, RunsKnow
<1>5. ASSUME Applies(w)
      PROVE  /\ applied = None
             /\ \A url : Match(url, r.rules) = Match(url, rules)
             /\ \A i \in DOMAIN events' \ (behind \union (r.todo \ batch)) :
                    events'[i].at >= Since(r) => events'[i].rule = Match(events'[i].url, r.rules)
    <2>1. /\ applied = None /\ Compiled(r.rules) = Compiled(rules)
          /\ \A i \in DOMAIN events \ (behind \union r.todo) :
                events[i].at >= Since(r) => events[i].rule = Match(events[i].url, r.rules)
        BY <1>2, <1>4, <1>5 DEF Knows
    <2>2. \A url : Match(url, r.rules) = Match(url, rules)
        BY <2>1, MatchCompiled
    <2>. QED
        BY <1>3, <2>1, <2>2
<1>6. CASE batch = r.todo /\ Finish(w)
           /\ applied' = IF r.read = resets.count THEN Since(r) ELSE None
    <2>1. run'[w] = None /\ \A v \in Workers \ {w} : run'[v] = run[v]
        BY <1>6, FinishRuns DEF Soundness
    <2>2. NamesCurrent'
        <3>1. CASE Applies(w)
            <4>1. \A i \in DOMAIN events' \ behind :
                      events'[i].at >= Since(r) => events'[i].rule = Match(events'[i].url, rules)
                BY <1>5, <1>6, <3>1
            <4>2. applied' = Since(r)
                BY <1>6, <3>1 DEF Applies
            <4>. QED
                BY <1>2, <4>1, <4>2 DEF NamesCurrent
        <3>2. CASE ~Applies(w)
            BY <1>2, <1>6, <3>2 DEF Applies, NamesCurrent
        <3>. QED
            BY <3>1, <3>2
    <2>3. Knows(w)'
        BY <2>1 DEF Knows, Applies, Backfills
    <2>4. \A v \in Workers \ {w} : Knows(v)'
        BY <1>2, <2>1, OthersInnocent DEF Soundness
    <2>. QED
        BY <2>2, <2>3, <2>4 DEF RunsKnow
<1>7. ASSUME applied' = (IF r.read = resets.count THEN applied ELSE None), NEW x \in Run,
             run' = [run EXCEPT ![w] = x], x.phase = "applying", x.rules = r.rules,
             x.read = r.read, x.now = r.now, x.mode = r.mode, x.todo = r.todo \ batch
      PROVE  RunsKnow' /\ NamesCurrent'
    <2>1. run'[w] = x /\ \A v \in Workers \ {w} : run'[v] = run[v]
        BY <1>7, RunChange DEF Soundness
    <2>2. applied' = None
        BY <1>2, <1>5, <1>7 DEF Applies
    <2>3. NamesCurrent'
        BY <2>2 DEF NamesCurrent
    <2>4. Since(x) = Since(r)
        BY <1>7 DEF Since
    <2>5. Knows(w)'
        <3>1. x.read <= resets'.count /\ ~Backfills(w)'
            BY <1>2, <1>4, <1>7, <2>1 DEF Knows, Backfills
        <3>2. Applies(w)' => Applies(w)
            BY <1>2, <1>7, <2>1 DEF Applies
        <3>3. Applies(w) => Compiled(x.rules) = Compiled(rules')
            BY <1>2, <1>4, <1>7 DEF Knows
        <3>4. ASSUME Applies(w)
              PROVE  \A i \in DOMAIN events' \ (behind' \union x.todo) :
                        events'[i].at >= Since(x) => events'[i].rule = Match(events'[i].url, x.rules)
            BY <1>2, <1>5, <1>7, <2>4, <3>4
        <3>. QED
            BY <2>1, <2>2, <3>1, <3>2, <3>3, <3>4 DEF Knows
    <2>6. \A v \in Workers \ {w} : Knows(v)'
        BY <1>2, <2>1, OthersInnocent DEF Soundness
    <2>. QED
        BY <2>3, <2>5, <2>6 DEF RunsKnow
<1>. QED
    BY <1>1, <1>6, <1>7

LEMMA BackfillNames ==
    ASSUME Soundness, NEW w \in Workers, BackfillWrites(w)
    PROVE  RunsKnow' /\ NamesCurrent'
<1>. DEFINE r     == run[w]
            named == {i \in r.todo : Match(events[i].url, r.rules) # None}
<1>1. /\ run[w] # None /\ run[w].phase = "backfilling" /\ Finish(w)
      /\ events' = Renamed(named, r.rules)
      /\ applied' = IF r.read = resets.count \/ named = {} THEN applied ELSE None
      /\ UNCHANGED <<rules, ruleSets, resets, behind>>
    BY DEF BackfillWrites, In
<1>. HIDE DEF named
<1>2. /\ DOMAIN events' = DOMAIN events
      /\ \A i \in DOMAIN events :
            /\ events'[i].url = events[i].url /\ events'[i].at = events[i].at
            /\ events'[i].rule = IF i \in named THEN Match(events[i].url, r.rules) ELSE events[i].rule
    BY <1>1, Runs, RenamedEvents DEF Soundness
<1>3. Backfills(w) => \A url : Match(url, r.rules) = Match(url, rules)
    <2>1. Backfills(w) => Compiled(r.rules) = Compiled(rules)
        BY DEF Soundness, RunsKnow, Knows
    <2>. QED
        BY <2>1, MatchCompiled
<1>4. NamesCurrent'
    <2>1. CASE named = {}
        BY <1>1, <1>2, <2>1 DEF Soundness, NamesCurrent
    <2>2. CASE Backfills(w)
        BY <1>1, <1>2, <1>3, <2>2 DEF Soundness, NamesCurrent, Backfills
    <2>3. CASE ~Backfills(w) /\ named # {}
        BY <1>1, <2>3 DEF Backfills, NamesCurrent
    <2>. QED
        BY <2>1, <2>2, <2>3
<1>5. run'[w] = None /\ \A v \in Workers \ {w} : run'[v] = run[v]
    BY <1>1, FinishRuns DEF Soundness
<1>6. Knows(w)'
    BY <1>5 DEF Knows, Applies, Backfills
<1>7. \A v \in Workers \ {w} : Knows(v)'
    BY <1>1, <1>5, OthersInnocent DEF Soundness
<1>. QED
    BY <1>4, <1>6, <1>7 DEF RunsKnow

LEMMA ResetNames ==
    ASSUME Soundness, Reset
    PROVE  RunsKnow' /\ NamesCurrent'
<1>1. /\ resets'.count = resets.count + 1 /\ run' = run /\ rules' = {}
      /\ DOMAIN events' = DOMAIN events /\ \A i \in DOMAIN events : events'[i].rule = None
    <2>1. resets'.count = resets.count + 1 /\ run' = run /\ rules' = {}
        BY DEF Reset
    <2>. QED
        BY <2>1, ResetEvents DEF Soundness
<1>2. \A url : Match(url, {}) = None
    BY DEF Match, Compiled
<1>3. NamesCurrent'
    BY <1>1, <1>2 DEF NamesCurrent
<1>4. ASSUME NEW v \in Workers
      PROVE  Knows(v)'
    <2>1. run[v] # None => run[v].read <= resets.count /\ run[v].read \in Nat /\ resets.count \in Nat
        BY Counts DEF Soundness, RunsKnow, Knows
    <2>2. run'[v] # None => run'[v].read <= resets'.count /\ run'[v].read # resets'.count
        BY <1>1, <2>1
    <2>3. ~Applies(v)' /\ ~Backfills(v)'
        BY <2>2 DEF Applies, Backfills
    <2>. QED
        BY <2>2, <2>3, Innocent
<1>. QED
    BY <1>3, <1>4 DEF RunsKnow

LEMMA StoreNames ==
    ASSUME Soundness, NEW q \in Requests, StoreEvent(q)
    PROVE  RunsKnow' /\ NamesCurrent'
<1>1. UNCHANGED <<rules, run, ruleSets, resets, applied>>
    BY DEF StoreEvent
<1>2. \A i \in DOMAIN events' \ behind' :
          \/ i \in DOMAIN events \ behind /\ events'[i] = events[i]
          \/ events'[i].rule = Match(events'[i].url, rules)
    BY StoredName DEF Soundness
<1>3. NamesCurrent'
    BY <1>1, <1>2 DEF NamesCurrent, Soundness
<1>4. ASSUME NEW v \in Workers
      PROVE  Knows(v)'
    <2>1. Knows(v)
        BY DEF Soundness, RunsKnow
    <2>2. Applies(v) => \A url : Match(url, run[v].rules) = Match(url, rules)
        BY <2>1, MatchCompiled DEF Knows
    <2>3. Applies(v)' <=> Applies(v)
        BY <1>1 DEF Applies
    <2>4. Backfills(v)' <=> Backfills(v)
        BY <1>1 DEF Backfills
    <2>5. Since(run'[v]) = Since(run[v])
        BY <1>1 DEF Since
    <2>6. ASSUME Applies(v), run[v].phase = "applying",
                 NEW i \in DOMAIN events' \ (behind' \union run[v].todo),
                 events'[i].at >= Since(run[v])
          PROVE  events'[i].rule = Match(events'[i].url, run[v].rules)
        <3>1. CASE i \in DOMAIN events \ behind /\ events'[i] = events[i]
            BY <2>1, <2>6, <3>1 DEF Knows
        <3>2. CASE events'[i].rule = Match(events'[i].url, rules)
            BY <2>2, <2>6, <3>2
        <3>. QED
            BY <1>2, <3>1, <3>2
    <2>. QED
        BY <1>1, <2>1, <2>3, <2>4, <2>5, <2>6 DEF Knows
<1>. QED
    BY <1>3, <1>4 DEF RunsKnow

\* What names nothing: a run that loads, waits, asks, reads or ends.
LEMMA QuietRun ==
    ASSUME Soundness, Untouched, NEW w \in Workers,
           \A v \in Workers \ {w} : run'[v] = run[v],
           run'[w] # None =>
               \/ run'[w].phase \in Copies /\ run'[w].read <= resets.count
               \/ /\ run'[w].phase = "backfilling" /\ run'[w].read = resets.count
                  /\ run'[w].rules = rules
    PROVE  RunsKnow' /\ NamesCurrent'
<1>1. NamesCurrent'
    BY UntouchedNames DEF Soundness
<1>2. \A v \in Workers \ {w} : Knows(v)'
    BY UntouchedKnows DEF Soundness, RunsKnow
<1>3. Knows(w)'
    <2>1. resets.count \in Nat
        BY Counts DEF Soundness
    <2>. QED
        BY <2>1 DEF Untouched, SameRules, Knows, Applies, Backfills, Copies
<1>. QED
    BY <1>1, <1>2, <1>3 DEF RunsKnow

LEMMA EndedRun ==
    ASSUME Soundness, Untouched, NEW w \in Workers, Finish(w)
    PROVE  RunsKnow' /\ NamesCurrent'
    BY FinishRuns, QuietRun DEF Soundness

LEMMA RunNames ==
    ASSUME Soundness, NEW w \in Workers, RunStep(w)
    PROVE  RunsKnow' /\ NamesCurrent'
<1>0. TypeOK /\ Soundness
    BY DEF Soundness
<1>. DEFINE Done == RunsKnow' /\ NamesCurrent'
<1>. HIDE DEF Done
<1>1. ASSUME Load(w)
      PROVE  Done
    <2>1. PICK x \in Run : run' = [run EXCEPT ![w] = x] /\ x.phase = "loaded" /\ x.read = 0
        BY <1>0, <1>1, LoadRuns
    <2>2. Untouched
        BY <1>1 DEF Load, Untouched, SameRules, history
    <2>3. resets.count >= 0
        BY <1>0, Counts
    <2>4. run'[w] = x /\ \A v \in Workers \ {w} : run'[v] = run[v]
        BY <1>0, <2>1, RunChange
    <2>. QED
        BY <1>0, <2>1, <2>2, <2>3, <2>4, QuietRun DEF Copies, Done
<1>2. CASE TryLock(w)
    <2>1. Untouched /\ run[w] # None
        BY <1>2 DEF TryLock, In, Untouched, SameRules, history
    <2>2. CASE lock = None
        <3>1. PICK x \in Run : /\ run' = [run EXCEPT ![w] = x] /\ x.phase = "locked"
                               /\ x.read = run[w].read
            BY <1>0, <1>2, <2>2, LockRuns
        <3>2. run'[w] = x /\ \A v \in Workers \ {w} : run'[v] = run[v]
            BY <1>0, <3>1, RunChange
        <3>3. run[w].read <= resets.count
            BY <1>0, <2>1 DEF Soundness, RunsKnow, Knows
        <3>. QED
            BY <1>0, <2>1, <3>1, <3>2, <3>3, QuietRun DEF Copies, Done
    <2>3. CASE lock # None
        <3>1. run' = [run EXCEPT ![w] = None]
            BY <1>2, <2>3 DEF TryLock
        <3>2. run'[w] = None /\ \A v \in Workers \ {w} : run'[v] = run[v]
            BY <1>0, <3>1, RunChange
        <3>. QED
            BY <1>0, <2>1, <3>2, QuietRun DEF Done
    <2>. QED
        BY <2>2, <2>3
<1>3. CASE HourlyRun(w) \/ DailyRun(w)
    <2>1. Untouched /\ run[w] # None
        BY <1>3, StillActiveCompiled DEF HourlyRun, DailyRun, In, Untouched, SameRules, history
    <2>2. ASSUME NEW naming \in {"bootstrap", "incremental"}, Ask(w, naming)
          PROVE  Done
        <3>1. PICK x \in Run : /\ run' = [run EXCEPT ![w] = x] /\ x.phase = "asking"
                               /\ x.read = run[w].read
            BY <1>0, <2>1, <2>2, AskRuns
        <3>2. run'[w] = x /\ \A v \in Workers \ {w} : run'[v] = run[v]
            BY <1>0, <3>1, RunChange
        <3>3. run[w].read <= resets.count
            BY <1>0, <2>1 DEF Soundness, RunsKnow, Knows
        <3>. QED
            BY <1>0, <2>1, <3>1, <3>2, <3>3, QuietRun DEF Copies, Done
    <2>3. Finish(w) => Done
        BY <1>0, <2>1, EndedRun DEF Done
    <2>4. Finish(w) \/ \E naming \in {"bootstrap", "incremental"} : Ask(w, naming)
        BY <1>3 DEF HourlyRun, DailyRun
    <2>. QED
        BY <2>2, <2>3, <2>4 DEF Done
<1>4. CASE AiFails(w)
    <2>1. Untouched /\ Finish(w)
        BY <1>4 DEF AiFails, Untouched, SameRules, history
    <2>. QED
        BY <1>0, <2>1, EndedRun DEF Done
<1>5. CASE BackfillReads(w)
    <2>1. Untouched /\ run[w] # None
        BY <1>5, StillActiveCompiled DEF BackfillReads, In, Untouched, SameRules, history
    <2>2. CASE ~Finish(w)
        <3>1. PICK x \in Run : /\ run' = [run EXCEPT ![w] = x] /\ x.phase = "backfilling"
                               /\ x.rules = rules /\ x.read = resets.count
            BY <1>0, <1>5, <2>1, <2>2, BackfillRuns DEF BackfillReads
        <3>2. run'[w] = x /\ \A v \in Workers \ {w} : run'[v] = run[v]
            BY <1>0, <3>1, RunChange
        <3>. QED
            BY <1>0, <2>1, <3>1, <3>2, QuietRun DEF Done
    <2>. QED
        BY <1>0, <2>1, <2>2, EndedRun DEF Done
<1>. QED
    BY <1>1, <1>2, <1>3, <1>4, <1>5, ReplaceNames, StartNames, BatchNames, BackfillNames
    DEF RunStep, Done

LEMMA NamesKept ==
    ASSUME Soundness, [Next]_vars
    PROVE  RunsKnow' /\ NamesCurrent'
<1>1. CASE Untouched /\ UNCHANGED run
    BY <1>1, UntouchedNames, UntouchedKnows DEF Soundness, RunsKnow
<1>2. ASSUME NEW w \in Workers, Crash(w)
      PROVE  RunsKnow' /\ NamesCurrent'
    BY <1>2, EndedRun DEF Crash, Untouched, SameRules, history
<1>3. ASSUME NEW q \in Requests, ParseRequest(q) \/ NoteFirst(q) \/ RequestFails(q)
      PROVE  Untouched /\ UNCHANGED run
    BY <1>3, StillActiveCompiled DEF ParseRequest, NoteFirst, RequestFails, Untouched, SameRules, history
<1>4. Tick \/ LoadProject \/ FullSave \/ UNCHANGED vars => Untouched /\ UNCHANGED run
    BY DEF Tick, LoadProject, FullSave, vars, Untouched, SameRules, history
<1>. QED
    BY <1>1, <1>2, <1>3, <1>4, RunNames, ResetNames, StoreNames DEF Next, RequestStep

-----------------------------------------------------------------------------
(* The theorems.                                                           *)

\* The inductive invariant: what runs and requests know.
PageNamingInv == Soundness /\ Dated /\ BootstrapRestarts

THEOREM PageNamingInvariant == Spec => []PageNamingInv
<1>1. Init => PageNamingInv
    <2>1. Init => Locked /\ RequestsKnow /\ RunsKnow /\ NamesCurrent
        BY DEF Init, Locked, RequestsKnow, RunsKnow, Knows, Applies, Backfills, NamesCurrent
    <2>. QED
        BY <2>1, InitTyped, InitDated, InitBootstrap DEF PageNamingInv, Soundness
<1>2. PageNamingInv /\ [Next]_vars => PageNamingInv'
    BY TypesKept, LockedKept, DatedKept, BootstrapKept, RequestsKnowKept, NamesKept
    DEF PageNamingInv, Soundness
<1>. QED
    BY <1>1, <1>2, PTL DEF Spec

\* Every variable keeps its type, and the active rules are of one rule set
\* (tracker/page_naming.py, tracker/models.py).
THEOREM NamingTyped == Spec => []TypeOK
<1>1. PageNamingInv => TypeOK
    BY DEF PageNamingInv, Soundness
<1>. QED
    BY <1>1, PageNamingInvariant, PTL

\* Runs, requests, backfills and resets that overlap in any order leave every event of
\* the rewritten window named by the active rules, once a run has applied them and but
\* for the events of requests that began under other rules (page_naming.py, the batches
\* of apply_rules_to_recent_data; analytics_tracker.py, process_events).
THEOREM NamesStayCurrent == Spec => []NamesCurrent
<1>1. PageNamingInv => NamesCurrent
    BY DEF PageNamingInv, Soundness
<1>. QED
    BY <1>1, PageNamingInvariant, PTL

\* A run that read the project after a reset leaves the bootstrap only after Target
\* versions later than the time of the reset, unless the row was written back as it was
\* before (page_naming.py, reset_project_page_naming_to_bootstrap and the count of
\* bootstrap versions since the last change of state).
THEOREM BootstrapStartsAgain == Spec => []BootstrapRestarts
<1>1. PageNamingInv => BootstrapRestarts
    BY DEF PageNamingInv
<1>. QED
    BY <1>1, PageNamingInvariant, PTL

\* Nor does it find the project stable before its age, counted from the reset, has
\* reached the lower of the two ages, with the same exception (page_naming.py:1165-1167).
THEOREM ResetsHold == Spec => ResetHolds
<1>1. PageNamingInv /\ [Next]_vars =>
        [\A w \in Workers :
           /\ project.state = "not_stable" /\ project'.state = "stable"
           /\ run[w] # None /\ run'[w] = None
           /\ run[w].seen = resets.count /\ resets.count > 0 /\ ~reverted
           => \/ run[w].project.first # None /\ run[w].project.first < resets.at
              \/ now - resets.at > Min({Soft, Hard})]_vars
    BY StableStep DEF PageNamingInv, Soundness
<1>. QED
    BY <1>1, PageNamingInvariant, PTL DEF Spec, ResetHolds
=============================================================================
