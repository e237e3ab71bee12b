-------------------------- MODULE CompanySegments --------------------------
(***************************************************************************)
(* The company attributes and segments of one project, and the pages that  *)
(* are answered for a segment (apps/projects/company_attributes.py,        *)
(* company_segments.py, company_segment_reviews.py,                        *)
(* analytics_filter_state.py), among the requests that change the          *)
(* project and its members.                                                *)
(*                                                                         *)
(* An attribute belongs to the project, a segment to one user.  Deleting   *)
(* an attribute flags the segments that use it in one transaction under    *)
(* the project's row lock, deleting an option of a select flags nothing;   *)
(* an owner's edit validates a definition, saves it and clears the flag in *)
(* three steps that take no lock.  A page reads the segment and the        *)
(* attributes one after the other, the Pages overview the attributes first *)
(* and through a cache by revision.                                        *)
(*                                                                         *)
(* Abstractions.  A term is what a condition can name: an option of a      *)
(* select, or an attribute of another type as a whole.  An attribute is    *)
(* the set of its terms and exists while it has one; a definition is the   *)
(* set of terms it names.  Of the page parameters there is only whether    *)
(* the URL states any.  History: quiet (no write has overlapped the        *)
(* request), known (the terms given when its page was opened) and          *)
(* unsettled (the last save of the segment was overlapped by a deletion,   *)
(* or broke off).                                                          *)
(***************************************************************************)
EXTENDS WorkspaceProjects

CONSTANTS
    Product,        \* the project
    Attributes,     \* disjoint sets of terms, whose ids are used once
    Segments,       \* ids of segments
    None

Terms == UNION Attributes

ASSUME SegmentsAssumption ==
    /\ Product \in Projects
    /\ None \notin Users \cup Segments
    /\ \A a, b \in Attributes : a \cap b # {} => a = b

VARIABLES
    defined,        \* the terms of the project's attributes
    spent,          \* the terms that are not given any more: each is given once, and none to an
                    \* attribute that was deleted
    cached,         \* the application cache: terms by revision, or NotCached
    segment,        \* projects_companysegment, or NoSegment
    remembered,     \* projects_analyticsfilterstate by user
    reverted        \* history: a full save has taken the revision back, or the project is purged

segmentVars == <<defined, spent, cached, segment, remembered, reverted>>
workspaceVars == <<workspace, membership, project, purge>>

NoSegment == [user |-> None]
Deleted == [user |-> None, deleted |-> TRUE]    \* its id is not given again
NotCached == [kept |-> FALSE]
Unread == [read |-> FALSE]
NothingRemembered == [definition |-> {}, segment |-> None]

InUse(s) == segment[s] \notin {NoSegment, Deleted}

\* The requests among others that a deletion or a save disturbs.
Disturbed(kinds) ==
    [r \in Requests |->
        IF request[r].kind \in kinds THEN [request[r] EXCEPT !.quiet = FALSE] ELSE request[r]]

-----------------------------------------------------------------------------
(* Attributes.                                                             *)

\* The attributes that a definition names.
Named(definition, attributes) == {a \in attributes : definition \cap a # {}}

\* Mutant of Marked: only segments of which nothing is left are flagged.
MarkedWhenEmpty(row, deleted) ==
    IF row \notin {NoSegment, Deleted} /\ row.definition \subseteq UNION deleted
    THEN [row EXCEPT !.review = TRUE, !.pending = @ \cup UNION Named(row.definition, deleted)]
    ELSE row

\* mark_segments_for_deleted_attributes
Marked(row, deleted) ==
    IF row \notin {NoSegment, Deleted} /\ Named(row.definition, deleted) # {}
    THEN [row EXCEPT !.review = TRUE, !.pending = @ \cup UNION Named(row.definition, deleted)]
    ELSE row

\* Mutant of NextRevision: the revision stays, and with it what is cached.
SameRevision(row) == row

\* _bump_company_attributes_revision
NextRevision(row) == [row EXCEPT !.revision = @ + 1]

\* save_attribute_definitions: the flags, the deletion of attributes, that of options of others,
\* the additions and the revision in one transaction.  Its lock on the project's row keeps new
\* segments out meanwhile, which refer to that row.  A select keeps an option.
SaveDefinitions(actor, new, deleted, removed) ==
    /\ CanEdit(Product, actor)
    /\ AtOnce
    /\ LET gone == UNION deleted
       IN  /\ deleted \subseteq Named(defined, Attributes)
           /\ removed \subseteq defined \ gone
           /\ new \subseteq Terms \ (spent \cup gone)
           /\ \A a \in Named(removed, Attributes) : ((defined \ removed) \cup new) \cap a # {}
           /\ segment' = [s \in Segments |-> Marked(segment[s], deleted)]
           /\ defined' = (defined \ (gone \cup removed)) \cup new
           /\ spent' = spent \cup new \cup gone
    /\ project' = [project EXCEPT ![Product] = NextRevision(@)]
    /\ request' = Disturbed({"segment", "page"})
    /\ UNCHANGED <<workspace, membership, purge, cached, remembered, reverted>>

\* save_company_attribute_values
SaveValues(actor) ==
    /\ CanEdit(Product, actor)
    /\ AtOnce
    /\ project' = [project EXCEPT ![Product] = NextRevision(@)]
    /\ UNCHANGED <<workspace, membership, purge, request>>
    /\ UNCHANGED segmentVars

-----------------------------------------------------------------------------
(* Segments.                                                               *)

\* normalize_segment_definition, in strict mode
Valid(definition) == definition # {} /\ definition \subseteq defined

\* create_company_segment and update_company_segment_definition up to the save: what is kept of
\* the segment is what was read of it.
AskSegment(r, u, s, definition) ==
    /\ CanView(Product, u)
    /\ segment[s] = NoSegment \/ segment[s].user = u
    /\ Valid(definition)
    /\ Begin(r, [kind |-> "segment", user |-> u, segment |-> s, definition |-> definition,
                 row |-> segment[s], saved |-> FALSE, quiet |-> TRUE])
    /\ UNCHANGED workspaceVars
    /\ UNCHANGED segmentVars

StoreSegment(r) ==
    /\ request[r].kind = "segment" /\ request[r].row = NoSegment
    /\ segment[request[r].segment] = NoSegment
    /\ Stored(Product)
    /\ segment' = [segment EXCEPT ![request[r].segment] =
           [user |-> request[r].user, definition |-> request[r].definition, review |-> FALSE,
            pending |-> {}, unsettled |-> ~request[r].quiet \/ reverted]]
    /\ request' = [Disturbed({"page"}) EXCEPT ![r] = Idle]
    /\ UNCHANGED <<begun, defined, spent, cached, remembered, reverted>>
    /\ UNCHANGED workspaceVars

\* The save names its fields: the flag of the row stays as it is.
StoreDefinition(r) ==
    /\ request[r].kind = "segment" /\ request[r].row # NoSegment /\ ~request[r].saved
    /\ InUse(request[r].segment)
    /\ segment' = [segment EXCEPT
           ![request[r].segment].definition = request[r].definition,
           ![request[r].segment].unsettled = ~request[r].quiet]
    /\ request' = [Disturbed({"page"}) EXCEPT ![r].saved = TRUE]
    /\ UNCHANGED <<begun, defined, spent, cached, remembered, reverted>>
    /\ UNCHANGED workspaceVars

\* clear_segment_review_if_resolved, on the flag and the records that were read at first.
Resolved(row, definition) == row.review /\ definition \cap row.pending = {}

ClearReview(r) ==
    /\ request[r].kind = "segment" /\ request[r].saved
    /\ segment' =
           IF InUse(request[r].segment) /\ Resolved(request[r].row, request[r].definition)
           THEN [segment EXCEPT
                   ![request[r].segment].review = FALSE,
                   ![request[r].segment].pending = {},
                   ![request[r].segment].unsettled = @ \/ ~request[r].quiet]
           ELSE segment
    /\ request' = [Disturbed({"page"}) EXCEPT ![r] = Idle]
    /\ UNCHANGED <<begun, defined, spent, cached, remembered, reverted>>
    /\ UNCHANGED workspaceVars

\* delete_company_segment: the remembered scope keeps its conditions without the label.
DeleteSegment(u, s) ==
    /\ CanView(Product, u)
    /\ InUse(s) /\ segment[s].user = u
    /\ AtOnce
    /\ segment' = [segment EXCEPT ![s] = Deleted]
    /\ remembered' = [v \in Users |->
           IF remembered[v].segment = s THEN [remembered[v] EXCEPT !.segment = None]
           ELSE remembered[v]]
    /\ request' = Disturbed({"page"})
    /\ UNCHANGED <<defined, spent, cached, reverted>>
    /\ UNCHANGED workspaceVars

\* A request that is refused after all, fails or whose process ends: no change from here on.  An
\* edit may have saved its definition by then.
Fail(r) ==
    /\ request[r] # Idle
    /\ segment' = IF request[r].kind = "segment" /\ request[r].saved /\ InUse(request[r].segment)
                  THEN [segment EXCEPT ![request[r].segment].unsettled = TRUE] ELSE segment
    /\ End(r)
    /\ UNCHANGED <<defined, spent, cached, remembered, reverted>>
    /\ UNCHANGED workspaceVars

-----------------------------------------------------------------------------
(* Pages.  A URL names a segment or none, conditions (the ca.* pairs), and *)
(* may state the filters of the page.                                      *)

Urls == [segment : Segments \cup {None}, pairs : SUBSET Terms, named : BOOLEAN]

PageRequest(u, cachedRead, url, hops, quiet) ==
    [kind |-> "page", user |-> u, cachedRead |-> cachedRead, url |-> url,
     revision |-> project[Product].revision, known |-> spent,
     attributes |-> Unread, found |-> Unread, hops |-> hops, quiet |-> quiet]

\* cachedRead: the Pages overview; otherwise Companies, Users or Visits.
OpenPage(r, u, cachedRead, url) ==
    /\ CanView(Product, u)
    /\ Begin(r, PageRequest(u, cachedRead, url, 0, TRUE))
    /\ UNCHANGED workspaceVars
    /\ UNCHANGED segmentVars

Known(r, attributes) ==
    request' = [request EXCEPT ![r].attributes = [read |-> TRUE, ids |-> attributes]]

\* load_company_attribute_filter_attributes; an entry may have run out.
ReadCachedAttributes(r) ==
    /\ request[r].kind = "page" /\ request[r].cachedRead /\ request[r].attributes = Unread
    /\ \/ /\ cached[request[r].revision] # NotCached
          /\ Known(r, cached[request[r].revision].ids)
          /\ UNCHANGED cached
       \/ /\ Known(r, defined)
          /\ cached' = [cached EXCEPT ![request[r].revision] = [kept |-> TRUE, ids |-> defined]]
    /\ UNCHANGED <<begun, defined, spent, segment, remembered, reverted>>
    /\ UNCHANGED workspaceVars

\* parse_company_attribute_filters without a list: the rows, after the segment was read.
ReadAttributes(r) ==
    /\ request[r].kind = "page" /\ ~request[r].cachedRead
    /\ request[r].found # Unread /\ request[r].attributes = Unread
    /\ Known(r, defined)
    /\ UNCHANGED begun
    /\ UNCHANGED workspaceVars
    /\ UNCHANGED segmentVars

\* get_company_segment: a segment of somebody else is not found.
ReadSegment(r) ==
    /\ request[r].kind = "page" /\ request[r].found = Unread
    /\ request[r].cachedRead => request[r].attributes # Unread
    /\ LET s == request[r].url.segment
           mine == s # None /\ InUse(s) /\ segment[s].user = request[r].user
       IN  request' = [request EXCEPT ![r].found =
               [read |-> TRUE, row |-> IF mine THEN segment[s] ELSE NoSegment]]
    /\ UNCHANGED begun
    /\ UNCHANGED workspaceVars
    /\ UNCHANGED segmentVars

HasRead(r) ==
    request[r].kind = "page" /\ request[r].found # Unread /\ request[r].attributes # Unread

\* resolve_company_scope: refused under review, the segment when any of it is left, or the
\* conditions of the URL.
Scope(r) ==
    LET url  == request[r].url
        row  == request[r].found.row
        ids  == request[r].attributes.ids
    IN  IF row # NoSegment /\ row.review
        THEN [state |-> {}, segment |-> None, blocked |-> url.segment]
        ELSE IF row # NoSegment /\ row.definition \cap ids # {}
        THEN [state |-> row.definition \cap ids, segment |-> url.segment, blocked |-> None]
        ELSE [state |-> url.pairs \cap ids, segment |-> None, blocked |-> None]

UrlSegment(scope) == IF scope.segment # None THEN scope.segment ELSE scope.blocked

\* canonical_company_scope_redirect finds nothing to correct.
Canonical(r) ==
    /\ request[r].url.pairs = Scope(r).state
    /\ request[r].url.segment = UrlSegment(Scope(r))

\* restored_company_parameters, from the attributes as they are now.
Restored(u) ==
    LET saved == remembered[u]
        s     == saved.segment
        bare  == [segment |-> None, pairs |-> saved.definition \cap defined]
    IN  IF s = None \/ segment[s].user # u THEN bare
        ELSE IF segment[s].review THEN [segment |-> s, pairs |-> {}]
        ELSE IF segment[s].definition \cap defined = {} THEN bare
        ELSE [segment |-> s, pairs |-> segment[s].definition \cap defined]

\* Mutant of WithRestored: the remembered scope only.
WithScopeOnly(r) ==
    LET url == request[r].url
        scope == IF url.segment # None \/ url.pairs # {} THEN url ELSE Restored(request[r].user)
    IN  [url EXCEPT !.segment = scope.segment, !.pairs = scope.pairs]

\* restore_redirect: the URL gets the page's parameters, and the remembered scope when it
\* states none.
WithRestored(r) ==
    LET url == request[r].url
        scope == IF url.segment # None \/ url.pairs # {}
                 THEN [segment |-> url.segment, pairs |-> url.pairs]
                 ELSE Restored(request[r].user)
    IN  [segment |-> scope.segment, pairs |-> scope.pairs, named |-> TRUE]

\* The browser follows, with a request that is read anew.
Redirect(r, url) ==
    /\ CanView(Product, request[r].user)
    /\ request' = [request EXCEPT ![r] =
           PageRequest(request[r].user, request[r].cachedRead, url,
                       request[r].hops + 1, request[r].quiet)]
    /\ UNCHANGED begun
    /\ UNCHANGED workspaceVars
    /\ UNCHANGED segmentVars

RedirectCanonical(r) ==
    /\ HasRead(r)
    /\ ~Canonical(r)
    /\ Redirect(r, [segment |-> UrlSegment(Scope(r)), pairs |-> Scope(r).state,
                    named |-> request[r].url.named])

RedirectRestored(r) ==
    /\ HasRead(r)
    /\ Canonical(r)
    /\ ~request[r].url.named
    /\ Redirect(r, WithRestored(r))

Answers(r) == HasRead(r) /\ Canonical(r) /\ request[r].url.named

\* The page is rendered and its scope remembered; a save that names what is gone by then fails.
Render(r) ==
    /\ Answers(r)
    /\ LET s == UrlSegment(Scope(r))
       IN  remembered' =
               IF Stored(Product) /\ (s = None \/ InUse(s))
               THEN [remembered EXCEPT ![request[r].user] =
                        [definition |-> Scope(r).state, segment |-> s]]
               ELSE remembered
    /\ End(r)
    /\ UNCHANGED <<defined, spent, cached, segment, reverted>>
    /\ UNCHANGED workspaceVars

-----------------------------------------------------------------------------
Init ==
    /\ MembersInit
    /\ ProjectsInit
    /\ defined \in SUBSET Terms
    /\ project[Product] = NoProject => defined = {}
    /\ spent = defined
    /\ cached = [n \in 0 .. MaxRequests |-> NotCached]
    /\ segment = [s \in Segments |-> NoSegment]
    /\ remembered = [u \in Users |-> NothingRemembered]
    /\ reverted = FALSE

\* What a step of the workspace does to what belongs to the project.
Cascade ==
    /\ IF Stored(Product) /\ ~Stored(Product)'
       THEN /\ defined' = {}
            /\ spent' = spent \cup UNION Named(defined, Attributes)
            /\ segment' = [s \in Segments |-> IF InUse(s) THEN Deleted ELSE segment[s]]
            /\ remembered' = [u \in Users |-> NothingRemembered]
       ELSE UNCHANGED <<defined, spent, segment, remembered>>
    /\ reverted' = (reverted \/ project'[Product].revision < project[Product].revision
                             \/ (Stored(Product) /\ ~Stored(Product)'))
    /\ UNCHANGED cached

SegmentsStep ==
    \/ \E u \in Users, new \in SUBSET (Terms \ spent),
         deleted \in SUBSET Named(defined, Attributes), removed \in SUBSET defined :
        SaveDefinitions(u, new, deleted, removed)
    \/ \E u \in Users : SaveValues(u)
    \/ \E r \in Free, u \in Users, s \in Segments, definition \in SUBSET defined :
        AskSegment(r, u, s, definition)
    \/ \E u \in Users, s \in Segments : DeleteSegment(u, s)
    \/ \E r \in Free, u \in Users, cachedRead \in BOOLEAN, url \in Urls :
        OpenPage(r, u, cachedRead, url)
    \/ \E r \in Requests :
        \/ StoreSegment(r) \/ StoreDefinition(r) \/ ClearReview(r) \/ Fail(r)
        \/ ReadCachedAttributes(r) \/ ReadAttributes(r) \/ ReadSegment(r)
        \/ RedirectCanonical(r) \/ RedirectRestored(r) \/ Render(r)

Next ==
    \/ MembersStep /\ UNCHANGED <<project, purge>> /\ UNCHANGED segmentVars
    \/ ProjectsStep /\ Cascade
    \/ SegmentsStep

vars == <<workspace, membership, project, purge, request, begun,
          defined, spent, cached, segment, remembered, reverted>>

Spec == Init /\ [][Next]_vars

-----------------------------------------------------------------------------
(* What must hold.                                                         *)

\* Nobody becomes an owner except by the act of an owner or a superuser, and
\* nobody stops being one except by an own act, by one of theirs, or by that of
\* an admin who looked when the user was not an owner yet.  (A workspace that is
\* founded or purged is another matter.)
OwnersAnswerToOwners ==
    [][\A w \in Workspaces, u \in Users :
        /\ u \notin Owners(w) /\ u \in Owners(w)' => workspace[w] = "absent" \/ MadeByOwner(w, u)
        /\ u \in Owners(w) /\ u \notin Owners(w)' =>
            workspace'[w] = "purged" \/ UndoneByOwner(w, u)]_<<membership, request>>

Editing(s) == {r \in Requests :
                  /\ request[r].kind = "segment"
                  /\ request[r].segment = s
                  /\ request[r].saved}

\* The attributes of a definition that the project has not any more.
Gone(definition) == {a \in Named(definition, Attributes) : defined \cap a = {}}

\* A segment needs review exactly when it names an attribute that was deleted:
\* as long as the owner's last save of it has not overlapped a deletion or broken
\* off, and but for the moment between that save and the clearing of the flag.
FlagTruthful ==
    \A s \in Segments : InUse(s) /\ ~segment[s].unsettled =>
        /\ Gone(segment[s].definition) # {} => segment[s].review
        /\ segment[s].review => Gone(segment[s].definition) # {} \/ Editing(s) # {}

\* A page that no write has overlapped applies conditions the project has, and
\* under the name of a segment that is not up for review all of its conditions,
\* but for deleted options of attributes that are still there: whether it took
\* the attributes from the cache, and whatever its URL says.  On the Pages
\* overview, which reads the segment last, the same holds while others write, but
\* for attributes added since: under a segment's name nothing of the segment is
\* missing because its attribute was deleted.
WholeAnswers ==
    \A r \in Requests : Answers(r) /\ ~reverted =>
        LET scope == Scope(r)
            row   == request[r].found.row
        IN  row = NoSegment \/ ~row.unsettled =>
            /\ request[r].quiet =>
                /\ scope.state \subseteq defined
                /\ scope.segment # None =>
                    /\ scope.state = segment[scope.segment].definition \cap defined
                    /\ ~segment[scope.segment].review /\ Gone(row.definition) = {}
            /\ request[r].cachedRead /\ scope.segment # None =>
                \A a \in Named(row.definition, Attributes) :
                    request[r].known \cap a # {} => request[r].attributes.ids \cap a # {}

\* The redirect to the canonical URL and the one to the remembered filters leave
\* each other nothing to correct: without writes in between, a page is answered
\* after two redirects at the most.
RedirectsSettle ==
    \A r \in Requests :
        request[r].kind = "page" /\ request[r].quiet /\ ~reverted => request[r].hops <= 2
=============================================================================
