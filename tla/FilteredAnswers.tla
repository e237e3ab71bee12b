-------------------------- MODULE FilteredAnswers --------------------------
(***************************************************************************)
(* What the filtered overviews promise.  A request that names a company-   *)
(* attribute filter is answered with figures of the companies the filter   *)
(* selects, or told to wait.  The attribute values may be edited while the *)
(* request is served; the answer is that of ONE version of them, current   *)
(* at some instant between the request and its answer: no cohort from      *)
(* before the request, and no mixture of two.  Only the users page takes   *)
(* its table from a later version than the rest of the page, or shows it   *)
(* empty.  The promise rests on revisions that never go back.              *)
(***************************************************************************)
EXTENDS Integers

CONSTANTS
    Requests,     \* the clients' requests
    NotAsked      \* the client waits for nothing

VARIABLES
    attributes,   \* version of the project's attribute values
    confused,     \* revisions have gone back: nothing more is promised
    asked,        \* the version current when the request came in
    answer        \* versions the page and the table answered were computed from

\* "The analytics are being prepared": an answer computed from no version.
Pending == [page |-> {}, table |-> {}]

answersVars == <<attributes, confused, asked, answer>>

AnswersInit ==
    /\ attributes = 0
    /\ confused = FALSE
    /\ asked = [r \in Requests |-> NotAsked]
    /\ answer = [r \in Requests |-> Pending]

SaveValues ==
    /\ attributes' = attributes + 1
    /\ UNCHANGED <<confused, asked, answer>>

GoBack ==
    /\ confused' = TRUE
    /\ UNCHANGED <<attributes, asked, answer>>

Request(r) ==
    /\ asked[r] = NotAsked
    /\ asked' = [asked EXCEPT ![r] = attributes]
    /\ answer' = [answer EXCEPT ![r] = Pending]
    /\ UNCHANGED <<attributes, confused>>

\* A page, a table, a page with a table of its own, or none of them.
Answer(r) ==
    /\ asked[r] # NotAsked
    /\ \E page, table \in asked[r] .. attributes :
          /\ page <= table
          /\ \E parts \in [page: {{}, {page}}, table: {{}, {table}}] :
                answer' = [answer EXCEPT ![r] = parts]
    /\ asked' = [asked EXCEPT ![r] = NotAsked]
    /\ UNCHANGED <<attributes, confused>>

\* Committed versions, but any of them.
AnswerAnyhow(r) ==
    /\ asked[r] # NotAsked
    /\ confused
    /\ \E parts \in [page: SUBSET (0 .. attributes), table: SUBSET (0 .. attributes)] :
          answer' = [answer EXCEPT ![r] = parts]
    /\ asked' = [asked EXCEPT ![r] = NotAsked]
    /\ UNCHANGED <<attributes, confused>>

AnswersNext ==
    \/ SaveValues \/ GoBack
    \/ \E r \in Requests : Request(r) \/ Answer(r) \/ AnswerAnyhow(r)

AnswersSpec == AnswersInit /\ [][AnswersNext]_answersVars

=============================================================================
