-------------------------- MODULE MCCompanyHealth --------------------------
EXTENDS CompanyDetails, TLC

CONSTANTS c1, c2, u1, u2, a1, a2

MCRanges == <<1, 3>>
MCStaleAfter(n) == IF n = 3 THEN 2 ELSE 0

\* Two users of a company on two areas, one with engagement, and anonymous
\* visits to another company.
MCFacts ==
    {[day |-> d, company |-> c1, user |-> u1, area |-> a1, engaged |-> TRUE] : d \in 1 .. 8}
    \cup {[day |-> d, company |-> c1, user |-> u2, area |-> a2, engaged |-> FALSE] : d \in 1 .. 8}
    \cup {[day |-> d, company |-> c2, user |-> None, area |-> a1, engaged |-> TRUE] : d \in {0, 7}}
MCChanging == {f \in MCFacts : f.day = 7 /\ f.user = u1}
=============================================================================
