-------------------------- MODULE MCPageFacts --------------------------
EXTENDS PageSummaries, TLC

CONSTANTS s1, s2, s3, v1, v2, u1, c1, c2, x, y, z, r1, r2, a1, a2, home

MCVisitor == s1 :> v1 @@ s2 :> v1 @@ s3 :> v2
MCIdentity == s1 :> [user |-> None, company |-> None]
              @@ s2 :> [user |-> u1, company |-> c1]
              @@ s3 :> [user |-> u1, company |-> c2]
\* One rule for two URLs, two rules with one name, and a page without a rule.
MCPages == {[url |-> x, rule |-> r1, area |-> a1], [url |-> y, rule |-> r1, area |-> a1],
            [url |-> y, rule |-> r2, area |-> a1], [url |-> z, rule |-> None, area |-> a2]}
MCPageName == r1 :> home @@ r2 :> home
\* Three days; an event at 8 is read by a rebuild of the day before.
MCWindows == {<<0, 0>>, <<1, 1>>, <<0, 1>>}

\* The anonymous session does not see the page without a rule.
MCArrivals(e) ==
    \/ /\ e.session = s1 /\ e.page.rule # None
       /\ e.type = "move" => e.page.url = x /\ e.ts = 3
       /\ e.page.rule = r2 <=> e.ts = 4 /\ e.page.url = y
       /\ e.ts \in {3, 7, 8} => e.page.url = x
       /\ e.ts \in {7, 8} => e.type = "click"
       /\ e.ts = 5 => e.page.url = y
    \/ /\ e.session = s2 /\ e.type = "click" /\ e.page.url # x /\ e.page.rule # r1
       /\ IF e.page.rule = None THEN e.ts \in {3, 5} ELSE e.ts = 4
    \/ e.session = s3 /\ e.type = "click" /\ e.page.url # x /\ e.page.rule # r1 /\ e.ts = 4
=============================================================================
