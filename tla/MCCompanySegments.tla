------------------------- MODULE MCCompanySegments -------------------------
(* A small instance of workspaces, their project and its segments.         *)
EXTENDS CompanySegments, TLC

CONSTANTS u1, u2, root, s1, a1, o1, o2, r1, r2

Members(x, y) == u1 :> x @@ u2 :> y @@ root :> "none"
\* A number and a select with two options.
MCAttributes == {{a1}, {o1, o2}}

MCStarts == {Members("none", "none"), Members("owner", "admin")}

\* The segment is that of u1, who opens the pages: with nothing, with a segment, with a segment
\* and conditions, or with conditions.  Members are made owners or viewers.
MCAsked(q) ==
    /\ q.kind = "page" =>
        q.user = u1 /\ q.url.pairs \in {{}, {o1}} /\ (q.url.named <=> q.url.pairs # {})
    /\ q.kind \in {"add", "role"} => q.role \in {"owner", "viewer"} /\ q.target # root
    /\ q.kind \in {"add", "remove"} => q.actor # root
    /\ q.kind = "segment" => q.user = u1

Symmetry == Permutations({r1, r2})
=============================================================================
