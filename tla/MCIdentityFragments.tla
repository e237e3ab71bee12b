------------------------ MODULE MCIdentityFragments ------------------------
(* Small instances of the fragments of one visit.                          *)
EXTENDS IdentityFragments, TLC

Interchangeable ==
    Permutations(Events) \union Permutations(FragmentIds) \union Permutations(Identities)
=============================================================================
