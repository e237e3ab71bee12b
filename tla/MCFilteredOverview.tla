------------------------ MODULE MCFilteredOverview ------------------------
(* Small instances of one filtered variant.                                *)
EXTENDS FilteredOverview, TLC

Interchangeable == Permutations(Requests) \union Permutations(Tasks)
=============================================================================
