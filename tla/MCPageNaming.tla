---------------------------- MODULE MCPageNaming ----------------------------
EXTENDS PageNaming, TLC

\* Neither the workers nor the URLs nor the requests differ.
Symmetry == Permutations(Workers) \union Permutations(Urls) \union Permutations(Requests)

=============================================================================
