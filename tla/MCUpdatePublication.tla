-------------------------- MODULE MCUpdatePublication --------------------------
EXTENDS PublicationInvariant, TLC

Symmetry ==
  Permutations(Platform) \cup Permutations(Client)
  \cup Permutations(Handler) \cup Permutations(Reader)

================================================================================
