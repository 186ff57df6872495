--------------------------- MODULE MCTokenRegistry ---------------------------
EXTENDS TokenRegistry, TLC

\* Model values that play the same part in the model.
Symmetry ==
  UNION {Permutations(S) : S \in {Principals, Tokens, Names,
                                  Requests \ Faulty, Requests \cap Faulty}}
=============================================================================
