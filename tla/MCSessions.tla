----------------------------- MODULE MCSessions -----------------------------
EXTENDS Sessions, TLC

\* Users, tokens, requests and workers are interchangeable.
Symmetry == Permutations(User) \union Permutations(Token)
            \union Permutations(Request) \union Permutations(Worker)

=============================================================================
