------------------------------ MODULE MCWorkers -----------------------------
EXTENDS Workers, TLC

\* The values of each constant are interchangeable.
Symmetry == Permutations(Worker) \union Permutations(Code) \union Permutations(Doc)
            \union Permutations(Content) \union Permutations(User)
            \union Permutations(Request)

=============================================================================
