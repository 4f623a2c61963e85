----------------------------- MODULE MCProjects -----------------------------
EXTENDS Projects, TLC

Symmetry == Permutations(Project) \union Permutations(Code)
            \union Permutations(Site) \union Permutations(Request)

=============================================================================
