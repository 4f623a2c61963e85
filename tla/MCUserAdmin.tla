----------------------------- MODULE MCUserAdmin ----------------------------
EXTENDS UserAdmin, TLC

CONSTANTS a1, a2, a3, o1

\* One organization of three people, founded by a1.
MCUser == {a1, a2, a3}
MCOrg == {o1}
MCOrgOf == [u \in MCUser |-> o1]
MCFounder == [o \in MCOrg |-> a1]

\* The two people who may join, the requests, and the roles that no guard
\* names, are interchangeable.
Symmetry == Permutations({a2, a3}) \union Permutations(Request)
            \union Permutations(OtherRole)

=============================================================================
