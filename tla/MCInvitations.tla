---------------------------- MODULE MCInvitations ---------------------------
EXTENDS Invitations, TLC

\* Organizations, addresses, invitation ids and requests are interchangeable.
Symmetry == Permutations(Org) \union Permutations(Email)
            \union Permutations(Invite) \union Permutations(Request)

=============================================================================
