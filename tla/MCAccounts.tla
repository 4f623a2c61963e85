------------------------------ MODULE MCAccounts ----------------------------
EXTENDS Accounts, TLC

Symmetry == Permutations(Org) \union Permutations(Slug) \union Permutations(Gstin)
            \union Permutations(Email) \union Permutations(Caller)
            \union Permutations(Invite) \union Permutations(Request)

=============================================================================
