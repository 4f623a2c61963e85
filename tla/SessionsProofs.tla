--------------------------- MODULE SessionsProofs ---------------------------
(***************************************************************************)
(* Theorems about Sessions for every set of users, tokens, requests and    *)
(* workers.  SInv is the inductive invariant: it says which transactions   *)
(* own which rows while they are in flight.                                *)
(***************************************************************************)
EXTENDS Sessions, TLAPS

\* Tokens in use anywhere but in "new" belong to transactions that have ended,
\* so none of them can enter the table again.
SettledInv ==
  /\ tokens \subseteq Settled
  /\ \A t \in Token : parent[t] \in Settled \union {None}
  /\ \A p \in Process : /\ todo[p] \subseteq Settled
                        /\ tok[p] \in Settled \union {None}

\* A pending row was drawn by one transaction only.
PendingInv ==
  \A p \in Process : new[p] # None =>
    /\ owner[new[p]] # None
    /\ pc[p] \in {"login_touch", "responded"}
    /\ dels[p] \subseteq {parent[new[p]]}
    /\ parent[new[p]] \notin tokens \ dels[p]
    /\ \A q \in Process : p # q => new[p] # new[q]

\* A row has one deleter, and stays in the table until that one commits.
LockInv ==
  \A p \in Process :
    /\ dels[p] \subseteq tokens
    /\ \A q \in Process : p # q => dels[p] \intersect dels[q] = {}

\* What a process knows at each of its statements.
PhaseInv ==
  \A p \in Process :
    /\ pc[p] \in {"idle", "login_insert", "login_touch", "check_user",
                  "rotate_delete", "reject_delete"} => dels[p] = {}
    /\ pc[p] \in {"login_insert", "check_user", "rotate_delete", "rotate_insert",
                  "reject_delete"} => user[p] # None
    /\ pc[p] \in {"check_user", "rotate_delete", "rotate_insert",
                  "reject_delete"} => tok[p] # None
    /\ pc[p] = "rotate_insert" => /\ dels[p] \subseteq {tok[p]}
                                  /\ tok[p] \notin tokens \ dels[p]
    /\ pc[p] \notin {"bulk", "responded"} => todo[p] = {}
    /\ pc[p] = "responded" => todo[p] \intersect tokens \subseteq dels[p]
    /\ late[p] => /\ pc[p] \in {"check_user", "reject_delete", "raise"}
                  /\ user[p] \notin active

SInv == TypeOK /\ SettledInv /\ PendingInv /\ LockInv /\ PhaseInv
             /\ RotationExclusive

-----------------------------------------------------------------------------
\* No process has begun, and the table is empty.
LEMMA SInvInit == Init => SInv
BY SessionsAssumption DEF Init, SInv, TypeOK, SettledInv, PendingInv, LockInv,
   PhaseInv, RotationExclusive, Settled, Steps

\* Types first: the other conjuncts' proofs need the types of both states.
LEMMA TypeStep == TypeOK /\ [Next]_vars => TypeOK'
<1> SUFFICES ASSUME TypeOK, [Next]_vars PROVE TypeOK'
  OBVIOUS
<1> USE SessionsAssumption DEF TypeOK, rows, locals, vars, Steps, Process
<1>1. ASSUME NEW r \in Request, NEW u \in User, Login(r, u) PROVE TypeOK'
  BY <1>1 DEF Login, Goto
<1>2. ASSUME NEW r \in Request, LoginInsert(r) PROVE TypeOK'
  BY <1>2 DEF LoginInsert, Goto, Mint
<1>3. ASSUME NEW r \in Request, LoginTouch(r) PROVE TypeOK'
  BY <1>3 DEF LoginTouch, Goto
<1>4. ASSUME NEW r \in Request, NEW t \in Token, FindToken(r, t) PROVE TypeOK'
  BY <1>4 DEF FindToken, Goto
<1>5. ASSUME NEW r \in Request, CheckUser(r) PROVE TypeOK'
  BY <1>5 DEF CheckUser, Goto
<1>6. ASSUME NEW r \in Request, DeleteByToken(r) PROVE TypeOK'
  BY <1>6 DEF DeleteByToken, Goto, Unlocked
<1>7. ASSUME NEW r \in Request, RotateInsert(r) PROVE TypeOK'
  BY <1>7 DEF RotateInsert, Goto, Mint
<1>8. ASSUME NEW r \in Request, NEW t \in Token, Logout(r, t) PROVE TypeOK'
  BY <1>8 DEF Logout, Goto, Unlocked
<1>9. ASSUME NEW r \in Request, NEW u \in User, LogoutAll(r, u) PROVE TypeOK'
  BY <1>9 DEF LogoutAll, Goto
<1>10. ASSUME NEW w \in Worker, Prune(w) PROVE TypeOK'
  BY <1>10 DEF Prune, Goto
<1>11. ASSUME NEW p \in Process, NEW t \in Token, BulkTake(p, t) PROVE TypeOK'
  BY <1>11 DEF BulkTake, Unlocked
<1>12. ASSUME NEW p \in Process, BulkDone(p) PROVE TypeOK'
  BY <1>12 DEF BulkDone, Goto
<1>13. ASSUME NEW p \in Process, Commit(p) PROVE TypeOK'
  BY <1>13 DEF Commit, Release
<1>14. ASSUME NEW p \in Process, Abort(p) PROVE TypeOK'
  BY <1>14 DEF Abort, Release
<1>15. ASSUME NEW u \in User, Deactivate(u) PROVE TypeOK'
  BY <1>15 DEF Deactivate
<1>16. ASSUME NEW t \in Token, Expire(t) PROVE TypeOK'
  BY <1>16 DEF Expire
<1>17. CASE UNCHANGED vars
  BY <1>17
<1> QED
  BY <1>1, <1>2, <1>3, <1>4, <1>5, <1>6, <1>7, <1>8, <1>9, <1>10, <1>11, <1>12, <1>13, <1>14, <1>15, <1>16, <1>17 DEF Next, RequestStep, ProcessStep

\* No statement, commit or rollback breaks a conjunct of SInv: a row that is
\* locked, or whose token is settled, is touched by its own transaction only.
LEMMA SInvStep == SInv /\ [Next]_vars => SInv'
<1> SUFFICES ASSUME SInv, [Next]_vars PROVE SInv'
  OBVIOUS
<1>t. TypeOK /\ TypeOK'
  BY TypeStep DEF SInv
<1> USE SessionsAssumption
    DEF SInv, TypeOK, SettledInv, PendingInv, LockInv, PhaseInv, RotationExclusive,
        Settled, rows, locals, vars, Steps, Process
<1>1. ASSUME NEW r \in Request, NEW u \in User, Login(r, u) PROVE SInv'
  BY <1>1, <1>t DEF Login, Goto
<1>2. ASSUME NEW r \in Request, LoginInsert(r) PROVE SInv'
  BY <1>2, <1>t DEF LoginInsert, Goto, Mint
<1>3. ASSUME NEW r \in Request, LoginTouch(r) PROVE SInv'
  BY <1>3, <1>t DEF LoginTouch, Goto
<1>4. ASSUME NEW r \in Request, NEW t \in Token, FindToken(r, t) PROVE SInv'
  BY <1>4, <1>t DEF FindToken, Goto
<1>5. ASSUME NEW r \in Request, CheckUser(r) PROVE SInv'
  BY <1>5, <1>t DEF CheckUser, Goto
<1>6. ASSUME NEW r \in Request, DeleteByToken(r) PROVE SInv'
  BY <1>6, <1>t DEF DeleteByToken, Goto, Unlocked
<1>7. ASSUME NEW r \in Request, RotateInsert(r) PROVE SInv'
  BY <1>7, <1>t DEF RotateInsert, Goto, Mint
<1>8. ASSUME NEW r \in Request, NEW t \in Token, Logout(r, t) PROVE SInv'
  BY <1>8, <1>t DEF Logout, Goto, Unlocked
<1>9. ASSUME NEW r \in Request, NEW u \in User, LogoutAll(r, u) PROVE SInv'
  BY <1>9, <1>t DEF LogoutAll, Goto
<1>10. ASSUME NEW w \in Worker, Prune(w) PROVE SInv'
  BY <1>10, <1>t DEF Prune, Goto
<1>11. ASSUME NEW p \in Process, NEW t \in Token, BulkTake(p, t) PROVE SInv'
  BY <1>11, <1>t DEF BulkTake, Unlocked
<1>12. ASSUME NEW p \in Process, BulkDone(p) PROVE SInv'
  BY <1>12, <1>t DEF BulkDone, Goto
<1>13. ASSUME NEW p \in Process, Commit(p) PROVE SInv'
  \* The row that enters the table was pending, so no other process, no
  \* statement in progress and no parent column refers to it.
  <2>1. \A q \in Process \ {p} : /\ new[p] # None => new[p] # tok[q]
                                 /\ new[p] \notin todo[q]
                                 /\ new[p] \notin dels[q]
    BY DEF SInv
  <2>2. \A t \in Token : new[p] # None => parent[t] # new[p]
    BY DEF SInv
  <2>3. tokens' \subseteq Settled'
    BY <1>13, <1>t DEF Commit, Release
  <2>4. SettledInv' /\ LockInv'
    BY <1>13, <1>t, <2>1, <2>3 DEF Commit, Release
  <2>5. PendingInv' /\ PhaseInv'
    BY <1>13, <1>t, <2>1, <2>2 DEF Commit, Release
  <2>6. RotationExclusive'
    BY <1>13, <1>t, <2>2 DEF Commit, Release
  <2> QED
    BY <1>t, <2>4, <2>5, <2>6
<1>14. ASSUME NEW p \in Process, Abort(p) PROVE SInv'
  BY <1>14, <1>t DEF Abort, Release
<1>15. ASSUME NEW u \in User, Deactivate(u) PROVE SInv'
  BY <1>15, <1>t DEF Deactivate
<1>16. ASSUME NEW t \in Token, Expire(t) PROVE SInv'
  BY <1>16, <1>t DEF Expire
<1>17. CASE UNCHANGED vars
  BY <1>17
<1> QED
  BY <1>1, <1>2, <1>3, <1>4, <1>5, <1>6, <1>7, <1>8, <1>9, <1>10, <1>11, <1>12, <1>13, <1>14, <1>15, <1>16, <1>17
  DEF Next, RequestStep, ProcessStep

\* The inductive invariant holds in every reachable state.
THEOREM SessionsInvariant == Spec => []SInv
<1>1. Init => SInv
  BY SInvInit
<1>2. SInv /\ [Next]_vars => SInv'
  BY SInvStep
<1> QED
  BY <1>1, <1>2, PTL DEF Spec

-----------------------------------------------------------------------------
\* Type correctness, for every value of the constants.
THEOREM SessionsTypeOK == Spec => []TypeOK
<1>1. SInv => TypeOK
  BY DEF SInv
<1> QED
  BY <1>1, SessionsInvariant, PTL

\* A rotated token and its successor are never both valid: delete_by_token and
\* create run in one transaction, and a delete that found nothing means that
\* the row is gone for good.
THEOREM RotationIsExclusive == Spec => []RotationExclusive
<1>1. SInv => RotationExclusive
  BY DEF SInv
<1> QED
  BY <1>1, SessionsInvariant, PTL

\* A refresh begun after the deactivation of its account inserts no session.
THEOREM InactiveGetsNoSession == Spec => []NoSessionWhenInactive
<1>1. SInv => NoSessionWhenInactive
  BY DEF SInv, PhaseInv, PendingInv, NoSessionWhenInactive
<1> QED
  BY <1>1, SessionsInvariant, PTL

\* logout-all and the prune leave none of the rows that their DELETE matched.
THEOREM BulkDeletesComplete == Spec => BulkDeleteComplete
<1>1. SInv /\ [Next]_vars
        => [\A p \in Process : Commit(p) => tokens' \intersect todo[p] = {}]_vars
  <2> SUFFICES ASSUME SInv, NEW p \in Process, Commit(p)
               PROVE  tokens' \intersect todo[p] = {}
    OBVIOUS
  <2>1. new[p] \notin todo[p]
    BY DEF SInv, SettledInv, Settled
  <2> QED
    BY <2>1 DEF SInv, PhaseInv, Commit
<1> QED
  BY <1>1, SessionsInvariant, PTL DEF Spec, BulkDeleteComplete

-----------------------------------------------------------------------------
\* Only a commit changes the table, and only the end of a transaction settles
\* a token: every other step is a stutter of the abstract store.
LEMMA StoreStep ==
  SInv /\ SInv' /\ [Next]_vars => [Store!Next]_<<tokens, Settled>>
<1> SUFFICES ASSUME SInv, SInv', [Next]_vars
             PROVE  Store!Next \/ UNCHANGED <<tokens, Settled>>
  OBVIOUS
<1> USE SessionsAssumption DEF Process
<1>1. ASSUME NEW p \in Process, Commit(p), new[p] = None
      PROVE  Store!Next
  <2>1. Settled' = Settled
    BY <1>1 DEF Commit, Release, SInv, TypeOK, Settled
  <2>2. Store!Revoke(dels[p])
    BY <1>1, <2>1 DEF Commit, Store!Revoke, SInv, LockInv
  <2> QED
    BY <1>1, <2>2 DEF Store!Next, SInv, LockInv
<1>2. ASSUME NEW p \in Process, Commit(p), new[p] # None
      PROVE  Store!Next
  <2> DEFINE n == new[p]
  <2>1. n \in Token /\ n \notin Settled /\ Settled' = Settled \union {n}
    BY <1>2 DEF Commit, Release, SInv, TypeOK, Settled, PendingInv
  <2>2. tokens' = (tokens \ dels[p]) \union {n}
    BY <1>2 DEF Commit
  <2>3. CASE dels[p] = {}
    BY <2>1, <2>2, <2>3 DEF Store!Open, Store!Next
  <2>4. CASE dels[p] # {}
    <3>1. dels[p] = {parent[n]} /\ parent[n] \in Settled
      BY <1>2, <2>4 DEF SInv, PendingInv, LockInv, SettledInv
    <3>2. Store!Exchange(parent[n], n)
      BY <2>1, <2>2, <3>1 DEF Store!Exchange
    <3> QED
      BY <2>1, <3>1, <3>2 DEF Store!Next
  <2> QED
    BY <2>3, <2>4
<1>3. ASSUME NEW p \in Process, Abort(p)
      PROVE  Store!Next \/ UNCHANGED <<tokens, Settled>>
  <2>1. CASE new[p] = None
    BY <1>3, <2>1 DEF Abort, Release, rows, SInv, TypeOK, Settled
  <2>2. CASE new[p] # None
    <3>1. Store!Lose(new[p])
      BY <1>3, <2>2
      DEF Abort, Release, rows, SInv, TypeOK, Settled, PendingInv, Store!Lose
    <3> QED
      BY <2>2, <3>1 DEF Store!Next, SInv, TypeOK
  <2> QED
    BY <2>1, <2>2
<1>4. ASSUME NEW r \in Request, LoginInsert(r) \/ RotateInsert(r)
      PROVE  UNCHANGED <<tokens, Settled>>
  BY <1>4 DEF LoginInsert, RotateInsert, Goto, Mint, SInv, TypeOK, Settled, PendingInv
<1>5. ASSUME UNCHANGED <<tokens, owner, new>>
      PROVE  UNCHANGED <<tokens, Settled>>
  BY <1>5 DEF Settled
<1> QED
  BY <1>1, <1>2, <1>3, <1>4, <1>5
  DEF Next, RequestStep, ProcessStep, Login, LoginTouch, FindToken, CheckUser,
      DeleteByToken, Logout, LogoutAll, Prune, BulkTake, BulkDone, Deactivate,
      Expire, rows, locals, vars

\* The table refresh_tokens behaves as the abstract store: no interleaving, lock
\* wait or rollback resurrects a token or issues two sessions in one commit.
THEOREM SessionsImplementStore == Spec => ImplementsStore
<1>1. Init => Store!Init
  BY DEF Init, Store!Init, Settled
<1>2. SInv /\ SInv' /\ [Next]_vars => [Store!Next]_<<tokens, Settled>>
  BY StoreStep
<1> QED
  BY <1>1, <1>2, SessionsInvariant, PTL DEF Spec, Store!Spec, ImplementsStore

\* A token that has left the table, by a rotation, a logout, a prune or a
\* rollback, never comes back into it.
THEOREM GoneStaysGone ==
  Spec => [][\A t \in Settled \ tokens : t \notin tokens' /\ t \in Settled']_vars
<1> DEFINE Step == \A t \in Settled \ tokens : t \notin tokens' /\ t \in Settled'
<1>1. ASSUME SInv, SInv', [Next]_vars PROVE Step
  <2>1. Store!Next \/ UNCHANGED <<tokens, Settled>>
    BY <1>1, StoreStep
  <2> QED
    BY <2>1 DEF Store!Next, Store!Open, Store!Exchange, Store!Lose, Store!Revoke
<1> QED
  BY <1>1, SessionsInvariant, PTL DEF Spec

\* What a refresh lacks is a look at the row count of its DELETE: those that have
\* deleted a row deleted the token they were given, which is still in the table
\* when they commit, and no other transaction can have deleted it.
THEOREM RotationOfDeletedIsLive ==
  Spec => [][\A p \in Process :
               Commit(p) /\ new[p] # None /\ dels[p] # {} =>
                 /\ dels[p] = {parent[new[p]]} /\ parent[new[p]] \in tokens \ tokens'
                 /\ \A q \in Process \ {p} : parent[new[p]] \notin dels[q]]_vars
<1> DEFINE Step == \A p \in Process :
             Commit(p) /\ new[p] # None /\ dels[p] # {} =>
               /\ dels[p] = {parent[new[p]]} /\ parent[new[p]] \in tokens \ tokens'
               /\ \A q \in Process \ {p} : parent[new[p]] \notin dels[q]
<1>1. ASSUME SInv, [Next]_vars PROVE [Step]_vars
  <2> SUFFICES ASSUME NEW p \in Process, Commit(p), new[p] # None, dels[p] # {}
               PROVE  /\ dels[p] = {parent[new[p]]} /\ parent[new[p]] \in tokens \ tokens'
                      /\ \A q \in Process \ {p} : parent[new[p]] \notin dels[q]
    OBVIOUS
  <2>1. dels[p] = {parent[new[p]]}
    BY <1>1 DEF SInv, PendingInv
  <2>2. /\ parent[new[p]] \in tokens
        /\ \A q \in Process \ {p} : parent[new[p]] \notin dels[q]
    BY <1>1, <2>1 DEF SInv, LockInv
  <2>3. parent[new[p]] \notin tokens'
    BY <1>1, <2>1, <2>2 DEF Commit, SInv, SettledInv, Settled
  <2> QED
    BY <2>1, <2>2, <2>3
<1> QED
  BY <1>1, SessionsInvariant, PTL DEF Spec

=============================================================================
