------------------------------ MODULE Sessions ------------------------------
(***************************************************************************)
(* Refresh-token sessions: AuthService, RefreshTokenRepository, the table  *)
(* refresh_tokens and the Celery task that prunes it.                      *)
(*                                                                         *)
(* A request is a process that runs SQL statements in one transaction of   *)
(* PostgreSQL at READ COMMITTED; every awaited statement is a step, so     *)
(* other requests run between any two of them.  A statement sees committed *)
(* rows only.  A DELETE locks the rows it deletes until the transaction    *)
(* ends; a DELETE that meets a locked row waits and skips the row if the   *)
(* holder commits.  The handler's answer is sent before get_db commits, so *)
(* "responded" is a state of its own, and any transaction may still abort. *)
(***************************************************************************)

CONSTANTS User,      \* accounts
          Token,     \* raw token values generate_refresh_token may draw
          Request,   \* concurrent HTTP requests
          Worker,    \* concurrent runs of the Celery prune task
          None       \* SQL NULL, and "not set yet" in a local variable

Process == Request \union Worker

ASSUME SessionsAssumption ==
  /\ None \notin Token \union User
  /\ Request \intersect Worker = {}

VARIABLES
  tokens,    \* committed rows of refresh_tokens
  owner,     \* owner[t]: user_id of a token that has been drawn, else None
  expired,   \* tokens whose expires_at lies in the past
  active,    \* users whose committed row has is_active
  pc,        \* next statement of a process
  user,      \* the process's local user id
  tok,       \* the token a refresh is exchanging
  new,       \* the row its transaction has inserted
  dels,      \* the rows its transaction has deleted, hence locked
  todo,      \* the rows a multi-row DELETE matched when it started
  touched,   \* the users row its transaction has updated, hence locked
  parent,    \* history: the token a token was exchanged for
  late       \* history: the account was inactive when the request began

rows == <<tokens, owner, expired, active, parent>>
locals == <<user, tok, new, dels, todo, touched, late>>
vars == <<rows, pc, locals>>

Steps == {"idle", "login_insert", "login_touch", "check_user", "rotate_delete",
          "rotate_insert", "reject_delete", "raise", "bulk", "responded"}

-----------------------------------------------------------------------------
Init ==
  /\ tokens = {} /\ expired = {} /\ active = User
  /\ owner = [t \in Token |-> None]
  /\ parent = [t \in Token |-> None]
  /\ pc = [p \in Process |-> "idle"]
  /\ user = [p \in Process |-> None]
  /\ tok = [p \in Process |-> None]
  /\ new = [p \in Process |-> None]
  /\ dels = [p \in Process |-> {}]
  /\ todo = [p \in Process |-> {}]
  /\ touched = [p \in Process |-> None]
  /\ late = [p \in Process |-> FALSE]

Goto(p, from, to) == pc[p] = from /\ pc' = [pc EXCEPT ![p] = to]

\* No other transaction holds the lock of row t.
Unlocked(p, t) == \A q \in Process \ {p} : t \notin dels[q]

\* The connection goes back to the pool: nothing of the transaction is left.
Release(p) ==
  /\ pc' = [pc EXCEPT ![p] = "idle"]
  /\ user' = [user EXCEPT ![p] = None]
  /\ tok' = [tok EXCEPT ![p] = None]
  /\ new' = [new EXCEPT ![p] = None]
  /\ dels' = [dels EXCEPT ![p] = {}]
  /\ todo' = [todo EXCEPT ![p] = {}]
  /\ touched' = [touched EXCEPT ![p] = None]
  /\ late' = [late EXCEPT ![p] = FALSE]

\* Mutation: the token values repeat.
MintRepeats(p, from) ==
  \E t \in Token :
    /\ \A q \in Process : new[q] # t
    /\ owner' = [owner EXCEPT ![t] = user[p]]
    /\ parent' = [parent EXCEPT ![t] = from]
    /\ new' = [new EXCEPT ![p] = t]

\* INSERT of a freshly drawn token; from is the token it replaces, if any.
Mint(p, from) ==
  \E t \in Token :
    /\ owner[t] = None
    /\ owner' = [owner EXCEPT ![t] = user[p]]
    /\ parent' = [parent EXCEPT ![t] = from]
    /\ new' = [new EXCEPT ![p] = t]

-----------------------------------------------------------------------------
(* POST /auth/login *)

\* get_active_by_email finds the account and the password matches; any other
\* outcome is a 401 that has changed nothing.
Login(r, u) ==
  /\ Goto(r, "idle", "login_insert")
  /\ u \in active
  /\ user' = [user EXCEPT ![r] = u]
  /\ UNCHANGED <<rows, tok, new, dels, todo, touched, late>>

LoginInsert(r) ==
  /\ Goto(r, "login_insert", "login_touch")
  /\ Mint(r, None)
  /\ UNCHANGED <<tokens, expired, active, user, tok, dels, todo, touched, late>>

\* update_last_login: UPDATE users, which waits for a lock on the row.
LoginTouch(r) ==
  /\ Goto(r, "login_touch", "responded")
  /\ \A q \in Process \ {r} : touched[q] # user[r]
  /\ touched' = [touched EXCEPT ![r] = user[r]]
  /\ UNCHANGED <<rows, user, tok, new, dels, todo, late>>

-----------------------------------------------------------------------------
(* POST /auth/refresh *)

\* get_by_token; a token that is not there is a 401 that has changed nothing.
\* An expired one is deleted, and the 401 that follows rolls the DELETE back.
FindToken(r, t) ==
  /\ t \in tokens
  /\ Goto(r, "idle", IF t \in expired THEN "reject_delete" ELSE "check_user")
  /\ user' = [user EXCEPT ![r] = owner[t]]
  /\ tok' = [tok EXCEPT ![r] = t]
  /\ late' = [late EXCEPT ![r] = owner[t] \notin active]
  /\ UNCHANGED <<rows, new, dels, todo, touched>>

\* Mutation: the refresh trusts the token row and does not load the user.
CheckUserNot(r) ==
  /\ Goto(r, "check_user", "rotate_delete")
  /\ UNCHANGED <<rows, locals>>

CheckUser(r) ==
  /\ Goto(r, "check_user", IF user[r] \in active THEN "rotate_delete" ELSE "raise")
  /\ UNCHANGED <<rows, locals>>

\* Mutation: the DELETE skips a locked row instead of waiting for it.
DeleteByTokenSkipLocked(r) ==
  /\ \/ Goto(r, "rotate_delete", "rotate_insert")
     \/ Goto(r, "reject_delete", "raise")
  /\ dels' = [dels EXCEPT ![r] = {t \in {tok[r]} \intersect tokens : Unlocked(r, t)}]
  /\ UNCHANGED <<rows, user, tok, new, todo, touched, late>>

\* delete_by_token: the row count is not looked at.
DeleteByToken(r) ==
  /\ \/ Goto(r, "rotate_delete", "rotate_insert")
     \/ Goto(r, "reject_delete", "raise")
  /\ Unlocked(r, tok[r])
  /\ dels' = [dels EXCEPT ![r] = {tok[r]} \intersect tokens]
  /\ UNCHANGED <<rows, user, tok, new, todo, touched, late>>

RotateInsert(r) ==
  /\ Goto(r, "rotate_insert", "responded")
  /\ Mint(r, tok[r])
  /\ UNCHANGED <<tokens, expired, active, user, tok, dels, todo, touched, late>>

-----------------------------------------------------------------------------
(* POST /auth/logout, POST /auth/logout-all and the nightly prune *)

Logout(r, t) ==
  /\ Goto(r, "idle", "responded")
  /\ owner[t] # None
  /\ Unlocked(r, t)
  /\ dels' = [dels EXCEPT ![r] = {t} \intersect tokens]
  /\ UNCHANGED <<rows, user, tok, new, todo, touched, late>>

\* delete_all_for_user: the rows the statement's snapshot holds.
LogoutAll(r, u) ==
  /\ Goto(r, "idle", "bulk")
  /\ user' = [user EXCEPT ![r] = u]
  /\ todo' = [todo EXCEPT ![r] = {t \in tokens : owner[t] = u}]
  /\ UNCHANGED <<rows, tok, new, dels, touched, late>>

\* delete_expired, from the Celery task.
Prune(w) ==
  /\ Goto(w, "idle", "bulk")
  /\ todo' = [todo EXCEPT ![w] = tokens \intersect expired]
  /\ UNCHANGED <<rows, user, tok, new, dels, touched, late>>

\* A multi-row DELETE takes its rows one by one, waiting for each lock ...
BulkTake(p, t) ==
  /\ pc[p] = "bulk"
  /\ t \in (todo[p] \intersect tokens) \ dels[p]
  /\ Unlocked(p, t)
  /\ dels' = [dels EXCEPT ![p] = @ \union {t}]
  /\ UNCHANGED <<rows, pc, user, tok, new, todo, touched, late>>

\* Mutation: rows locked by another transaction are skipped.
BulkDoneSkipLocked(p) ==
  /\ Goto(p, "bulk", "responded")
  /\ \A t \in (todo[p] \intersect tokens) \ dels[p] : ~Unlocked(p, t)
  /\ UNCHANGED <<rows, locals>>

\* ... and skips those that a transaction it waited for has deleted.
BulkDone(p) ==
  /\ Goto(p, "bulk", "responded")
  /\ todo[p] \intersect tokens \subseteq dels[p]
  /\ UNCHANGED <<rows, locals>>

-----------------------------------------------------------------------------
(* The end of a transaction, and what happens elsewhere *)

\* Mutation: a handler that inserted nothing flushes an empty row.
CommitEmptyRow(p) ==
  /\ pc[p] = "responded"
  /\ tokens' = (tokens \ dels[p]) \union {new[p]}
  /\ Release(p)
  /\ UNCHANGED <<owner, expired, active, parent>>

\* session.commit(), after the response has been sent.
Commit(p) ==
  /\ pc[p] = "responded"
  /\ tokens' = (tokens \ dels[p]) \union ({new[p]} \ {None})
  /\ Release(p)
  /\ UNCHANGED <<owner, expired, active, parent>>

\* An exception, a deadlock victim, a lost connection or a crashed process,
\* before the response or after it: PostgreSQL rolls the transaction back.
Abort(p) ==
  /\ pc[p] # "idle"
  /\ Release(p)
  /\ UNCHANGED rows

\* deactivate_user commits; its UPDATE waits for a lock on the users row.
Deactivate(u) ==
  /\ u \in active
  /\ \A p \in Process : touched[p] # u
  /\ active' = active \ {u}
  /\ UNCHANGED <<tokens, owner, expired, parent, pc, locals>>

\* The clock passes expires_at.
Expire(t) ==
  /\ t \in tokens \ expired
  /\ expired' = expired \union {t}
  /\ UNCHANGED <<tokens, owner, active, parent, pc, locals>>

-----------------------------------------------------------------------------
RequestStep(r) ==
  \/ \E u \in User : Login(r, u) \/ LogoutAll(r, u)
  \/ \E t \in Token : FindToken(r, t) \/ Logout(r, t)
  \/ LoginInsert(r) \/ LoginTouch(r)
  \/ CheckUser(r) \/ DeleteByToken(r) \/ RotateInsert(r)

ProcessStep(p) ==
  \/ \E t \in Token : BulkTake(p, t)
  \/ BulkDone(p) \/ Commit(p) \/ Abort(p)

Next ==
  \/ \E r \in Request : RequestStep(r)
  \/ \E w \in Worker : Prune(w)
  \/ \E p \in Process : ProcessStep(p)
  \/ \E u \in User : Deactivate(u)
  \/ \E t \in Token : Expire(t)

Spec == Init /\ [][Next]_vars

-----------------------------------------------------------------------------
(* Properties *)

\* Every variable stays in its type.
TypeOK ==
  /\ tokens \subseteq Token /\ expired \subseteq Token /\ active \subseteq User
  /\ owner \in [Token -> User \union {None}]
  /\ parent \in [Token -> Token \union {None}]
  /\ pc \in [Process -> Steps]
  /\ user \in [Process -> User \union {None}]
  /\ tok \in [Process -> Token \union {None}]
  /\ new \in [Process -> Token \union {None}]
  /\ dels \in [Process -> SUBSET Token]
  /\ todo \in [Process -> SUBSET Token]
  /\ touched \in [Process -> User \union {None}]
  /\ late \in [Process -> BOOLEAN]

\* A token and the token it was exchanged for are never both in the table,
\* however refreshes, logouts, prunes and rollbacks interleave: the DELETE and
\* the INSERT of a rotation stand or fall together, and a refresh whose DELETE
\* found nothing did so because another transaction had removed the row.
RotationExclusive ==
  \A t \in tokens : parent[t] \notin tokens

\* A request that began when its account was already deactivated never
\* inserts a session (login and refresh both look at is_active, refresh a
\* statement later than the token it trusts).
NoSessionWhenInactive ==
  \A p \in Process : late[p] => new[p] = None

\* When a logout-all or a prune commits, no row its DELETE matched is left,
\* also not one it had to wait for while a concurrent refresh held its lock.
BulkDeleteComplete ==
  [][\A p \in Process : Commit(p) => tokens' \intersect todo[p] = {}]_vars

\* Tokens that have been drawn and whose transaction has ended.
Settled == {t \in Token : owner[t] # None /\ \A p \in Process : new[p] # t}

\* The committed table, seen without the transactions, is a SessionStore: no
\* rollback, lock wait or late commit brings a token back, no commit adds two
\* sessions, and none that adds a session takes away more than one other.
Store == INSTANCE SessionStore WITH live <- tokens, ever <- Settled

ImplementsStore == Store!Spec

\* ADR-006 (Consequences): "Instant revocation of any or all sessions per
\* user".  A refresh yields a session only if the token it was given is still
\* in the table when it does: no session comes out of a token that a logout,
\* a logout-all or another refresh has taken away.
RefreshNeedsLiveToken ==
  [][\A p \in Process :
       Commit(p) /\ new[p] # None => parent[new[p]] \in tokens \union {None}]_vars

=============================================================================
