----------------------------- MODULE UserAdmin ------------------------------
(***************************************************************************)
(* Administration of users: UserService.update_user and deactivate_user,   *)
(* the role check of require_role, and the table users.                    *)
(*                                                                         *)
(* A request runs SQL statements in one READ COMMITTED transaction; every  *)
(* awaited statement is a step and sees committed rows only.  An UPDATE of *)
(* the ORM goes by primary key, writes the changed columns only, and holds *)
(* the row until the transaction ends.  The handler's answer is sent       *)
(* before get_db commits ("responded"), and any transaction may abort.     *)
(***************************************************************************)

CONSTANTS User,       \* ids of users rows
          Org,        \* organizations
          OrgOf,      \* OrgOf[u]: organization_id, which no operation changes
          Founder,    \* Founder[o]: the admin that registration creates
          OtherRole,  \* the roles of UserRole other than ADMIN
          Request,    \* concurrent HTTP requests
          None        \* "no role given" in a request, "not set" in a local, no row

\* The guards tell admins from the rest only, but a change from one of the other
\* roles to another is written all the same.
Role == {"admin"} \union OtherRole
Op == {"update", "deactivate"}

ASSUME UserAdminAssumption ==
  /\ None \notin User \union Role \union Op
  /\ "admin" \notin OtherRole
  /\ OrgOf \in [User -> Org]
  /\ Founder \in [Org -> User]
  /\ \A o \in Org : OrgOf[Founder[o]] = o

VARIABLES
  status,    \* status[u]: "absent", "active", or "deleted" (soft-deleted)
  role,      \* role[u]: the committed role, None if there is no row
  claims,    \* users that hold an unexpired access token whose role is admin
  pc,        \* next statement of a request
  op,        \* "update" or "deactivate"
  target,    \* the user it is about
  want,      \* the role in the body of a PATCH, or None
  seen,      \* the target's role when the request loaded it
  overlap    \* history: organizations in which two removals were in flight

rows == <<status, role, claims>>
locals == <<op, target, want, seen>>
vars == <<rows, pc, locals, overlap>>

Steps == {"idle", "count", "write", "responded"}

-----------------------------------------------------------------------------
Init ==
  /\ status = [u \in User |-> IF u = Founder[OrgOf[u]] THEN "active" ELSE "absent"]
  /\ role = [u \in User |-> IF u = Founder[OrgOf[u]] THEN "admin" ELSE None]
  /\ claims = {}
  /\ pc = [r \in Request |-> "idle"]
  /\ op = [r \in Request |-> None]
  /\ target = [r \in Request |-> None]
  /\ want = [r \in Request |-> None]
  /\ seen = [r \in Request |-> None]
  /\ overlap = {}

Goto(r, from, to) == pc[r] = from /\ pc' = [pc EXCEPT ![r] = to]

Release(r) ==
  /\ pc' = [pc EXCEPT ![r] = "idle"]
  /\ op' = [op EXCEPT ![r] = None]
  /\ target' = [target EXCEPT ![r] = None]
  /\ want' = [want EXCEPT ![r] = None]
  /\ seen' = [seen EXCEPT ![r] = None]

Admins(o) ==
  {u \in User : OrgOf[u] = o /\ status[u] = "active" /\ role[u] = "admin"}

\* The guards' admin_count <= 1.
LastAdmin(o) == \A a, b \in Admins(o) : a = b

\* The request takes admin rights away if its target has them when it commits: it
\* deactivates, or it writes a role other than admin.  The guard has counted the
\* admins for it only if the target was an admin when it was loaded.
Removal(r) == op[r] = "deactivate" \/ want[r] \in OtherRole \ {seen[r]}

\* A request of that kind in organization o has loaded its target and has not
\* ended.
RemovalInFlight(o) ==
  \E r \in Request : pc[r] # "idle" /\ Removal(r) /\ OrgOf[target[r]] = o

-----------------------------------------------------------------------------
(* PATCH /users/{id} and POST /users/{id}/deactivate *)

\* require_role("admin") looks at the token's claim, never at the users row.
Authorized(a) == a \in claims

\* Mutation: the target is loaded by session.get, with its deleted rows.
LoadDeleted(r, a, u) ==
  /\ Authorized(a)
  /\ status[u] # "absent" /\ OrgOf[u] = OrgOf[a]
  /\ target' = [target EXCEPT ![r] = u]
  /\ seen' = [seen EXCEPT ![r] = role[u]]

\* _get_or_raise loads the target (404 for a deleted user, 403 for one of another
\* organization).
Load(r, a, u) ==
  /\ Authorized(a)
  /\ status[u] = "active" /\ OrgOf[u] = OrgOf[a]
  /\ target' = [target EXCEPT ![r] = u]
  /\ seen' = [seen EXCEPT ![r] = role[u]]

StartUpdate(r, a, u, w) ==
  /\ Goto(r, "idle", IF w \in OtherRole /\ role[u] = "admin" THEN "count" ELSE "write")
  /\ Load(r, a, u)
  /\ op' = [op EXCEPT ![r] = "update"]
  /\ want' = [want EXCEPT ![r] = w]
  /\ overlap' = IF w \in OtherRole \ {role[u]} /\ RemovalInFlight(OrgOf[u])
                THEN overlap \union {OrgOf[u]} ELSE overlap
  /\ UNCHANGED rows

StartDeactivate(r, a, u) ==
  /\ Goto(r, "idle", IF role[u] = "admin" THEN "count" ELSE "write")
  /\ a # u
  /\ Load(r, a, u)
  /\ op' = [op EXCEPT ![r] = "deactivate"]
  /\ overlap' = IF RemovalInFlight(OrgOf[u])
                THEN overlap \union {OrgOf[u]} ELSE overlap
  /\ UNCHANGED <<rows, want>>

\* Mutation: the guard is off by one.
CountAdminsOffByOne(r) ==
  /\ Goto(r, "count", "write")
  /\ Admins(OrgOf[target[r]]) # {}
  /\ UNCHANGED <<rows, locals, overlap>>

\* admin_count > 1; otherwise BusinessRuleViolationError, and the request aborts.
CountAdmins(r) ==
  /\ Goto(r, "count", "write")
  /\ ~LastAdmin(OrgOf[target[r]])
  /\ UNCHANGED <<rows, locals, overlap>>

\* The flush's UPDATE waits for another transaction that has updated the row.
Write(r) ==
  /\ Goto(r, "write", "responded")
  /\ \A s \in Request \ {r} : ~(pc[s] = "responded" /\ target[s] = target[r])
  /\ UNCHANGED <<rows, locals, overlap>>

-----------------------------------------------------------------------------
(* The end of a transaction, and what happens elsewhere *)

\* Mutation: an UPDATE of every column, with the values loaded before.
CommitAllColumns(r) ==
  LET u == target[r] IN
  /\ pc[r] = "responded"
  /\ status' = IF op[r] = "deactivate" THEN [status EXCEPT ![u] = "deleted"]
               ELSE status
  /\ role' = [role EXCEPT ![u] = IF want[r] = None THEN seen[r] ELSE want[r]]
  /\ Release(r)
  /\ UNCHANGED <<claims, overlap>>

\* Mutation: model_dump without exclude_none.
CommitNone(r) ==
  LET u == target[r] IN
  /\ pc[r] = "responded"
  /\ status' = IF op[r] = "deactivate" THEN [status EXCEPT ![u] = "deleted"]
               ELSE status
  /\ role' = [role EXCEPT ![u] = want[r]]
  /\ Release(r)
  /\ UNCHANGED <<claims, overlap>>

\* A role that equals the loaded one is no change, and its column is not written.
Commit(r) ==
  LET u == target[r] IN
  /\ pc[r] = "responded"
  /\ status' = IF op[r] = "deactivate" THEN [status EXCEPT ![u] = "deleted"]
               ELSE status
  /\ role' = IF want[r] \notin {None, seen[r]} THEN [role EXCEPT ![u] = want[r]]
             ELSE role
  /\ Release(r)
  /\ UNCHANGED <<claims, overlap>>

\* A rejected request, an exception, a lost connection or a crash.
Abort(r) ==
  /\ pc[r] # "idle"
  /\ Release(r)
  /\ UNCHANGED <<rows, overlap>>

\* Accepting an invitation creates an account.
Join(u, w) ==
  /\ status[u] = "absent"
  /\ status' = [status EXCEPT ![u] = "active"]
  /\ role' = [role EXCEPT ![u] = w]
  /\ UNCHANGED <<claims, pc, locals, overlap>>

\* Login and refresh sign the role that the users row has at that moment.
IssueToken(u) ==
  /\ status[u] = "active" /\ role[u] = "admin"
  /\ claims' = claims \union {u}
  /\ UNCHANGED <<status, role, pc, locals, overlap>>

\* Eight hours later; nothing else ends an access token.
TokenExpires(u) ==
  /\ u \in claims
  /\ claims' = claims \ {u}
  /\ UNCHANGED <<status, role, pc, locals, overlap>>

-----------------------------------------------------------------------------
RequestStep(r) ==
  \/ \E a, u \in User : \/ StartDeactivate(r, a, u)
                        \/ \E w \in Role \union {None} : StartUpdate(r, a, u, w)
  \/ CountAdmins(r) \/ Write(r) \/ Commit(r) \/ Abort(r)

Next ==
  \/ \E r \in Request : RequestStep(r)
  \/ \E u \in User : IssueToken(u) \/ TokenExpires(u) \/ \E w \in Role : Join(u, w)

Spec == Init /\ [][Next]_vars

-----------------------------------------------------------------------------
(* Properties *)

TypeOK ==
  /\ status \in [User -> {"absent", "active", "deleted"}]
  /\ role \in [User -> Role \union {None}]
  /\ \A u \in User : role[u] = None <=> status[u] = "absent"
  /\ claims \subseteq User
  /\ pc \in [Request -> Steps]
  /\ op \in [Request -> Op \union {None}]
  /\ target \in [Request -> User \union {None}]
  /\ want \in [Request -> Role \union {None}]
  /\ seen \in [Request -> Role \union {None}]
  /\ overlap \subseteq Org

\* The guards of update_user and deactivate_user do keep an organization from
\* losing its last admin as long as no two requests that take admin rights away
\* in it are in flight together: stale tokens, newcomers, aborted requests, and a
\* change between two other roles, which no guard counts admins for and which
\* demotes whoever has been promoted since it was checked, do not defeat them.
LastAdminKept ==
  \A o \in Org \ overlap : Admins(o) # {}

\* A role changes only into one that a committing request has
\* asked for: a PATCH of another field that was loaded before
\* a promotion or demotion does not write the old role back.
RoleChangesAsAsked ==
  [][\A u \in User :
       status[u] # "absent" /\ role'[u] # role[u] =>
         \E r \in Request : Commit(r) /\ target[r] = u /\ want[r] = role'[u]]_vars

\* user_service.py: "Prevent demoting the last admin" and "Cannot deactivate the
\* last admin in the organization".
OrgHasAdmin ==
  \A o \in Org : Admins(o) # {}

People == INSTANCE Roster WITH contended <- overlap

\* update_user and deactivate_user, from the unlocked load to the late commit,
\* are one step of the roster: where no two removals overlap they act on an
\* active user, and they leave another admin, also when the target was loaded
\* with a role that needs no guard and is an admin by now.
ImplementsRoster == People!Spec

=============================================================================
