------------------------------ MODULE Projects ------------------------------
(***************************************************************************)
(* Projects and sites: ProjectService, SiteService, their repositories and *)
(* the status machine of models/project.py.                                *)
(*                                                                         *)
(* A request runs SQL statements in one READ COMMITTED transaction; every  *)
(* awaited statement is a step and sees committed rows only.  It loads the *)
(* row, checks it, and writes it later: an UPDATE of the ORM goes by       *)
(* primary key, writes the changed columns only, and looks at nothing      *)
(* again.  The answer is sent before get_db commits ("responded"), and any *)
(* transaction may abort.                                                  *)
(***************************************************************************)
CONSTANTS Project,  \* ids of projects rows
          Code,     \* (organization_id, upper-cased code) pairs
          Site,     \* ids of sites rows
          Request,  \* concurrent HTTP requests
          None      \* SQL NULL, and "not set" in a local variable

Status == {"draft", "active", "on_hold", "closed"}

\* Mutation: a draft can be cancelled.
CanTransitionCancel(from, to) ==
  \/ from = "draft" /\ to \in {"active", "closed"}
  \/ from = "active" /\ to \in {"on_hold", "closed"}
  \/ from = "on_hold" /\ to \in {"active", "closed"}

\* ALLOWED_TRANSITIONS; closed has no exit.
CanTransition(from, to) ==
  \/ from = "draft" /\ to = "active"
  \/ from = "active" /\ to \in {"on_hold", "closed"}
  \/ from = "on_hold" /\ to \in {"active", "closed"}

ASSUME ProjectsAssumption == None \notin Project \union Code \union Site \union Status

VARIABLES
  status,    \* status[p]: the committed status, None if there is no row
  code,      \* code[p]: the key of the row in ix_projects_org_code
  deleted,   \* projects whose row is soft-deleted
  ended,     \* projects whose row has an actual_end_date
  siteOf,    \* siteOf[s]: project_id of a sites row, None if there is no row
  siteGone,  \* sites whose row is soft-deleted
  pc,        \* next statement of a request
  op,        \* the service method it runs
  proj,      \* the project it is about
  arg,       \* the status or the code in its body, or its site
  raced      \* history: projects that a writer had in flight with another request

rows == <<status, code, deleted, ended, siteOf, siteGone>>
locals == <<op, proj, arg>>
vars == <<rows, pc, locals, raced>>

Op == {"create", "update", "transition", "delete",
       "site_create", "site_update", "site_delete"}
Steps == {"idle", "insert", "write", "responded"}

-----------------------------------------------------------------------------
Init ==
  /\ status = [p \in Project |-> None]
  /\ code = [p \in Project |-> None]
  /\ siteOf = [s \in Site |-> None]
  /\ deleted = {} /\ ended = {} /\ siteGone = {} /\ raced = {}
  /\ pc = [r \in Request |-> "idle"]
  /\ op = [r \in Request |-> None]
  /\ proj = [r \in Request |-> None]
  /\ arg = [r \in Request |-> None]

\* A request starts: method o on project p with argument a.
Start(r, o, p, a, next) ==
  /\ pc[r] = "idle"
  /\ pc' = [pc EXCEPT ![r] = next]
  /\ op' = [op EXCEPT ![r] = o]
  /\ proj' = [proj EXCEPT ![r] = p]
  /\ arg' = [arg EXCEPT ![r] = a]

Goto(r, from, to) == pc[r] = from /\ pc' = [pc EXCEPT ![r] = to]

Release(r) ==
  /\ pc' = [pc EXCEPT ![r] = "idle"]
  /\ op' = [op EXCEPT ![r] = None]
  /\ proj' = [proj EXCEPT ![r] = None]
  /\ arg' = [arg EXCEPT ![r] = None]

\* get_by_id_or_raise finds the project; anything else is a 404.
Live(p) == status[p] # None /\ p \notin deleted

SiteLive(s) == siteOf[s] # None /\ s \notin siteGone

\* What a method requires of the project it has loaded.
Guard(o, a, p) ==
  /\ Live(p)
  /\ o \in {"update", "site_create"} => status[p] # "closed"
  /\ o = "transition" => CanTransition(status[p], a)
  /\ o = "delete" => status[p] \in {"draft", "closed"}

Writers == {"transition", "delete"}   \* methods that change what guards look at

\* History: r loads p while another request works on p, and one of them writes.
Race(r, o, p) ==
  raced' = IF \E s \in Request : /\ pc[s] # "idle" /\ proj[s] = p
                                 /\ {o, op[s]} \intersect Writers # {}
           THEN raced \union {p} ELSE raced

-----------------------------------------------------------------------------
(* ProjectService *)

\* code_exists looks at live projects only (409).
StartCreate(r, c) ==
  /\ \A p \in Project : Live(p) => code[p] # c
  /\ Start(r, "create", None, c, "insert")
  /\ UNCHANGED <<rows, raced>>

\* Mutation: no unique index behind code_exists.
InsertProjectUnindexed(r) ==
  /\ Goto(r, "insert", "responded")
  /\ op[r] = "create"
  /\ \E p \in Project :
       /\ status[p] = None
       /\ \A s \in Request : proj[s] # p
       /\ proj' = [proj EXCEPT ![r] = p]
  /\ UNCHANGED <<rows, op, arg, raced>>

\* The unique index on (organization_id, code) holds deleted projects too; the
\* INSERT waits for another one of the same code.  A clash is an
\* IntegrityError, and the request aborts.
InsertProject(r) ==
  /\ Goto(r, "insert", "responded")
  /\ op[r] = "create"
  /\ \A p \in Project : code[p] # arg[r]
  /\ \A s \in Request \ {r} : ~(pc[s] = "responded" /\ op[s] = "create" /\ arg[s] = arg[r])
  /\ \E p \in Project :
       /\ status[p] = None
       /\ \A s \in Request : proj[s] # p
       /\ proj' = [proj EXCEPT ![r] = p]
  /\ UNCHANGED <<rows, op, arg, raced>>

\* Mutation: the loaded project's status is not looked at.
StartChangeUnchecked(r, o, p, a) ==
  /\ \/ o \in {"update", "delete"} /\ a = None
     \/ o = "transition" /\ a \in Status
  /\ Live(p)
  /\ Start(r, o, p, a, "write")
  /\ Race(r, o, p)
  /\ UNCHANGED rows

\* update, transition_status and soft_delete: load, check, and set attributes.
StartChange(r, o, p, a) ==
  /\ \/ o \in {"update", "delete"} /\ a = None
     \/ o = "transition" /\ a \in Status
  /\ Guard(o, a, p)
  /\ Start(r, o, p, a, "write")
  /\ Race(r, o, p)
  /\ UNCHANGED rows

-----------------------------------------------------------------------------
(* SiteService *)

\* Mutation: the project's status is not looked at.
StartSiteCreateUnchecked(r, p) ==
  /\ Live(p)
  /\ Start(r, "site_create", p, None, "insert")
  /\ Race(r, "site_create", p)
  /\ UNCHANGED rows

StartSiteCreate(r, p) ==
  /\ Guard("site_create", None, p)
  /\ Start(r, "site_create", p, None, "insert")
  /\ Race(r, "site_create", p)
  /\ UNCHANGED rows

\* The foreign key needs the project's row only, which is never deleted.
InsertSite(r) ==
  /\ Goto(r, "insert", "responded")
  /\ op[r] = "site_create"
  /\ \E s \in Site : /\ siteOf[s] = None
                     /\ \A q \in Request : arg[q] # s
                     /\ arg' = [arg EXCEPT ![r] = s]
  /\ UNCHANGED <<rows, op, proj, raced>>

\* The site's project is not looked at.
StartSiteChange(r, o, s) ==
  /\ o \in {"site_update", "site_delete"}
  /\ SiteLive(s)
  /\ Start(r, o, None, s, "write")
  /\ UNCHANGED <<rows, raced>>

-----------------------------------------------------------------------------
(* Flush, and the end of a transaction *)

\* The UPDATE waits for another transaction that has updated the row.
Write(r) ==
  /\ Goto(r, "write", "responded")
  /\ \A s \in Request \ {r} :
       pc[s] = "responded" /\ op[s] \notin {"create", "site_create"} =>
         IF proj[r] # None THEN proj[s] # proj[r] ELSE arg[s] # arg[r]
  /\ UNCHANGED <<rows, locals, raced>>

\* Mutation: every commit on a project takes its status from the body.
CommitBodyAsStatus(r) ==
  LET p == proj[r] IN
  /\ pc[r] = "responded"
  /\ status' = IF p # None THEN [status EXCEPT ![p] = arg[r]] ELSE status
  /\ code' = IF op[r] = "create" THEN [code EXCEPT ![p] = arg[r]] ELSE code
  /\ ended' = IF op[r] = "transition" /\ arg[r] = "closed"
              THEN ended \union {p} ELSE ended
  /\ deleted' = IF op[r] = "delete" THEN deleted \union {p} ELSE deleted
  /\ siteOf' = IF op[r] = "site_create" THEN [siteOf EXCEPT ![arg[r]] = p] ELSE siteOf
  /\ siteGone' = IF op[r] = "site_delete" THEN siteGone \union {arg[r]} ELSE siteGone
  /\ Release(r)
  /\ UNCHANGED raced

\* Mutation: only closing an active project sets its end date.
CommitDateFromActive(r) ==
  LET p == proj[r] IN
  /\ pc[r] = "responded"
  /\ status' = IF op[r] \in {"create", "transition"}
               THEN [status EXCEPT ![p] = IF op[r] = "create" THEN "draft" ELSE arg[r]]
               ELSE status
  /\ code' = IF op[r] = "create" THEN [code EXCEPT ![p] = arg[r]] ELSE code
  /\ ended' = IF op[r] = "transition" /\ arg[r] = "closed" /\ status[p] = "active"
              THEN ended \union {p} ELSE ended
  /\ deleted' = IF op[r] = "delete" THEN deleted \union {p} ELSE deleted
  /\ siteOf' = IF op[r] = "site_create" THEN [siteOf EXCEPT ![arg[r]] = p] ELSE siteOf
  /\ siteGone' = IF op[r] = "site_delete" THEN siteGone \union {arg[r]} ELSE siteGone
  /\ Release(r)
  /\ UNCHANGED raced

Commit(r) ==
  LET p == proj[r] IN
  /\ pc[r] = "responded"
  /\ status' = IF op[r] \in {"create", "transition"}
               THEN [status EXCEPT ![p] = IF op[r] = "create" THEN "draft" ELSE arg[r]]
               ELSE status
  /\ code' = IF op[r] = "create" THEN [code EXCEPT ![p] = arg[r]] ELSE code
  /\ ended' = IF op[r] = "transition" /\ arg[r] = "closed"
              THEN ended \union {p} ELSE ended
  /\ deleted' = IF op[r] = "delete" THEN deleted \union {p} ELSE deleted
  /\ siteOf' = IF op[r] = "site_create" THEN [siteOf EXCEPT ![arg[r]] = p] ELSE siteOf
  /\ siteGone' = IF op[r] = "site_delete" THEN siteGone \union {arg[r]} ELSE siteGone
  /\ Release(r)
  /\ UNCHANGED raced

\* A rejected request, an exception, a lost connection or a crash.
Abort(r) ==
  /\ pc[r] # "idle"
  /\ Release(r)
  /\ UNCHANGED <<rows, raced>>

-----------------------------------------------------------------------------
RequestStep(r) ==
  \/ \E c \in Code : StartCreate(r, c)
  \/ \E p \in Project :
       \/ \E o \in Op, a \in Status \union {None} : StartChange(r, o, p, a)
       \/ StartSiteCreate(r, p)
  \/ \E o \in Op, s \in Site : StartSiteChange(r, o, s)
  \/ InsertProject(r) \/ InsertSite(r) \/ Write(r) \/ Commit(r) \/ Abort(r)

Next == \E r \in Request : RequestStep(r)

Spec == Init /\ [][Next]_vars

-----------------------------------------------------------------------------
(* Properties *)

TypeOK ==
  /\ status \in [Project -> Status \union {None}]
  /\ code \in [Project -> Code \union {None}]
  /\ deleted \subseteq Project /\ ended \subseteq Project /\ raced \subseteq Project
  /\ siteOf \in [Site -> Project \union {None}]
  /\ siteGone \subseteq Site
  /\ pc \in [Request -> Steps]
  /\ op \in [Request -> Op \union {None}]
  /\ proj \in [Request -> Project \union {None}]
  /\ arg \in [Request -> Status \union Code \union Site \union {None}]

\* No two projects of an organization share a code, whichever creations run
\* between code_exists and the INSERT, and whichever are deleted or rolled back.
CodesUnique ==
  \A p, q \in Project : p # q /\ code[p] # None => code[p] # code[q]

\* A closed project has the end date that closing it sets, also when several
\* transitions of it have overwritten one another.
ClosedHasEndDate ==
  \A p \in Project : status[p] = "closed" => p \in ended

\* A draft is only ever activated: not even overlapping transitions skip from
\* draft to on_hold or closed, or bring a project back to draft.
DraftOnlyActivates ==
  [][\A p \in Project :
       status'[p] # status[p] => /\ status[p] = "draft" => status'[p] = "active"
                                 /\ status'[p] = "draft" => status[p] = None]_vars

\* What a method has checked of the project is still true when its write commits,
\* as long as no transition or delete of that project was in flight with it: the
\* load, the check and the write then act as one step.
GuardHoldsAtCommit ==
  [][\A r \in Request :
       Commit(r) /\ op[r] # "create" /\ proj[r] \in Project \ raced
         => Guard(op[r], arg[r], proj[r])]_vars

Ledger == INSTANCE ProjectLedger WITH contended <- raced

\* Every method, for all its statements, its unlocked check and its late commit,
\* is one step of the ledger: on projects that no transition or delete has raced
\* for it finds what the code requires (of a site's project that it is not closed,
\* not the "draft or active" of ADR-010), and elsewhere it still writes only its
\* own rows.
ImplementsLedger == Ledger!Spec

\* ADR-010: "closed is a terminal state with no exit".
ClosedIsTerminal ==
  [][\A p \in Project : status[p] = "closed" => status'[p] = "closed"]_vars

=============================================================================
