---------------------------- MODULE Organizations ---------------------------
(***************************************************************************)
(* Registering an organization with its first admin, and changing its own  *)
(* data: OrganizationService, OrganizationRepository, the unique columns   *)
(* of models/organization.py and the users rows that registering inserts.  *)
(*                                                                         *)
(* A call runs SQL statements in one READ COMMITTED transaction; every     *)
(* awaited statement is a step and sees committed rows only.  A statement  *)
(* that needs what another transaction holds (a row, or the place of a     *)
(* value in a unique index) waits for that one to end and then looks       *)
(* again.  get_db commits after the answer, rolls back on an exception,    *)
(* and any transaction may abort.                                          *)
(*                                                                         *)
(* The table users is shared: module Accounts composes these actions with  *)
(* those of Invitations and states what the two promise together.          *)
(***************************************************************************)
CONSTANTS Org,     \* ids of organizations rows
          Slug,    \* lower-cased slugs
          Gstin,   \* GST identification numbers
          Email,   \* lower-cased addresses, unique in the whole platform
          Caller,  \* concurrent HTTP requests
          None     \* SQL NULL, and "not set" in a local variable

VARIABLES
  slug,     \* slug[o]: slug of a committed organization, None if there is no row
  gstin,    \* gstin[o]: its GSTIN, or None
  founder,  \* history: founder[o] is the address of the admin it was registered with
  member,   \* member[e]: organization_id of the users row with email e
  gone,     \* emails whose users row is soft-deleted
  step,     \* next statement of a call
  organ,    \* the organization it inserts or updates
  wanted,   \* the slug it registers
  mail,     \* the address it registers
  gst       \* the GSTIN it writes, None for an update of other columns

ours == <<slug, gstin, founder>>
shared == <<member, gone>>
locals == <<organ, wanted, mail, gst>>
vars == <<ours, shared, step, locals>>

Steps == {"idle", "check_email", "insert_org", "insert_user", "registered",
          "lock_row", "take_gstin", "updated", "raise"}

-----------------------------------------------------------------------------
Init ==
  /\ slug = [o \in Org |-> None]
  /\ gstin = [o \in Org |-> None]
  /\ founder = [o \in Org |-> None]
  /\ member = [e \in Email |-> None]
  /\ gone = {}
  /\ step = [c \in Caller |-> "idle"]
  /\ organ = [c \in Caller |-> None]
  /\ wanted = [c \in Caller |-> None]
  /\ mail = [c \in Caller |-> None]
  /\ gst = [c \in Caller |-> None]

Goto(c, from, to) == step[c] = from /\ step' = [step EXCEPT ![c] = to]

Release(c) ==
  /\ step' = [step EXCEPT ![c] = "idle"]
  /\ organ' = [organ EXCEPT ![c] = None]
  /\ wanted' = [wanted EXCEPT ![c] = None]
  /\ mail' = [mail EXCEPT ![c] = None]
  /\ gst' = [gst EXCEPT ![c] = None]

\* slug_exists, and the unique index on organizations.slug.
SlugTaken(s) == \E o \in Org : slug[o] = s

\* email_exists: soft-deleted accounts do not count.
Registered(e) == member[e] # None /\ e \notin gone

\* An id that no organization has or is being inserted with.
Fresh(o) ==
  /\ slug[o] = None
  /\ \A d \in Caller : ~(step[d] \in {"insert_user", "registered"} /\ organ[d] = o)

\* Mutation: loading the organization already locks its row, FOR SHARE.
HoldsRowSinceLoad(d) == step[d] \in {"lock_row", "take_gstin", "updated"}

\* d has updated its organization's row and holds it until it ends.
HoldsRow(d) == step[d] \in {"take_gstin", "updated"}

\* The calls whose end the next statement of c has to wait for: who inserts the
\* same slug or address, holds the row, has written the same GSTIN or holds the
\* row of the organization that has it.
Blockers(c) ==
  {d \in Caller \ {c} :
     \/ step[c] = "insert_org" /\ step[d] \in {"insert_user", "registered"}
          /\ wanted[d] = wanted[c]
     \/ step[c] = "insert_user" /\ step[d] = "registered" /\ mail[d] = mail[c]
     \/ step[c] = "lock_row" /\ HoldsRow(d) /\ organ[d] = organ[c]
     \/ step[c] = "take_gstin" /\ \/ step[d] = "updated" /\ gst[d] = gst[c]
                                  \/ HoldsRow(d) /\ gstin[organ[d]] = gst[c]}

-----------------------------------------------------------------------------
(* POST /organizations *)

StartRegister(c, s, e) ==
  /\ Goto(c, "idle", "check_email")
  /\ ~SlugTaken(s)
  /\ wanted' = [wanted EXCEPT ![c] = s]
  /\ mail' = [mail EXCEPT ![c] = e]
  /\ UNCHANGED <<ours, shared, organ, gst>>

CheckEmail(c) ==
  /\ Goto(c, "check_email", IF Registered(mail[c]) THEN "raise" ELSE "insert_org")
  /\ UNCHANGED <<ours, shared, locals>>

\* The slug may have been taken since it was looked up: an IntegrityError.
InsertOrg(c) ==
  /\ Blockers(c) = {}
  /\ \/ /\ SlugTaken(wanted[c])
        /\ Goto(c, "insert_org", "raise")
        /\ UNCHANGED organ
     \/ /\ ~SlugTaken(wanted[c])
        /\ Goto(c, "insert_org", "insert_user")
        /\ \E o \in Org : /\ Fresh(o)
                          /\ organ' = [organ EXCEPT ![c] = o]
  /\ UNCHANGED <<ours, shared, wanted, mail, gst>>

\* Mutation: a partial unique index, WHERE NOT is_deleted.
InsertUserPartialIndex(c) ==
  /\ Blockers(c) = {}
  /\ Goto(c, "insert_user", IF Registered(mail[c]) THEN "raise" ELSE "registered")
  /\ UNCHANGED <<ours, shared, locals>>

\* The admin's row, and after it a refresh token that nothing waits for.  The
\* unique index on users.email also holds soft-deleted accounts.
InsertUser(c) ==
  /\ Blockers(c) = {}
  /\ Goto(c, "insert_user", IF member[mail[c]] = None THEN "registered" ELSE "raise")
  /\ UNCHANGED <<ours, shared, locals>>

-----------------------------------------------------------------------------
(* PATCH /organizations/me *)

\* g is None if the body has no GSTIN (exclude_none).  The ORM's UPDATE writes
\* the columns whose value differs from the one loaded.
StartUpdate(c, o, g) ==
  /\ Goto(c, "idle", "lock_row")
  /\ slug[o] # None
  /\ organ' = [organ EXCEPT ![c] = o]
  /\ gst' = [gst EXCEPT ![c] = IF g = gstin[o] THEN None ELSE g]
  /\ UNCHANGED <<ours, shared, wanted, mail>>

LockRow(c) ==
  /\ Blockers(c) = {}
  /\ Goto(c, "lock_row", IF gst[c] = None THEN "updated" ELSE "take_gstin")
  /\ UNCHANGED <<ours, shared, locals>>

\* Mutation: the column gstin is not unique.
TakeGstinUnindexed(c) ==
  /\ Blockers(c) = {}
  /\ Goto(c, "take_gstin", "updated")
  /\ UNCHANGED <<ours, shared, locals>>

\* Still the same UPDATE: the new GSTIN enters its unique index.  A GSTIN that
\* another organization has is an IntegrityError.
TakeGstin(c) ==
  /\ Blockers(c) = {}
  /\ Goto(c, "take_gstin",
          IF \E p \in Org \ {organ[c]} : gstin[p] = gst[c] THEN "raise" ELSE "updated")
  /\ UNCHANGED <<ours, shared, locals>>

-----------------------------------------------------------------------------
(* The end of a transaction *)

\* Mutation: the organization is committed before its admin.
CommitInTwo(c) ==
  /\ \/ /\ step[c] = "insert_user"
        /\ slug' = [slug EXCEPT ![organ[c]] = wanted[c]]
        /\ UNCHANGED <<gstin, founder, member, gone, step, locals>>
     \/ /\ step[c] = "registered"
        /\ slug' = [slug EXCEPT ![organ[c]] = wanted[c]]
        /\ founder' = [founder EXCEPT ![organ[c]] = mail[c]]
        /\ member' = [member EXCEPT ![mail[c]] = organ[c]]
        /\ Release(c)
        /\ UNCHANGED <<gstin, gone>>
     \/ /\ step[c] = "updated"
        /\ gstin' = [gstin EXCEPT ![organ[c]] = IF gst[c] = None THEN @ ELSE gst[c]]
        /\ Release(c)
        /\ UNCHANGED <<slug, founder, shared>>

\* Mutation: the admin's row refers to the slug of its organization.
CommitSlugAsTenant(c) ==
  /\ \/ /\ step[c] = "registered"
        /\ slug' = [slug EXCEPT ![organ[c]] = wanted[c]]
        /\ founder' = [founder EXCEPT ![organ[c]] = mail[c]]
        /\ member' = [member EXCEPT ![mail[c]] = wanted[c]]
        /\ UNCHANGED <<gstin, gone>>
     \/ /\ step[c] = "updated"
        /\ gstin' = [gstin EXCEPT ![organ[c]] = IF gst[c] = None THEN @ ELSE gst[c]]
        /\ UNCHANGED <<slug, founder, shared>>
  /\ Release(c)

\* Mutation: model_dump without exclude_none, so a body without GSTIN clears it.
CommitClearsGstin(c) ==
  /\ \/ /\ step[c] = "registered"
        /\ slug' = [slug EXCEPT ![organ[c]] = wanted[c]]
        /\ founder' = [founder EXCEPT ![organ[c]] = mail[c]]
        /\ member' = [member EXCEPT ![mail[c]] = organ[c]]
        /\ UNCHANGED <<gstin, gone>>
     \/ /\ step[c] = "updated"
        /\ gstin' = [gstin EXCEPT ![organ[c]] = gst[c]]
        /\ UNCHANGED <<slug, founder, shared>>
  /\ Release(c)

Commit(c) ==
  /\ \/ /\ step[c] = "registered"
        /\ slug' = [slug EXCEPT ![organ[c]] = wanted[c]]
        /\ founder' = [founder EXCEPT ![organ[c]] = mail[c]]
        /\ member' = [member EXCEPT ![mail[c]] = organ[c]]
        /\ UNCHANGED <<gstin, gone>>
     \/ /\ step[c] = "updated"
        /\ gstin' = [gstin EXCEPT ![organ[c]] = IF gst[c] = None THEN @ ELSE gst[c]]
        /\ UNCHANGED <<slug, founder, shared>>
  /\ Release(c)

\* The except branch of get_db, after a raise, an IntegrityError or the server's
\* choice of a deadlock's victim; or a lost connection or a crash.
Abort(c) ==
  /\ step[c] # "idle"
  /\ Release(c)
  /\ UNCHANGED <<ours, shared>>

=============================================================================
