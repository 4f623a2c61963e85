------------------------------ MODULE Accounts ------------------------------
(***************************************************************************)
(* Where accounts come from: registration (Organizations) and invitations  *)
(* (Invitations) insert rows into the one table users and meet in its      *)
(* unique index on email, and what an invitation inserts refers to an      *)
(* organization that may be under update.  The steps are those of the two  *)
(* modules; what is added here is for whom a statement of the one waits    *)
(* because of the other, and the properties of the whole.                  *)
(***************************************************************************)
CONSTANTS Org, Slug, Gstin, Email,
          Caller,   \* calls of OrganizationService
          Invite,
          Request,  \* calls of InvitationService
          None

ASSUME AccountsAssumption ==
  /\ None \notin Org \union Slug \union Gstin \union Email \union Invite
  /\ Caller \intersect Request = {}

VARIABLES slug, gstin, founder, step, organ, wanted, mail, gst,
          invites, org, email, accepted, expired, crossed, pc, inv, addr, team,
          joins, member, gone

organizationVars == <<slug, gstin, founder, step, organ, wanted, mail, gst>>
invitationVars ==
  <<invites, org, email, accepted, expired, crossed, pc, inv, addr, team, joins>>
vars == <<organizationVars, invitationVars, member, gone>>

O == INSTANCE Organizations
I == INSTANCE Invitations

Init == O!Init /\ I!Init

-----------------------------------------------------------------------------
(* Waiting for the other service *)

\* The call's UPDATE changes the GSTIN.  A foreign key could refer to a column
\* with a unique index, so PostgreSQL locks the row FOR UPDATE then, which is the
\* mode that conflicts with the check of a foreign key.
ChangesKey(c) == gst[c] \notin {None, gstin[organ[c]]}

\* The request has inserted a row that refers to organization o.
RefersTo(r, o) == (pc[r] = "invited" \/ joins[r] # None) /\ org[inv[r]] = o

\* The requests that a call's statement has to wait for: who inserts the same
\* address, or refers to the organization whose GSTIN is to change.
BlockingRequests(c) ==
  {r \in Request :
     \/ step[c] = "insert_user" /\ joins[r] = mail[c]
     \/ step[c] = "lock_row" /\ ChangesKey(c) /\ RefersTo(r, organ[c])}

\* The calls that a request's INSERT has to wait for: who inserts the same
\* address, or is changing the GSTIN of the organization it refers to.
BlockingCalls(r) ==
  {c \in Caller :
     \/ pc[r] = "insert_user" /\ step[c] = "registered" /\ mail[c] = email[inv[r]]
     \/ /\ O!HoldsRow(c) /\ ChangesKey(c)
        /\ \/ pc[r] = "insert_user" /\ organ[c] = org[inv[r]]
           \/ pc[r] = "insert_invite" /\ organ[c] = team[r]}

-----------------------------------------------------------------------------
Call(c) ==
  \/ \E s \in Slug, e \in Email : O!StartRegister(c, s, e)
  \/ \E o \in Org, g \in Gstin \union {None} : O!StartUpdate(c, o, g)
  \/ O!CheckEmail(c) \/ O!InsertOrg(c)
  \/ (O!InsertUser(c) \/ O!LockRow(c)) /\ BlockingRequests(c) = {}
  \/ O!TakeGstin(c) \/ O!Commit(c) \/ O!Abort(c)

\* Only the admin of an organization that is registered can invite to it.
Serve(r) ==
  \/ \E o \in Org, e \in Email : slug[o] # None /\ I!StartInvite(r, o, e)
  \/ \E i \in Invite : I!FindInvite(r, i) \/ \E o \in Org : I!Revoke(r, o, i)
  \/ I!CheckPending(r) \/ I!CheckEmail(r)
  \/ (I!InsertInvite(r) \/ I!InsertUser(r)) /\ BlockingCalls(r) = {}
  \/ I!MarkAccepted(r) \/ I!Commit(r) \/ I!Abort(r)

Elsewhere ==
  \/ \E e \in Email : I!SoftDelete(e)
  \/ \E i \in Invite : I!Expire(i)

Next ==
  \/ \E c \in Caller : Call(c) /\ UNCHANGED invitationVars
  \/ \E r \in Request : Serve(r) /\ UNCHANGED organizationVars
  \/ Elsewhere /\ UNCHANGED organizationVars

Spec == Init /\ [][Next]_vars

-----------------------------------------------------------------------------
(* Properties *)

TypeOK ==
  /\ slug \in [Org -> Slug \union {None}]
  /\ gstin \in [Org -> Gstin \union {None}]
  /\ founder \in [Org -> Email \union {None}]
  /\ step \in [Caller -> O!Steps]
  /\ organ \in [Caller -> Org \union {None}]
  /\ wanted \in [Caller -> Slug \union {None}]
  /\ mail \in [Caller -> Email \union {None}]
  /\ gst \in [Caller -> Gstin \union {None}]
  /\ I!TypeOK

\* No two organizations share a slug or a GSTIN, whatever was committed between
\* slug_exists and the INSERT, and while GSTINs move from one to another.
OrganizationsDistinct ==
  \A o, p \in Org : o # p =>
    /\ slug[o] # None => slug[o] # slug[p]
    /\ gstin[o] # None => gstin[o] # gstin[p]

\* organization_service.py:4, "org + first admin in one transaction": whoever can
\* see an organization finds the account it was registered with in it, however
\* that address was invited elsewhere or deactivated meanwhile.
OrganizationHasFounder ==
  \A o \in Org : slug[o] # None => founder[o] # None /\ member[founder[o]] = o

\* Every account is an organization's first admin, or it has accepted an
\* invitation of its organization that is still on record; a registration and an
\* acceptance that race for one address never both win.
MembersAccountedFor ==
  \A e \in Email : member[e] # None =>
    \/ founder[member[e]] = e
    \/ \E i \in accepted \intersect invites : email[i] = e /\ org[i] = member[e]

\* An account never moves to another organization: its address, once in the
\* index, is refused to every later registration and acceptance, also after the
\* account is deactivated, when email_exists finds it free.
AccountStays ==
  [][\A e \in Email : member[e] # None => member'[e] = member[e]]_vars

\* All that x waits for.
WaitsFor(x) ==
  IF x \in Caller THEN O!Blockers(x) \union BlockingRequests(x)
  ELSE BlockingCalls(x) \union
       {s \in Request \ {x} :
          \/ pc[x] = "insert_user" /\ joins[s] = email[inv[x]]
          \/ pc[x] = "mark_accepted" /\ ~I!Unlocked(x, inv[x])
               /\ inv[s] = inv[x] /\ pc[s] \in {"joined", "revoked"}}

\* Only organizations that take over one another's GSTINs can deadlock:
\* registrations, acceptances and revocations wait for each other, but never in
\* a circle.
OnlyGstinSwapsDeadlock ==
  \A S \in SUBSET (Caller \union Request) :
    /\ S # {}
    /\ \A x \in S : WaitsFor(x) \intersect S # {}
    /\ \A y \in S : \E x \in S : y \in WaitsFor(x)
    => \A x \in S : x \in Caller /\ step[x] = "take_gstin"

\* What the transactions see of an invitation that is not on record is nothing.
Ledger == INSTANCE AccountLedger WITH
  sender <- [i \in Invite |-> IF i \in invites THEN org[i] ELSE None],
  addressee <- [i \in Invite |-> IF i \in invites THEN email[i] ELSE None]

\* Each call and each request, for all its statements, its checks that others
\* overtake and its waits for the other service, is one step of the ledger: what
\* it commits is still allowed when it commits.
ImplementsLedger == Ledger!Spec

=============================================================================
