----------------------------- MODULE Invitations ----------------------------
(***************************************************************************)
(* Inviting people into an organization: InvitationService,                *)
(* InvitationRepository, the table invitations and the rows of users that  *)
(* accepting an invitation creates.                                        *)
(*                                                                         *)
(* A request runs SQL statements in one READ COMMITTED transaction; every  *)
(* awaited statement is a step and sees committed rows only.  INSERT INTO  *)
(* users waits for a transaction that has inserted the same email and then *)
(* fails if that one has committed.  The handler's answer is sent before   *)
(* get_db commits ("responded"), and any transaction may abort.            *)
(***************************************************************************)

CONSTANTS Org,      \* organizations
          Email,    \* lower-cased addresses, unique in the whole platform
          Invite,   \* ids (and tokens) that invitations may get
          Request,  \* concurrent HTTP requests
          None      \* SQL NULL, and "not set yet" in a local variable

ASSUME InvitationsAssumption == None \notin Org \union Email \union Invite

VARIABLES
  invites,   \* committed rows of invitations
  org,       \* org[i]: organization_id of an invitation that has been drawn
  email,     \* email[i]: its address
  accepted,  \* invitations whose committed row has accepted_at
  expired,   \* invitations whose expires_at lies in the past
  member,    \* member[e]: organization_id of the users row with email e
  gone,      \* emails whose users row is soft-deleted
  crossed,   \* history: <<o, e>> for which two invites have been in flight at once
  pc,        \* next statement of a request
  inv,       \* its invitation: the one it inserts, accepts or revokes
  addr,      \* the address an invite is for
  team,      \* the organization an invite or a revoke is for
  joins      \* the email of the users row its transaction has inserted

rows == <<invites, org, email, accepted, expired, member, gone, crossed>>
locals == <<inv, addr, team, joins>>
vars == <<rows, pc, locals>>

Steps == {"idle", "check_pending", "insert_invite", "check_email", "insert_user",
          "mark_accepted", "raise", "invited", "joined", "revoked"}

-----------------------------------------------------------------------------
Init ==
  /\ invites = {} /\ accepted = {} /\ expired = {} /\ gone = {} /\ crossed = {}
  /\ org = [i \in Invite |-> None]
  /\ email = [i \in Invite |-> None]
  /\ member = [e \in Email |-> None]
  /\ pc = [r \in Request |-> "idle"]
  /\ inv = [r \in Request |-> None]
  /\ addr = [r \in Request |-> None]
  /\ team = [r \in Request |-> None]
  /\ joins = [r \in Request |-> None]

Goto(r, from, to) == pc[r] = from /\ pc' = [pc EXCEPT ![r] = to]

Release(r) ==
  /\ pc' = [pc EXCEPT ![r] = "idle"]
  /\ inv' = [inv EXCEPT ![r] = None]
  /\ addr' = [addr EXCEPT ![r] = None]
  /\ team' = [team EXCEPT ![r] = None]
  /\ joins' = [joins EXCEPT ![r] = None]

\* get_by_email, email_exists: soft-deleted accounts do not count.
Registered(e) == member[e] # None /\ e \notin gone

\* get_pending_by_email.
Pending(o, e) ==
  {i \in invites \ (accepted \union expired) : org[i] = o /\ email[i] = e}

\* No other transaction has updated or deleted the row of invitation i.
Unlocked(r, i) ==
  \A s \in Request \ {r} : ~(inv[s] = i /\ pc[s] \in {"joined", "revoked"})

-----------------------------------------------------------------------------
(* POST /invitations *)

\* Another invite for address e into organization o is under way.
Crosses(r, o, e) ==
  \E s \in Request \ {r} :
    /\ pc[s] \in {"check_pending", "insert_invite", "invited"}
    /\ team[s] = o /\ addr[s] = e

\* The invitee is not a member of this organization (409 otherwise).
StartInvite(r, o, e) ==
  /\ Goto(r, "idle", "check_pending")
  /\ ~(Registered(e) /\ member[e] = o)
  /\ team' = [team EXCEPT ![r] = o]
  /\ addr' = [addr EXCEPT ![r] = e]
  /\ crossed' = IF Crosses(r, o, e) THEN crossed \union {<<o, e>>} ELSE crossed
  /\ UNCHANGED <<invites, org, email, accepted, expired, member, gone, inv, joins>>

\* Mutation: the query looks for a pending invitation that has expired.
CheckPendingExpired(r) ==
  /\ Goto(r, "check_pending",
          IF \A i \in invites \ accepted :
               i \in expired => ~(org[i] = team[r] /\ email[i] = addr[r])
          THEN "insert_invite" ELSE "raise")
  /\ UNCHANGED <<rows, locals>>

\* One pending invitation is a 409; scalar_one_or_none raises on two.
CheckPending(r) ==
  /\ Goto(r, "check_pending",
          IF Pending(team[r], addr[r]) = {} THEN "insert_invite" ELSE "raise")
  /\ UNCHANGED <<rows, locals>>

InsertInvite(r) ==
  /\ Goto(r, "insert_invite", "invited")
  /\ \E i \in Invite :
       /\ org[i] = None
       /\ org' = [org EXCEPT ![i] = team[r]]
       /\ email' = [email EXCEPT ![i] = addr[r]]
       /\ inv' = [inv EXCEPT ![r] = i]
  /\ UNCHANGED <<invites, accepted, expired, member, gone, crossed, addr, team, joins>>

-----------------------------------------------------------------------------
(* POST /invitations/accept *)

\* The token is there, not accepted and not expired (401 otherwise).
FindInvite(r, i) ==
  /\ Goto(r, "idle", "check_email")
  /\ i \in invites \ (accepted \union expired)
  /\ inv' = [inv EXCEPT ![r] = i]
  /\ UNCHANGED <<rows, addr, team, joins>>

CheckEmail(r) ==
  /\ Goto(r, "check_email",
          IF Registered(email[inv[r]]) THEN "raise" ELSE "insert_user")
  /\ UNCHANGED <<rows, locals>>

\* Mutation: a partial unique index, WHERE NOT is_deleted.
InsertUserPartialIndex(r) ==
  /\ Goto(r, "insert_user",
          IF Registered(email[inv[r]]) THEN "raise" ELSE "mark_accepted")
  /\ \A s \in Request : joins[s] # email[inv[r]]
  /\ joins' = [joins EXCEPT
       ![r] = IF Registered(email[inv[r]]) THEN None ELSE email[inv[r]]]
  /\ UNCHANGED <<rows, inv, addr, team>>

\* The unique index on users.email also holds soft-deleted accounts.
InsertUser(r) ==
  /\ Goto(r, "insert_user",
          IF member[email[inv[r]]] = None THEN "mark_accepted" ELSE "raise")
  /\ \A s \in Request : joins[s] # email[inv[r]]
  /\ joins' = [joins EXCEPT
       ![r] = IF member[email[inv[r]]] = None THEN email[inv[r]] ELSE None]
  /\ UNCHANGED <<rows, inv, addr, team>>

\* Mutation: a plain UPDATE whose row count nobody looks at.
MarkAcceptedUnchecked(r) ==
  /\ Goto(r, "mark_accepted", "joined")
  /\ Unlocked(r, inv[r])
  /\ UNCHANGED <<rows, locals>>

\* The ORM's UPDATE by primary key; an update that matches no row, because the
\* invitation has been revoked, raises StaleDataError.
MarkAccepted(r) ==
  /\ Goto(r, "mark_accepted", IF inv[r] \in invites THEN "joined" ELSE "raise")
  /\ Unlocked(r, inv[r])
  /\ UNCHANGED <<rows, locals>>

-----------------------------------------------------------------------------
(* DELETE /invitations/{id} *)

\* Mutation: an accepted invitation can be revoked.
RevokeAccepted(r, o, i) ==
  /\ Goto(r, "idle", "revoked")
  /\ Unlocked(r, i)
  /\ i \in invites /\ org[i] = o
  /\ inv' = [inv EXCEPT ![r] = i]
  /\ team' = [team EXCEPT ![r] = o]
  /\ UNCHANGED <<rows, addr, joins>>

\* Only a row of this organization that is not accepted (404 otherwise); the
\* DELETE waits for a lock and then looks at accepted_at again.
Revoke(r, o, i) ==
  /\ Goto(r, "idle", "revoked")
  /\ Unlocked(r, i)
  /\ i \in invites \ accepted /\ org[i] = o
  /\ inv' = [inv EXCEPT ![r] = i]
  /\ team' = [team EXCEPT ![r] = o]
  /\ UNCHANGED <<rows, addr, joins>>

-----------------------------------------------------------------------------
(* The end of a transaction, and what happens elsewhere *)

\* Mutation: the acceptance is recorded under the address, not the invitation.
CommitWrongKey(r) ==
  /\ \/ /\ pc[r] = "invited"
        /\ invites' = invites \union {inv[r]}
        /\ UNCHANGED <<accepted, member>>
     \/ /\ pc[r] = "joined"
        /\ accepted' = accepted \union {joins[r]}
        /\ member' = [member EXCEPT ![joins[r]] = org[inv[r]]]
        /\ UNCHANGED invites
     \/ /\ pc[r] = "revoked"
        /\ invites' = invites \ {inv[r]}
        /\ UNCHANGED <<accepted, member>>
  /\ Release(r)
  /\ UNCHANGED <<org, email, expired, gone, crossed>>

Commit(r) ==
  /\ \/ /\ pc[r] = "invited"
        /\ invites' = invites \union {inv[r]}
        /\ UNCHANGED <<accepted, member>>
     \/ /\ pc[r] = "joined"
        /\ accepted' = accepted \union {inv[r]}
        /\ member' = [member EXCEPT ![joins[r]] = org[inv[r]]]
        /\ UNCHANGED invites
     \/ /\ pc[r] = "revoked"
        /\ invites' = invites \ {inv[r]}
        /\ UNCHANGED <<accepted, member>>
  /\ Release(r)
  /\ UNCHANGED <<org, email, expired, gone, crossed>>

\* An exception, a lost connection or a crash rolls the transaction back.
Abort(r) ==
  /\ pc[r] # "idle"
  /\ Release(r)
  /\ UNCHANGED rows

\* Mutation: the account is deleted for good.
HardDelete(e) ==
  /\ Registered(e)
  /\ member' = [member EXCEPT ![e] = None]
  /\ UNCHANGED <<invites, org, email, accepted, expired, gone, crossed, pc, locals>>

\* deactivate_user soft-deletes the account; its email stays in the index.
SoftDelete(e) ==
  /\ Registered(e)
  /\ gone' = gone \union {e}
  /\ UNCHANGED <<invites, org, email, accepted, expired, member, crossed, pc, locals>>

Expire(i) ==
  /\ i \in invites \ expired
  /\ expired' = expired \union {i}
  /\ UNCHANGED <<invites, org, email, accepted, member, gone, crossed, pc, locals>>

-----------------------------------------------------------------------------
RequestStep(r) ==
  \/ \E o \in Org, e \in Email : StartInvite(r, o, e)
  \/ \E i \in Invite : FindInvite(r, i) \/ \E o \in Org : Revoke(r, o, i)
  \/ CheckPending(r) \/ InsertInvite(r)
  \/ CheckEmail(r) \/ InsertUser(r) \/ MarkAccepted(r)
  \/ Commit(r) \/ Abort(r)

Next ==
  \/ \E r \in Request : RequestStep(r)
  \/ \E e \in Email : SoftDelete(e)
  \/ \E i \in Invite : Expire(i)

Spec == Init /\ [][Next]_vars

-----------------------------------------------------------------------------
(* Properties *)

TypeOK ==
  /\ invites \subseteq Invite /\ accepted \subseteq Invite
  /\ expired \subseteq Invite /\ gone \subseteq Email /\ crossed \subseteq Org \X Email
  /\ org \in [Invite -> Org \union {None}]
  /\ email \in [Invite -> Email \union {None}]
  /\ member \in [Email -> Org \union {None}]
  /\ pc \in [Request -> Steps]
  /\ inv \in [Request -> Invite \union {None}]
  /\ addr \in [Request -> Email \union {None}]
  /\ team \in [Request -> Org \union {None}]
  /\ joins \in [Request -> Email \union {None}]

\* ADR-007: the two writes of accept are atomic.  An invitation is marked as
\* accepted only together with an account in the organization that sent it,
\* and the account's row outlives a deactivation.
AcceptedHasMember ==
  \A i \in accepted : member[email[i]] = org[i]

\* Nobody becomes a member without an accepted invitation that stays on record:
\* an accept that a revoke overtakes rolls its users row back, and a revoke
\* that an accept overtakes deletes nothing.
MemberWasInvited ==
  \A e \in Email : member[e] # None =>
    \E i \in accepted \intersect invites : email[i] = e /\ org[i] = member[e]

\* However many invitations one address holds, in however many organizations,
\* one of them at most is ever accepted.
AcceptedOncePerEmail ==
  \A i, j \in accepted : email[i] = email[j] => i = j

\* The check for a pending invitation is enough as long as no two invites of one
\* address into one organization are in flight together, however acceptances,
\* revocations, expiries and rollbacks meet them.
OnePendingUnlessCrossed ==
  \A o \in Org, e \in Email : <<o, e>> \notin crossed =>
    \A i, j \in Pending(o, e) : i = j

\* invitation_service.py: "Block if a pending invitation already exists".
OnePendingInvitation ==
  \A o \in Org, e \in Email : \A i, j \in Pending(o, e) : i = j

=============================================================================
