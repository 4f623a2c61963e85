---------------------------- MODULE AccountsProofs --------------------------
(***************************************************************************)
(* Registration and invitations share the table users, and still every     *)
(* organization has its founder and every account its reason, for all sets *)
(* of organizations, addresses, calls and requests.  The invariants of the *)
(* invitation side are those of InvitationsProofs, without MemberWasInvited*)
(* which registration breaks.                                              *)
(***************************************************************************)
EXTENDS Accounts, TLAPS

IP == INSTANCE InvitationsProofs

Registering == {"check_email", "insert_org", "insert_user", "registered"}
Drafting == {"insert_user", "registered"}
Updating == {"lock_row", "take_gstin", "updated"}

\* What a call has in its hands at each statement.
CallInv ==
  \A c \in Caller :
    /\ step[c] \in Registering => wanted[c] \in Slug /\ mail[c] \in Email
    /\ step[c] \in Updating => organ[c] \in Org /\ slug[organ[c]] # None

\* A pending organization has an id and a slug that no row and no other pending
\* organization has.
DraftInv ==
  \A c \in Caller : step[c] \in Drafting =>
    /\ organ[c] \in Org /\ slug[organ[c]] = None
    /\ \A o \in Org : slug[o] # wanted[c]
    /\ \A d \in Caller \ {c} :
         step[d] \in Drafting => organ[d] # organ[c] /\ wanted[d] # wanted[c]

\* A pending admin's address is in no row and in no other pending row, whichever
\* of the two services inserts it.
MailInv ==
  \A c \in Caller : step[c] = "registered" =>
    /\ member[mail[c]] = None
    /\ \A d \in Caller \ {c} : step[d] = "registered" => mail[d] # mail[c]
    /\ \A r \in Request : joins[r] # mail[c]

\* Nobody else has updated the row that a call has updated.
HoldInv ==
  \A c, d \in Caller : c # d /\ O!HoldsRow(c) /\ O!HoldsRow(d) => organ[c] # organ[d]

\* A GSTIN that has been written is in no other organization's row and in no
\* other pending update.
GstinInv ==
  \A c \in Caller : step[c] = "updated" /\ gst[c] # None =>
    /\ \A p \in Org \ {organ[c]} : gstin[p] # gst[c]
    /\ \A d \in Caller \ {c} : step[d] = "updated" => gst[d] # gst[c]

\* Accounts and invitations belong to organizations that have a row.
TenantInv ==
  /\ \A e \in Email : member[e] # None => slug[member[e]] # None
  /\ \A i \in Invite : org[i] # None => slug[org[i]] # None
  /\ \A r \in Request : pc[r] \in {"check_pending", "insert_invite"} =>
       slug[team[r]] # None

AInv == /\ TypeOK /\ TenantInv /\ CallInv /\ DraftInv /\ MailInv /\ HoldInv /\ GstinInv
        /\ IP!RowInv /\ IP!FlightInv /\ IP!JoinInv /\ IP!LockInv
        /\ OrganizationsDistinct /\ OrganizationHasFounder /\ MembersAccountedFor
        /\ I!AcceptedHasMember /\ I!AcceptedOncePerEmail

-----------------------------------------------------------------------------
\* There is no organization, no account and no request yet.
LEMMA AInvInit == Init => AInv
BY AccountsAssumption
DEF Init, O!Init, I!Init, AInv, TypeOK, I!TypeOK, O!Steps, I!Steps, CallInv, DraftInv,
    MailInv, HoldInv, GstinInv, TenantInv, IP!RowInv, IP!FlightInv, IP!JoinInv, IP!LockInv,
    IP!Locking, Registering, Drafting, Updating, O!HoldsRow, OrganizationsDistinct,
    OrganizationHasFounder, MembersAccountedFor, I!AcceptedHasMember, I!AcceptedOncePerEmail

\* A row of organizations is never deleted, so what belongs to one keeps it, and
\* the new member of an organization finds its row.
LEMMA TenantGrows ==
  ASSUME TenantInv,
         member \in [Email -> Org \union {None}], org \in [Invite -> Org \union {None}],
         IP!FlightInv,
         UNCHANGED <<org, pc, team>>,
         \A o \in Org : slug[o] # None => slug'[o] # None,
         \A e \in Email : member'[e] # None =>
                          member'[e] = member[e] \/ slug'[member'[e]] # None
  PROVE  TenantInv'
<1>1. \A e \in Email : member'[e] # None => slug'[member'[e]] # None
  BY AccountsAssumption DEF TenantInv
<1>2. \A i \in Invite : org[i] # None => slug'[org[i]] # None
  BY AccountsAssumption DEF TenantInv
<1>3. \A r \in Request : pc[r] \in {"check_pending", "insert_invite"} =>
        slug'[team[r]] # None
  BY AccountsAssumption DEF TenantInv, IP!FlightInv
<1> QED
  BY <1>1, <1>2, <1>3 DEF TenantInv

\* A statement of OrganizationService, its commit and its rollback.
LEMMA CallStep ==
  ASSUME AInv, NEW c \in Caller, Call(c), UNCHANGED invitationVars
  PROVE  AInv'
<1> USE AccountsAssumption
    DEF AInv, TypeOK, I!TypeOK, O!Steps, I!Steps, Registering, Drafting, Updating,
        O!HoldsRow, IP!Locking, organizationVars, invitationVars
<1>u. UNCHANGED <<invites, org, email, accepted, pc, inv, addr, team, joins>>
  BY DEF invitationVars
<1>1. ASSUME NEW s \in Slug, NEW e \in Email, O!StartRegister(c, s, e)
      PROVE  AInv'
  <2> USE <1>1 DEF O!StartRegister, O!Goto, O!ours, O!shared
  <2>1. TypeOK'
    OBVIOUS
  <2>2. TenantInv'
    BY DEF TenantInv
  <2>3. CallInv'
    BY DEF CallInv
  <2>4. DraftInv'
    BY DEF DraftInv
  <2>5. MailInv'
    BY DEF MailInv
  <2>6. HoldInv' /\ GstinInv'
    BY DEF HoldInv, GstinInv
  <2>7. IP!RowInv' /\ IP!FlightInv' /\ IP!LockInv'
    BY DEF IP!RowInv, IP!FlightInv, IP!LockInv
  <2>8. IP!JoinInv'
    BY DEF IP!JoinInv
  <2>9. OrganizationsDistinct' /\ I!AcceptedHasMember' /\ I!AcceptedOncePerEmail'
    BY DEF OrganizationsDistinct, I!AcceptedHasMember, I!AcceptedOncePerEmail
  <2>10. OrganizationHasFounder' /\ MembersAccountedFor'
    BY DEF OrganizationHasFounder, MembersAccountedFor
  <2> QED BY <2>1, <2>2, <2>3, <2>4, <2>5, <2>6, <2>7, <2>8, <2>9, <2>10
<1>2. ASSUME NEW o \in Org, NEW g \in Gstin \union {None}, O!StartUpdate(c, o, g)
      PROVE  AInv'
  <2> USE <1>2 DEF O!StartUpdate, O!Goto, O!ours, O!shared
  <2>1. TypeOK'
    OBVIOUS
  <2>2. TenantInv'
    BY DEF TenantInv
  <2>3. CallInv'
    BY DEF CallInv
  <2>4. DraftInv'
    BY DEF DraftInv
  <2>5. MailInv'
    BY DEF MailInv
  <2>6. HoldInv' /\ GstinInv'
    BY DEF HoldInv, GstinInv
  <2>7. IP!RowInv' /\ IP!FlightInv' /\ IP!LockInv'
    BY DEF IP!RowInv, IP!FlightInv, IP!LockInv
  <2>8. IP!JoinInv'
    BY DEF IP!JoinInv
  <2>9. OrganizationsDistinct' /\ I!AcceptedHasMember' /\ I!AcceptedOncePerEmail'
    BY DEF OrganizationsDistinct, I!AcceptedHasMember, I!AcceptedOncePerEmail
  <2>10. OrganizationHasFounder' /\ MembersAccountedFor'
    BY DEF OrganizationHasFounder, MembersAccountedFor
  <2> QED BY <2>1, <2>2, <2>3, <2>4, <2>5, <2>6, <2>7, <2>8, <2>9, <2>10
<1>3. ASSUME O!CheckEmail(c)
      PROVE  AInv'
  <2> USE <1>3 DEF O!CheckEmail, O!Goto, O!ours, O!shared, O!locals
  <2>1. TypeOK'
    OBVIOUS
  <2>2. TenantInv'
    BY DEF TenantInv
  <2>3. CallInv'
    BY DEF CallInv
  <2>4. DraftInv'
    BY DEF DraftInv
  <2>5. MailInv'
    BY DEF MailInv
  <2>6. HoldInv' /\ GstinInv'
    BY DEF HoldInv, GstinInv
  <2>7. IP!RowInv' /\ IP!FlightInv' /\ IP!LockInv'
    BY DEF IP!RowInv, IP!FlightInv, IP!LockInv
  <2>8. IP!JoinInv'
    BY DEF IP!JoinInv
  <2>9. OrganizationsDistinct' /\ I!AcceptedHasMember' /\ I!AcceptedOncePerEmail'
    BY DEF OrganizationsDistinct, I!AcceptedHasMember, I!AcceptedOncePerEmail
  <2>10. OrganizationHasFounder' /\ MembersAccountedFor'
    BY DEF OrganizationHasFounder, MembersAccountedFor
  <2> QED BY <2>1, <2>2, <2>3, <2>4, <2>5, <2>6, <2>7, <2>8, <2>9, <2>10
<1>4. ASSUME O!InsertOrg(c)
      PROVE  AInv'
  <2> USE <1>4 DEF O!InsertOrg, O!Goto, O!ours, O!shared
  <2>1. TypeOK'
    OBVIOUS
  <2>2. TenantInv'
    BY DEF TenantInv
  <2>3. CallInv'
    BY DEF CallInv
  <2>4. DraftInv'
    BY DEF DraftInv, O!Blockers, O!Fresh, O!SlugTaken
  <2>5. MailInv'
    BY DEF MailInv
  <2>6. HoldInv' /\ GstinInv'
    BY DEF HoldInv, GstinInv
  <2>7. IP!RowInv' /\ IP!FlightInv' /\ IP!LockInv'
    BY DEF IP!RowInv, IP!FlightInv, IP!LockInv
  <2>8. IP!JoinInv'
    BY DEF IP!JoinInv
  <2>9. OrganizationsDistinct' /\ I!AcceptedHasMember' /\ I!AcceptedOncePerEmail'
    BY DEF OrganizationsDistinct, I!AcceptedHasMember, I!AcceptedOncePerEmail
  <2>10. OrganizationHasFounder' /\ MembersAccountedFor'
    BY DEF OrganizationHasFounder, MembersAccountedFor
  <2> QED BY <2>1, <2>2, <2>3, <2>4, <2>5, <2>6, <2>7, <2>8, <2>9, <2>10
<1>5. ASSUME O!InsertUser(c), BlockingRequests(c) = {}
      PROVE  AInv'
  <2> USE <1>5 DEF O!InsertUser, O!Goto, O!ours, O!shared, O!locals
  <2>1. TypeOK'
    OBVIOUS
  <2>2. TenantInv'
    BY DEF TenantInv
  <2>3. CallInv'
    BY DEF CallInv
  <2>4. DraftInv'
    BY DEF DraftInv
  <2>5. MailInv'
    BY DEF MailInv, O!Blockers, BlockingRequests
  <2>6. HoldInv' /\ GstinInv'
    BY DEF HoldInv, GstinInv
  <2>7. IP!RowInv' /\ IP!FlightInv' /\ IP!LockInv'
    BY DEF IP!RowInv, IP!FlightInv, IP!LockInv
  <2>8. IP!JoinInv'
    BY DEF IP!JoinInv
  <2>9. OrganizationsDistinct' /\ I!AcceptedHasMember' /\ I!AcceptedOncePerEmail'
    BY DEF OrganizationsDistinct, I!AcceptedHasMember, I!AcceptedOncePerEmail
  <2>10. OrganizationHasFounder' /\ MembersAccountedFor'
    BY DEF OrganizationHasFounder, MembersAccountedFor
  <2> QED BY <2>1, <2>2, <2>3, <2>4, <2>5, <2>6, <2>7, <2>8, <2>9, <2>10
<1>6. ASSUME O!LockRow(c)
      PROVE  AInv'
  <2> USE <1>6 DEF O!LockRow, O!Goto, O!ours, O!shared, O!locals
  <2>1. TypeOK'
    OBVIOUS
  <2>2. TenantInv'
    BY DEF TenantInv
  <2>3. CallInv'
    BY DEF CallInv
  <2>4. DraftInv'
    BY DEF DraftInv
  <2>5. MailInv'
    BY DEF MailInv
  <2>6. HoldInv' /\ GstinInv'
    BY DEF HoldInv, GstinInv, O!Blockers
  <2>7. IP!RowInv' /\ IP!FlightInv' /\ IP!LockInv'
    BY DEF IP!RowInv, IP!FlightInv, IP!LockInv
  <2>8. IP!JoinInv'
    BY DEF IP!JoinInv
  <2>9. OrganizationsDistinct' /\ I!AcceptedHasMember' /\ I!AcceptedOncePerEmail'
    BY DEF OrganizationsDistinct, I!AcceptedHasMember, I!AcceptedOncePerEmail
  <2>10. OrganizationHasFounder' /\ MembersAccountedFor'
    BY DEF OrganizationHasFounder, MembersAccountedFor
  <2> QED BY <2>1, <2>2, <2>3, <2>4, <2>5, <2>6, <2>7, <2>8, <2>9, <2>10
<1>7. ASSUME O!TakeGstin(c)
      PROVE  AInv'
  <2> USE <1>7 DEF O!TakeGstin, O!Goto, O!ours, O!shared, O!locals
  <2>1. TypeOK'
    OBVIOUS
  <2>2. TenantInv'
    BY DEF TenantInv
  <2>3. CallInv'
    BY DEF CallInv
  <2>4. DraftInv'
    BY DEF DraftInv
  <2>5. MailInv'
    BY DEF MailInv
  <2>6. HoldInv' /\ GstinInv'
    BY DEF HoldInv, GstinInv, O!Blockers
  <2>7. IP!RowInv' /\ IP!FlightInv' /\ IP!LockInv'
    BY DEF IP!RowInv, IP!FlightInv, IP!LockInv
  <2>8. IP!JoinInv'
    BY DEF IP!JoinInv
  <2>9. OrganizationsDistinct' /\ I!AcceptedHasMember' /\ I!AcceptedOncePerEmail'
    BY DEF OrganizationsDistinct, I!AcceptedHasMember, I!AcceptedOncePerEmail
  <2>10. OrganizationHasFounder' /\ MembersAccountedFor'
    BY DEF OrganizationHasFounder, MembersAccountedFor
  <2> QED BY <2>1, <2>2, <2>3, <2>4, <2>5, <2>6, <2>7, <2>8, <2>9, <2>10
<1>8. ASSUME O!Commit(c)
      PROVE  AInv'
  <2> USE <1>8 DEF O!Commit, O!Release, O!shared
  <2>2. TypeOK' /\ TenantInv'
    <3>a. CASE step[c] = "registered"
      <4>1. /\ organ[c] \in Org /\ wanted[c] \in Slug /\ mail[c] \in Email
            /\ slug[organ[c]] = None
        BY <3>a DEF CallInv, DraftInv
      <4>2. /\ slug' = [slug EXCEPT ![organ[c]] = wanted[c]]
            /\ founder' = [founder EXCEPT ![organ[c]] = mail[c]]
            /\ member' = [member EXCEPT ![mail[c]] = organ[c]]
            /\ UNCHANGED <<gstin, gone>>
        BY <3>a
      <4>3. TypeOK'
        BY <4>1, <4>2
      <4>4. /\ \A o \in Org : slug[o] # None => slug'[o] # None
            /\ \A e \in Email : member'[e] # None =>
                               member'[e] = member[e] \/ slug'[member'[e]] # None
        BY <4>1, <4>2
      <4>5. TenantInv'
        BY <1>u, <4>4, TenantGrows
      <4> QED BY <4>3, <4>5
    <3>b. CASE step[c] = "updated"
      <4>1. organ[c] \in Org /\ UNCHANGED <<slug, founder, member, gone>>
        BY <3>b DEF CallInv
      <4>2. gstin' = [gstin EXCEPT ![organ[c]] = IF gst[c] = None THEN @ ELSE gst[c]]
        BY <3>b
      <4>3. TypeOK'
        BY <4>1, <4>2
      <4>4. TenantInv'
        BY <1>u, <4>1, TenantGrows
      <4> QED BY <4>3, <4>4
    <3> QED BY <3>a, <3>b
  <2>3. CallInv'
    BY DEF CallInv
  <2>4. DraftInv'
    BY DEF DraftInv
  <2>5. MailInv'
    BY DEF MailInv, CallInv
  <2>6. HoldInv' /\ GstinInv'
    BY DEF HoldInv, GstinInv
  <2>7. IP!RowInv' /\ IP!FlightInv' /\ IP!LockInv'
    BY DEF IP!RowInv, IP!FlightInv, IP!LockInv
  <2>8. IP!JoinInv'
    BY DEF IP!JoinInv, MailInv
  <2>9. OrganizationsDistinct'
    <3> DEFINE Slugs == \A o, p \in Org : o # p /\ slug[o] # None => slug[o] # slug[p]
               Gstins == \A o, p \in Org : o # p /\ gstin[o] # None => gstin[o] # gstin[p]
    <3>1. Slugs /\ Gstins
      BY DEF OrganizationsDistinct
    <3>2. CASE step[c] = "registered"
      <4>1. /\ organ[c] \in Org /\ wanted[c] \in Slug
            /\ \A o \in Org : slug[o] # wanted[c]
        BY <3>2 DEF DraftInv, CallInv
      <4>2. slug' = [slug EXCEPT ![organ[c]] = wanted[c]] /\ gstin' = gstin
        BY <3>2
      <4> QED BY ONLY <3>1, <4>1, <4>2, TypeOK DEF OrganizationsDistinct, TypeOK
    <3>3. CASE step[c] = "updated"
      <4>1. /\ organ[c] \in Org
            /\ gst[c] # None => \A p \in Org \ {organ[c]} : gstin[p] # gst[c]
        BY <3>3 DEF CallInv, GstinInv
      <4>2. /\ gstin' = [gstin EXCEPT ![organ[c]] = IF gst[c] = None THEN @ ELSE gst[c]]
            /\ slug' = slug
        BY <3>3
      <4> QED BY ONLY <3>1, <4>1, <4>2, TypeOK DEF OrganizationsDistinct, TypeOK
    <3> QED BY <3>2, <3>3
  <2>11. I!AcceptedHasMember' /\ I!AcceptedOncePerEmail'
    BY DEF I!AcceptedHasMember, I!AcceptedOncePerEmail, MailInv, IP!RowInv, CallInv
  <2>10. OrganizationHasFounder' /\ MembersAccountedFor'
    <3>1. CASE step[c] = "updated"
      BY <3>1 DEF OrganizationHasFounder, MembersAccountedFor
    <3>2. CASE step[c] = "registered"
      <4>1. /\ organ[c] \in Org /\ slug[organ[c]] = None /\ member[mail[c]] = None
            /\ mail[c] \in Email
        BY <3>2 DEF DraftInv, MailInv, CallInv
      <4>2. /\ slug' = [slug EXCEPT ![organ[c]] = wanted[c]]
            /\ founder' = [founder EXCEPT ![organ[c]] = mail[c]]
            /\ member' = [member EXCEPT ![mail[c]] = organ[c]]
            /\ UNCHANGED <<accepted, invites, email, org>>
        BY <3>2
      <4>3. \A e \in Email : member[e] # None => founder[member[e]] = e
              \/ \E i \in accepted \intersect invites : email[i] = e /\ org[i] = member[e]
        BY DEF MembersAccountedFor
      <4>4. OrganizationHasFounder'
        BY <4>1, <4>2 DEF OrganizationHasFounder
      <4>5. MembersAccountedFor'
        BY <4>1, <4>2, <4>3 DEF MembersAccountedFor, TenantInv
      <4> QED BY <4>4, <4>5
    <3> QED BY <3>1, <3>2
  <2> QED BY <2>2, <2>3, <2>4, <2>5, <2>6, <2>7, <2>8, <2>9, <2>10, <2>11
<1>9. ASSUME O!Abort(c)
      PROVE  AInv'
  <2> USE <1>9 DEF O!Abort, O!Release, O!ours, O!shared
  <2>1. TypeOK'
    OBVIOUS
  <2>2. TenantInv'
    BY DEF TenantInv
  <2>3. CallInv'
    BY DEF CallInv
  <2>4. DraftInv'
    BY DEF DraftInv
  <2>5. MailInv'
    BY DEF MailInv
  <2>6. HoldInv' /\ GstinInv'
    BY DEF HoldInv, GstinInv
  <2>7. IP!RowInv' /\ IP!FlightInv' /\ IP!LockInv'
    BY DEF IP!RowInv, IP!FlightInv, IP!LockInv
  <2>8. IP!JoinInv'
    BY DEF IP!JoinInv
  <2>9. OrganizationsDistinct' /\ I!AcceptedHasMember' /\ I!AcceptedOncePerEmail'
    BY DEF OrganizationsDistinct, I!AcceptedHasMember, I!AcceptedOncePerEmail
  <2>10. OrganizationHasFounder' /\ MembersAccountedFor'
    BY DEF OrganizationHasFounder, MembersAccountedFor
  <2> QED BY <2>1, <2>2, <2>3, <2>4, <2>5, <2>6, <2>7, <2>8, <2>9, <2>10
<1> QED BY <1>1, <1>2, <1>3, <1>4, <1>5, <1>6, <1>7, <1>8, <1>9 DEF Call

\* A statement of InvitationService, its commit and its rollback.
LEMMA ServeStep ==
  ASSUME AInv, NEW r \in Request, Serve(r), UNCHANGED organizationVars
  PROVE  AInv'
<1> USE AccountsAssumption
    DEF AInv, TypeOK, I!TypeOK, O!Steps, I!Steps, Registering, Drafting, Updating,
        O!HoldsRow, IP!Locking, organizationVars, invitationVars
<1>1. ASSUME NEW o \in Org, NEW e \in Email, slug[o] # None, I!StartInvite(r, o, e)
      PROVE  AInv'
  <2> USE <1>1 DEF I!StartInvite, I!Goto, I!rows
  <2>1. TypeOK'
    OBVIOUS
  <2>2. TenantInv'
    BY DEF TenantInv
  <2>3. CallInv'
    BY DEF CallInv
  <2>4. DraftInv'
    BY DEF DraftInv
  <2>5. MailInv'
    BY DEF MailInv
  <2>6. HoldInv' /\ GstinInv'
    BY DEF HoldInv, GstinInv
  <2>7. IP!RowInv' /\ IP!FlightInv' /\ IP!LockInv'
    BY DEF IP!RowInv, IP!FlightInv, IP!LockInv
  <2>8. IP!JoinInv'
    BY DEF IP!JoinInv
  <2>9. OrganizationsDistinct' /\ I!AcceptedHasMember' /\ I!AcceptedOncePerEmail'
    BY DEF OrganizationsDistinct, I!AcceptedHasMember, I!AcceptedOncePerEmail
  <2>10. OrganizationHasFounder' /\ MembersAccountedFor'
    BY DEF OrganizationHasFounder, MembersAccountedFor
  <2> QED BY <2>1, <2>2, <2>3, <2>4, <2>5, <2>6, <2>7, <2>8, <2>9, <2>10
<1>2. ASSUME NEW i \in Invite, I!FindInvite(r, i)
      PROVE  AInv'
  <2> USE <1>2 DEF I!FindInvite, I!Goto, I!rows
  <2>1. TypeOK'
    OBVIOUS
  <2>2. TenantInv'
    BY DEF TenantInv
  <2>3. CallInv'
    BY DEF CallInv
  <2>4. DraftInv'
    BY DEF DraftInv
  <2>5. MailInv'
    BY DEF MailInv
  <2>6. HoldInv' /\ GstinInv'
    BY DEF HoldInv, GstinInv
  <2>7. IP!RowInv' /\ IP!FlightInv' /\ IP!LockInv'
    BY DEF IP!RowInv, IP!FlightInv, IP!LockInv
  <2>8. IP!JoinInv'
    BY DEF IP!JoinInv
  <2>9. OrganizationsDistinct' /\ I!AcceptedHasMember' /\ I!AcceptedOncePerEmail'
    BY DEF OrganizationsDistinct, I!AcceptedHasMember, I!AcceptedOncePerEmail
  <2>10. OrganizationHasFounder' /\ MembersAccountedFor'
    BY DEF OrganizationHasFounder, MembersAccountedFor
  <2> QED BY <2>1, <2>2, <2>3, <2>4, <2>5, <2>6, <2>7, <2>8, <2>9, <2>10
<1>3. ASSUME NEW o \in Org, NEW i \in Invite, I!Revoke(r, o, i)
      PROVE  AInv'
  <2> USE <1>3 DEF I!Revoke, I!Goto, I!Unlocked, I!rows
  <2>1. TypeOK'
    OBVIOUS
  <2>2. TenantInv'
    BY DEF TenantInv
  <2>3. CallInv'
    BY DEF CallInv
  <2>4. DraftInv'
    BY DEF DraftInv
  <2>5. MailInv'
    BY DEF MailInv
  <2>6. HoldInv' /\ GstinInv'
    BY DEF HoldInv, GstinInv
  <2>7. IP!RowInv' /\ IP!FlightInv' /\ IP!LockInv'
    BY DEF IP!RowInv, IP!FlightInv, IP!LockInv
  <2>8. IP!JoinInv'
    BY DEF IP!JoinInv
  <2>9. OrganizationsDistinct' /\ I!AcceptedHasMember' /\ I!AcceptedOncePerEmail'
    BY DEF OrganizationsDistinct, I!AcceptedHasMember, I!AcceptedOncePerEmail
  <2>10. OrganizationHasFounder' /\ MembersAccountedFor'
    BY DEF OrganizationHasFounder, MembersAccountedFor
  <2> QED BY <2>1, <2>2, <2>3, <2>4, <2>5, <2>6, <2>7, <2>8, <2>9, <2>10
<1>4. ASSUME I!CheckPending(r)
      PROVE  AInv'
  <2> USE <1>4 DEF I!CheckPending, I!Goto, I!rows, I!locals
  <2>1. TypeOK'
    OBVIOUS
  <2>2. TenantInv'
    BY DEF TenantInv
  <2>3. CallInv'
    BY DEF CallInv
  <2>4. DraftInv'
    BY DEF DraftInv
  <2>5. MailInv'
    BY DEF MailInv
  <2>6. HoldInv' /\ GstinInv'
    BY DEF HoldInv, GstinInv
  <2>7. IP!RowInv' /\ IP!FlightInv' /\ IP!LockInv'
    BY DEF IP!RowInv, IP!FlightInv, IP!LockInv
  <2>8. IP!JoinInv'
    BY DEF IP!JoinInv
  <2>9. OrganizationsDistinct' /\ I!AcceptedHasMember' /\ I!AcceptedOncePerEmail'
    BY DEF OrganizationsDistinct, I!AcceptedHasMember, I!AcceptedOncePerEmail
  <2>10. OrganizationHasFounder' /\ MembersAccountedFor'
    BY DEF OrganizationHasFounder, MembersAccountedFor
  <2> QED BY <2>1, <2>2, <2>3, <2>4, <2>5, <2>6, <2>7, <2>8, <2>9, <2>10
<1>5. ASSUME I!InsertInvite(r)
      PROVE  AInv'
  <2> USE <1>5 DEF I!InsertInvite, I!Goto
  <2>1. TypeOK'
    OBVIOUS
  <2>2. TenantInv'
    BY DEF TenantInv
  <2>3. CallInv'
    BY DEF CallInv
  <2>4. DraftInv'
    BY DEF DraftInv
  <2>5. MailInv'
    BY DEF MailInv
  <2>6. HoldInv' /\ GstinInv'
    BY DEF HoldInv, GstinInv
  <2>7. IP!RowInv' /\ IP!FlightInv' /\ IP!LockInv'
    BY DEF IP!RowInv, IP!FlightInv, IP!LockInv
  <2>8. IP!JoinInv'
    BY DEF IP!JoinInv
  <2>9. OrganizationsDistinct' /\ I!AcceptedHasMember' /\ I!AcceptedOncePerEmail'
    BY DEF OrganizationsDistinct, I!AcceptedHasMember, I!AcceptedOncePerEmail, IP!RowInv
  <2>10. OrganizationHasFounder' /\ MembersAccountedFor'
    BY DEF OrganizationHasFounder, MembersAccountedFor
  <2> QED BY <2>1, <2>2, <2>3, <2>4, <2>5, <2>6, <2>7, <2>8, <2>9, <2>10
<1>6. ASSUME I!CheckEmail(r)
      PROVE  AInv'
  <2> USE <1>6 DEF I!CheckEmail, I!Goto, I!rows, I!locals
  <2>1. TypeOK'
    OBVIOUS
  <2>2. TenantInv'
    BY DEF TenantInv
  <2>3. CallInv'
    BY DEF CallInv
  <2>4. DraftInv'
    BY DEF DraftInv
  <2>5. MailInv'
    BY DEF MailInv
  <2>6. HoldInv' /\ GstinInv'
    BY DEF HoldInv, GstinInv
  <2>7. IP!RowInv' /\ IP!FlightInv' /\ IP!LockInv'
    BY DEF IP!RowInv, IP!FlightInv, IP!LockInv
  <2>8. IP!JoinInv'
    BY DEF IP!JoinInv
  <2>9. OrganizationsDistinct' /\ I!AcceptedHasMember' /\ I!AcceptedOncePerEmail'
    BY DEF OrganizationsDistinct, I!AcceptedHasMember, I!AcceptedOncePerEmail
  <2>10. OrganizationHasFounder' /\ MembersAccountedFor'
    BY DEF OrganizationHasFounder, MembersAccountedFor
  <2> QED BY <2>1, <2>2, <2>3, <2>4, <2>5, <2>6, <2>7, <2>8, <2>9, <2>10
<1>7. ASSUME I!InsertUser(r), BlockingCalls(r) = {}
      PROVE  AInv'
  <2> USE <1>7 DEF I!InsertUser, I!Goto, I!rows
  <2>1. TypeOK'
    BY DEF IP!FlightInv
  <2>2. TenantInv'
    BY DEF TenantInv
  <2>3. CallInv'
    BY DEF CallInv
  <2>4. DraftInv'
    BY DEF DraftInv
  <2>5. MailInv'
    BY DEF MailInv, BlockingCalls, CallInv
  <2>6. HoldInv' /\ GstinInv'
    BY DEF HoldInv, GstinInv
  <2>7. IP!RowInv' /\ IP!FlightInv' /\ IP!LockInv'
    BY DEF IP!RowInv, IP!FlightInv, IP!LockInv
  <2>8. IP!JoinInv'
    BY DEF IP!JoinInv
  <2>9. OrganizationsDistinct' /\ I!AcceptedHasMember' /\ I!AcceptedOncePerEmail'
    BY DEF OrganizationsDistinct, I!AcceptedHasMember, I!AcceptedOncePerEmail
  <2>10. OrganizationHasFounder' /\ MembersAccountedFor'
    BY DEF OrganizationHasFounder, MembersAccountedFor
  <2> QED BY <2>1, <2>2, <2>3, <2>4, <2>5, <2>6, <2>7, <2>8, <2>9, <2>10
<1>8. ASSUME I!MarkAccepted(r)
      PROVE  AInv'
  <2> USE <1>8 DEF I!MarkAccepted, I!Goto, I!Unlocked, I!rows, I!locals
  <2>1. TypeOK'
    OBVIOUS
  <2>2. TenantInv'
    BY DEF TenantInv
  <2>3. CallInv'
    BY DEF CallInv
  <2>4. DraftInv'
    BY DEF DraftInv
  <2>5. MailInv'
    BY DEF MailInv
  <2>6. HoldInv' /\ GstinInv'
    BY DEF HoldInv, GstinInv
  <2>7. IP!RowInv' /\ IP!FlightInv' /\ IP!LockInv'
    BY DEF IP!RowInv, IP!FlightInv, IP!LockInv
  <2>8. IP!JoinInv'
    BY DEF IP!JoinInv
  <2>9. OrganizationsDistinct' /\ I!AcceptedHasMember' /\ I!AcceptedOncePerEmail'
    BY DEF OrganizationsDistinct, I!AcceptedHasMember, I!AcceptedOncePerEmail
  <2>10. OrganizationHasFounder' /\ MembersAccountedFor'
    BY DEF OrganizationHasFounder, MembersAccountedFor
  <2> QED BY <2>1, <2>2, <2>3, <2>4, <2>5, <2>6, <2>7, <2>8, <2>9, <2>10
<1>9. ASSUME I!Commit(r)
      PROVE  AInv'
  <2> USE <1>9 DEF I!Commit, I!Release
  <2>1. TypeOK'
    BY DEF IP!FlightInv
  <2>2. TenantInv'
    BY DEF TenantInv, IP!FlightInv
  <2>3. CallInv'
    BY DEF CallInv
  <2>4. DraftInv'
    BY DEF DraftInv
  <2>5. MailInv'
    BY DEF MailInv, CallInv
  <2>6. HoldInv' /\ GstinInv'
    BY DEF HoldInv, GstinInv
  <2>7. IP!RowInv' /\ IP!FlightInv' /\ IP!LockInv'
    BY DEF IP!RowInv, IP!FlightInv, IP!LockInv
  <2>8. IP!JoinInv'
    BY DEF IP!JoinInv
  <2>9. OrganizationsDistinct'
    BY DEF OrganizationsDistinct
  <2>11. I!AcceptedHasMember' /\ I!AcceptedOncePerEmail'
    BY DEF I!AcceptedHasMember, I!AcceptedOncePerEmail, IP!FlightInv, IP!JoinInv, IP!RowInv,
           IP!LockInv
  <2>10. OrganizationHasFounder' /\ MembersAccountedFor'
    BY DEF OrganizationHasFounder, MembersAccountedFor, IP!FlightInv, IP!JoinInv, IP!LockInv
  <2> QED BY <2>1, <2>2, <2>3, <2>4, <2>5, <2>6, <2>7, <2>8, <2>9, <2>10, <2>11
<1>10. ASSUME I!Abort(r)
      PROVE  AInv'
  <2> USE <1>10 DEF I!Abort, I!Release, I!rows
  <2>1. TypeOK'
    OBVIOUS
  <2>2. TenantInv'
    BY DEF TenantInv
  <2>3. CallInv'
    BY DEF CallInv
  <2>4. DraftInv'
    BY DEF DraftInv
  <2>5. MailInv'
    BY DEF MailInv, CallInv
  <2>6. HoldInv' /\ GstinInv'
    BY DEF HoldInv, GstinInv
  <2>7. IP!RowInv' /\ IP!FlightInv' /\ IP!LockInv'
    BY DEF IP!RowInv, IP!FlightInv, IP!LockInv
  <2>8. IP!JoinInv'
    BY DEF IP!JoinInv
  <2>9. OrganizationsDistinct' /\ I!AcceptedHasMember' /\ I!AcceptedOncePerEmail'
    BY DEF OrganizationsDistinct, I!AcceptedHasMember, I!AcceptedOncePerEmail
  <2>10. OrganizationHasFounder' /\ MembersAccountedFor'
    BY DEF OrganizationHasFounder, MembersAccountedFor
  <2> QED BY <2>1, <2>2, <2>3, <2>4, <2>5, <2>6, <2>7, <2>8, <2>9, <2>10
<1> QED BY <1>1, <1>2, <1>3, <1>4, <1>5, <1>6, <1>7, <1>8, <1>9, <1>10 DEF Serve

\* Accounts that are deactivated, invitations that expire, and no step at all.
LEMMA RestStep ==
  ASSUME AInv, UNCHANGED vars \/ (Elsewhere /\ UNCHANGED organizationVars)
  PROVE  AInv'
<1> USE DEF AInv, TypeOK, I!TypeOK, O!Steps, I!Steps, Registering, Drafting, Updating,
           O!HoldsRow, IP!Locking, organizationVars, invitationVars
<1>1. UNCHANGED <<organizationVars, invites, org, email, accepted, member, pc, inv, addr,
                  team, joins>>
  BY DEF vars, Elsewhere, I!SoftDelete, I!Expire, I!locals
<1>2. TypeOK'
  BY <1>1 DEF vars, Elsewhere, I!SoftDelete, I!Expire
<1>3. TenantInv' /\ CallInv' /\ DraftInv' /\ MailInv' /\ HoldInv' /\ GstinInv'
  BY <1>1 DEF TenantInv, CallInv, DraftInv, MailInv, HoldInv, GstinInv
<1>4. IP!RowInv' /\ IP!FlightInv' /\ IP!JoinInv' /\ IP!LockInv'
  BY <1>1 DEF IP!RowInv, IP!FlightInv, IP!JoinInv, IP!LockInv
<1>5. OrganizationsDistinct' /\ OrganizationHasFounder' /\ MembersAccountedFor'
  BY <1>1 DEF OrganizationsDistinct, OrganizationHasFounder, MembersAccountedFor
<1>6. I!AcceptedHasMember' /\ I!AcceptedOncePerEmail'
  BY <1>1 DEF I!AcceptedHasMember, I!AcceptedOncePerEmail
<1> QED BY <1>2, <1>3, <1>4, <1>5, <1>6

\* The inductive invariant of the two services together holds in every reachable
\* state.
THEOREM AccountsInvariant == Spec => []AInv
<1>1. AInv /\ [Next]_vars => AInv'
  BY CallStep, ServeStep, RestStep DEF Next
<1> QED
  BY <1>1, AInvInit, PTL DEF Spec

-----------------------------------------------------------------------------
\* Type correctness, for every value of the constants.
THEOREM AccountsTypeOK == Spec => []TypeOK
<1>1. AInv => TypeOK
  BY DEF AInv
<1> QED
  BY <1>1, AccountsInvariant, PTL

\* No race of registrations or updates makes two organizations share a slug or a
\* GSTIN.
THEOREM AccountsOrganizationsDistinct == Spec => []OrganizationsDistinct
<1>1. AInv => OrganizationsDistinct
  BY DEF AInv
<1> QED
  BY <1>1, AccountsInvariant, PTL

\* An organization is never visible without the admin it was registered with.
THEOREM OrganizationsHaveFounders == Spec => []OrganizationHasFounder
<1>1. AInv => OrganizationHasFounder
  BY DEF AInv
<1> QED
  BY <1>1, AccountsInvariant, PTL

\* Nobody is a member who neither registered the organization nor accepted an
\* invitation that is on record.
THEOREM AllMembersAccountedFor == Spec => []MembersAccountedFor
<1>1. AInv => MembersAccountedFor
  BY DEF AInv
<1> QED
  BY <1>1, AccountsInvariant, PTL

\* A circle of waits has no room for a call or request that is waited for without
\* waiting, or the other way round; what is left is a call whose GSTIN is not free.
LEMMA CirclesAreGstinSwaps == AInv => OnlyGstinSwapsDeadlock
<1> SUFFICES ASSUME AInv, NEW S \in SUBSET (Caller \union Request),
                    \A x \in S : WaitsFor(x) \intersect S # {},
                    \A y \in S : \E x \in S : y \in WaitsFor(x)
             PROVE  \A x \in S : x \in Caller /\ step[x] = "take_gstin"
  BY DEF OnlyGstinSwapsDeadlock
<1> USE AccountsAssumption
<1>1. \A c \in S \intersect Caller :
        step[c] \in {"insert_org", "insert_user", "lock_row", "take_gstin"}
  BY DEF WaitsFor, BlockingRequests, O!Blockers
<1>2. \A r \in S \intersect Request :
        pc[r] \in {"insert_invite", "insert_user", "mark_accepted"}
  BY DEF WaitsFor, BlockingCalls
<1>3. \A c \in S \intersect Caller : step[c] \in {"insert_user", "take_gstin"}
  <2> TAKE c \in S \intersect Caller
  <2>1. PICK x \in S : c \in WaitsFor(x)
    OBVIOUS
  <2>2. step[c] \in {"insert_user", "registered", "take_gstin", "updated"}
    BY <2>1 DEF WaitsFor, BlockingRequests, BlockingCalls, O!Blockers, O!HoldsRow
  <2> QED
    BY <1>1, <2>2
<1>4. \A c \in S \intersect Caller : step[c] = "take_gstin"
  <2> SUFFICES ASSUME NEW c \in S \intersect Caller, step[c] = "insert_user"
               PROVE  FALSE
    BY <1>3
  <2>1. PICK x \in S : c \in WaitsFor(x)
    OBVIOUS
  <2>2. x \in Caller /\ step[x] = "insert_org"
    BY <2>1 DEF WaitsFor, BlockingRequests, BlockingCalls, O!Blockers, O!HoldsRow
  <2> QED
    BY <1>3, <2>2
<1>5. \A r \in S \intersect Request :
        \E x \in S \intersect Request : pc[x] = "insert_user" /\ joins[r] = email[inv[x]]
  <2> TAKE r \in S \intersect Request
  <2>1. PICK x \in S : r \in WaitsFor(x)
    OBVIOUS
  <2>2. x \in Request
    BY <1>4, <2>1 DEF WaitsFor, BlockingRequests, O!Blockers
  <2> QED
    BY <1>2, <2>1, <2>2 DEF WaitsFor, BlockingCalls
<1>6. \A r \in Request : pc[r] = "insert_user" => joins[r] = None /\ email[inv[r]] # None
  BY DEF AInv, TypeOK, I!TypeOK, IP!JoinInv, IP!FlightInv, IP!RowInv
<1>7. S \intersect Request = {}
  <2> SUFFICES ASSUME NEW r \in S \intersect Request
               PROVE  FALSE
    OBVIOUS
  <2>1. PICK x \in S \intersect Request : pc[x] = "insert_user"
    BY <1>5
  <2>2. PICK y \in S \intersect Request : pc[y] = "insert_user" /\ joins[x] = email[inv[y]]
    BY <1>5
  <2> QED
    BY <1>6, <2>1, <2>2
<1> QED
  BY <1>4, <1>7

\* However many calls and requests there are, the only deadlocks are of GSTINs.
THEOREM OnlyGstinSwapsDeadlocks == Spec => []OnlyGstinSwapsDeadlock
BY CirclesAreGstinSwaps, AccountsInvariant, PTL

\* A commit writes the account of an address that has none: whoever inserts it has
\* kept every other insertion of it waiting.
THEOREM AccountsStay == Spec => AccountStays
<1> DEFINE Step == \A e \in Email : member[e] # None => member'[e] = member[e]
<1>1. ASSUME AInv, [Next]_vars PROVE [Step]_vars
  <2>1. ASSUME NEW c \in Caller, O!Commit(c) PROVE Step
    BY <1>1, <2>1 DEF O!Commit, O!shared, AInv, TypeOK, I!TypeOK, MailInv
  <2>2. ASSUME NEW r \in Request, I!Commit(r) PROVE Step
    BY <1>1, <2>2 DEF I!Commit, AInv, TypeOK, I!TypeOK, IP!JoinInv, IP!FlightInv,
        IP!RowInv, IP!LockInv, IP!Locking
  <2>3. CASE UNCHANGED member
    BY <2>3
  <2> QED
    BY <1>1, <2>1, <2>2, <2>3
    DEF Next, Call, Serve, Elsewhere, vars, O!StartRegister, O!StartUpdate, O!CheckEmail,
        O!InsertOrg, O!InsertUser, O!LockRow, O!TakeGstin, O!Abort, O!shared,
        I!StartInvite, I!FindInvite, I!Revoke, I!CheckPending, I!InsertInvite,
        I!CheckEmail, I!InsertUser, I!MarkAccepted, I!Abort, I!SoftDelete, I!Expire, I!rows
<1> QED
  BY <1>1, AccountsInvariant, PTL DEF Spec, AccountStays

-----------------------------------------------------------------------------
(* What Invitations guarantees on its own, beside registrations *)

\* An accepted invitation still comes with its account when founders' accounts
\* enter the same table.
THEOREM AccountsAcceptedHasMember == Spec => []I!AcceptedHasMember
<1>1. AInv => I!AcceptedHasMember
  BY DEF AInv
<1> QED
  BY <1>1, AccountsInvariant, PTL

\* And an address still accepts one invitation at most.
THEOREM AccountsAcceptedOncePerEmail == Spec => []I!AcceptedOncePerEmail
<1>1. AInv => I!AcceptedOncePerEmail
  BY DEF AInv
<1> QED
  BY <1>1, AccountsInvariant, PTL

\* OneInv of InvitationsProofs, over a table users that registrations fill too: the
\* argument is the same, an invite that is alone finds its check still true.
LEMMA OneInvStep ==
  ASSUME AInv, IP!OneInv, NEW r \in Request, Serve(r)
  PROVE  IP!OneInv'
<1> USE AccountsAssumption
    DEF AInv, TypeOK, I!TypeOK, I!Steps, IP!OneInv, IP!Inviting, IP!Checked, IP!Pending
<1>1. ASSUME NEW o \in Org, NEW e \in Email, I!StartInvite(r, o, e) PROVE IP!OneInv'
  <2> USE <1>1 DEF I!StartInvite, I!Goto, I!Crosses
  <2>1. IP!TogetherInv'
    BY DEF IP!TogetherInv
  <2>2. IP!ClearInv'
    BY DEF IP!ClearInv, IP!TogetherInv, IP!RowInv
  <2>3. IP!OnePendingUnlessCrossed'
    BY DEF IP!OnePendingUnlessCrossed, IP!ClearInv, IP!RowInv
  <2> QED BY <2>1, <2>2, <2>3
<1>2. ASSUME I!CheckPending(r) PROVE IP!OneInv'
  <2> USE <1>2 DEF I!CheckPending, I!Pending, I!Goto, I!rows, I!locals
  <2>1. IP!TogetherInv'
    BY DEF IP!TogetherInv
  <2>2. IP!ClearInv'
    BY DEF IP!ClearInv, IP!TogetherInv, IP!RowInv
  <2>3. IP!OnePendingUnlessCrossed'
    BY DEF IP!OnePendingUnlessCrossed, IP!ClearInv, IP!RowInv
  <2> QED BY <2>1, <2>2, <2>3
<1>3. ASSUME I!InsertInvite(r) PROVE IP!OneInv'
  <2> USE <1>3 DEF I!InsertInvite, I!Goto
  <2>1. IP!TogetherInv'
    BY DEF IP!TogetherInv
  <2>2. IP!ClearInv'
    BY DEF IP!ClearInv, IP!TogetherInv, IP!RowInv
  <2>3. IP!OnePendingUnlessCrossed'
    BY DEF IP!OnePendingUnlessCrossed, IP!ClearInv, IP!RowInv
  <2> QED BY <2>1, <2>2, <2>3
<1>4. ASSUME NEW i \in Invite, I!FindInvite(r, i) PROVE IP!OneInv'
  <2> USE <1>4 DEF I!FindInvite, I!Goto, I!rows
  <2>1. IP!TogetherInv'
    BY DEF IP!TogetherInv
  <2>2. IP!ClearInv'
    BY DEF IP!ClearInv, IP!TogetherInv, IP!RowInv
  <2>3. IP!OnePendingUnlessCrossed'
    BY DEF IP!OnePendingUnlessCrossed, IP!ClearInv, IP!RowInv
  <2> QED BY <2>1, <2>2, <2>3
<1>5. ASSUME I!CheckEmail(r) \/ I!InsertUser(r) \/ I!MarkAccepted(r) PROVE IP!OneInv'
  <2> USE <1>5 DEF I!CheckEmail, I!InsertUser, I!MarkAccepted, I!Goto, I!rows, I!locals
  <2>1. IP!TogetherInv'
    BY DEF IP!TogetherInv
  <2>2. IP!ClearInv'
    BY DEF IP!ClearInv, IP!TogetherInv, IP!RowInv
  <2>3. IP!OnePendingUnlessCrossed'
    BY DEF IP!OnePendingUnlessCrossed, IP!ClearInv, IP!RowInv
  <2> QED BY <2>1, <2>2, <2>3
<1>6. ASSUME NEW o \in Org, NEW i \in Invite, I!Revoke(r, o, i) PROVE IP!OneInv'
  <2> USE <1>6 DEF I!Revoke, I!Goto, I!rows
  <2>1. IP!TogetherInv'
    BY DEF IP!TogetherInv
  <2>2. IP!ClearInv'
    BY DEF IP!ClearInv, IP!TogetherInv, IP!RowInv
  <2>3. IP!OnePendingUnlessCrossed'
    BY DEF IP!OnePendingUnlessCrossed, IP!ClearInv, IP!RowInv
  <2> QED BY <2>1, <2>2, <2>3
<1>7. ASSUME I!Commit(r) PROVE IP!OneInv'
  <2> USE <1>7 DEF I!Commit, I!Release
  <2>1. IP!TogetherInv'
    BY DEF IP!TogetherInv
  <2>2. CASE pc[r] \in {"joined", "revoked"}
    <3>1. \A o \in Org, e \in Email : IP!Pending(o, e)' \subseteq IP!Pending(o, e)
      BY <2>2
    <3>2. IP!ClearInv'
      BY <3>1 DEF IP!ClearInv
    <3>3. IP!OnePendingUnlessCrossed'
      BY <3>1 DEF IP!OnePendingUnlessCrossed
    <3> QED BY <2>1, <3>2, <3>3
  <2>3. CASE pc[r] = "invited"
    <3>1. /\ team[r] \in Org /\ addr[r] \in Email
          /\ org[inv[r]] = team[r] /\ email[inv[r]] = addr[r]
          /\ <<team[r], addr[r]>> \notin crossed => IP!Pending(team[r], addr[r]) = {}
      BY <2>3 DEF IP!ClearInv
    <3>2. ASSUME NEW o \in Org, NEW e \in Email
          PROVE  IP!Pending(o, e)' \subseteq IP!Pending(o, e) \union {inv[r]}
      BY <2>3
    <3>3. ASSUME NEW o \in Org, NEW e \in Email, o # team[r] \/ e # addr[r]
          PROVE  IP!Pending(o, e)' = IP!Pending(o, e)
      BY <2>3, <3>1, <3>3
    <3>4. IP!ClearInv'
      <4> SUFFICES ASSUME NEW s \in Request \ {r}, pc[s] \in IP!Checked,
                          <<team[s], addr[s]>> \notin crossed
                   PROVE  IP!Pending(team[s], addr[s])' = {}
        BY DEF IP!ClearInv
      <4>1. team[s] \in Org /\ addr[s] \in Email /\ IP!Pending(team[s], addr[s]) = {}
        BY DEF IP!ClearInv
      <4>2. team[s] # team[r] \/ addr[s] # addr[r]
        BY <2>3 DEF IP!TogetherInv
      <4> QED BY <3>3, <4>1, <4>2
    <3>5. IP!OnePendingUnlessCrossed'
      <4> SUFFICES ASSUME NEW o \in Org, NEW e \in Email, <<o, e>> \notin crossed
                   PROVE  \A i, j \in IP!Pending(o, e)' : i = j
        BY DEF IP!OnePendingUnlessCrossed
      <4>1. CASE o = team[r] /\ e = addr[r]
        BY <3>1, <3>2, <4>1
      <4>2. CASE o # team[r] \/ e # addr[r]
        BY <3>3, <4>2 DEF IP!OnePendingUnlessCrossed
      <4> QED BY <4>1, <4>2
    <3> QED BY <2>1, <3>4, <3>5
  <2> QED BY <2>2, <2>3
<1>8. ASSUME I!Abort(r) PROVE IP!OneInv'
  <2> USE <1>8 DEF I!Abort, I!Release, I!rows
  <2>1. IP!TogetherInv'
    BY DEF IP!TogetherInv
  <2>2. IP!ClearInv'
    BY DEF IP!ClearInv, IP!TogetherInv, IP!RowInv
  <2>3. IP!OnePendingUnlessCrossed'
    BY DEF IP!OnePendingUnlessCrossed, IP!ClearInv, IP!RowInv
  <2> QED BY <2>1, <2>2, <2>3
<1> QED
  BY <1>1, <1>2, <1>3, <1>4, <1>5, <1>6, <1>7, <1>8 DEF Serve

\* Two pending invitations of an address into one organization come from invites in
\* flight together also beside registrations, which take addresses away from
\* pending invitations and never add one.
THEOREM AccountsOnePendingUnlessCrossed == Spec => []I!OnePendingUnlessCrossed
<1> USE DEF IP!OneInv, IP!TogetherInv, IP!ClearInv, IP!OnePendingUnlessCrossed, IP!Pending,
            IP!Inviting, IP!Checked
<1>1. Init => IP!OneInv
  BY DEF Init, I!Init
<1>2. ASSUME AInv, IP!OneInv, [Next]_vars PROVE IP!OneInv'
  <2>1. CASE UNCHANGED <<invites, org, email, accepted, crossed, pc, inv, team, addr>>
             /\ expired \subseteq expired'
    <3>1. IP!TogetherInv' /\ IP!ClearInv'
      BY <1>2, <2>1
    <3>2. IP!OnePendingUnlessCrossed'
      BY <1>2, <2>1
    <3> QED BY <3>1, <3>2
  <2> QED
    BY <1>2, <2>1, OneInvStep
    DEF Next, vars, invitationVars, Elsewhere, I!SoftDelete, I!Expire, I!locals
<1>3. IP!OneInv => I!OnePendingUnlessCrossed
  BY DEF I!OnePendingUnlessCrossed, I!Pending
<1> QED
  BY <1>1, <1>2, <1>3, AccountsInvariant, PTL DEF Spec

-----------------------------------------------------------------------------
(* The refinement of AccountLedger *)

\* A call's commit registers an organization whose slug and address are still
\* free (DraftInv, MailInv), or writes a GSTIN that is (GstinInv).
LEMMA CallCommitIsLedgerStep ==
  ASSUME AInv, NEW c \in Caller, O!Commit(c), UNCHANGED invitationVars
  PROVE  Ledger!Next \/ UNCHANGED Ledger!vars
<1> USE DEF Registering, Drafting, Updating
<1>1. UNCHANGED <<invites, org, email, accepted>>
  BY DEF invitationVars
<1>2. CASE step[c] = "registered"
  <2>1. organ[c] \in Org /\ wanted[c] \in Slug /\ mail[c] \in Email
    BY <1>2 DEF AInv, CallInv, DraftInv
  <2>2. /\ slug[organ[c]] = None /\ member[mail[c]] = None
        /\ \A p \in Org : slug[p] # wanted[c]
    BY <1>2 DEF AInv, DraftInv, MailInv
  <2>3. Ledger!Register(organ[c], wanted[c], mail[c])
    BY <1>1, <1>2, <2>2 DEF O!Commit, Ledger!Register
  <2> QED
    BY <2>1, <2>3 DEF Ledger!Next
<1>3. CASE step[c] = "updated" /\ gst[c] # None
  <2>1. organ[c] \in Org /\ gst[c] \in Gstin /\ slug[organ[c]] # None
    BY <1>3 DEF AInv, CallInv, TypeOK
  <2>2. \A p \in Org \ {organ[c]} : gstin[p] # gst[c]
    BY <1>3 DEF AInv, GstinInv
  <2>3. Ledger!TakeGstin(organ[c], gst[c])
    BY <1>1, <1>3, <2>1, <2>2 DEF O!Commit, O!shared, Ledger!TakeGstin
  <2> QED
    BY <2>1, <2>3 DEF Ledger!Next
<1>4. CASE step[c] = "updated" /\ gst[c] = None
  <2>1. gstin' = gstin
    BY <1>4 DEF O!Commit, AInv, TypeOK
  <2> QED
    BY <1>1, <1>4, <2>1 DEF O!Commit, O!shared, Ledger!vars
<1> QED
  BY <1>2, <1>3, <1>4 DEF O!Commit

\* A request's commit accepts or deletes an invitation that is on record and not
\* accepted (LockInv), for an address without account (JoinInv), or adds one.
LEMMA RequestCommitIsLedgerStep ==
  ASSUME AInv, NEW r \in Request, I!Commit(r), UNCHANGED organizationVars
  PROVE  Ledger!Next \/ UNCHANGED Ledger!vars
<1> USE AccountsAssumption DEF IP!Locking
<1>0. PICK i \in Invite : i = inv[r]
  BY DEF I!Commit, AInv, IP!FlightInv
<1>1. UNCHANGED <<slug, gstin, founder, org, email, gone>>
  BY DEF organizationVars, I!Commit
<1>2. /\ org \in [Invite -> Org \union {None}] /\ email \in [Invite -> Email \union {None}]
      /\ \A j \in Invite : org[j] = None <=> email[j] = None
  BY DEF AInv, TypeOK, I!TypeOK, IP!RowInv
<1>3. CASE pc[r] = "invited"
  <2>1. PICK o \in Org, e \in Email : o = org[i] /\ e = email[i] /\ slug[o] # None
    BY <1>0, <1>2, <1>3 DEF AInv, IP!FlightInv, TenantInv
  <2>2. invites' = invites \union {i} /\ UNCHANGED <<accepted, member>>
    BY <1>0, <1>3 DEF I!Commit
  <2>3. CASE i \in invites
    BY <1>1, <2>2, <2>3 DEF Ledger!vars
  <2>4. CASE i \notin invites
    <3>1. Ledger!Send(i, o, e)
      BY <1>1, <2>1, <2>2, <2>4 DEF Ledger!Send
    <3> QED
      BY <2>1, <3>1 DEF Ledger!Next
  <2> QED
    BY <2>3, <2>4
<1>4. CASE pc[r] = "joined"
  <2>1. /\ i \in invites /\ org[i] \in Org /\ email[i] \in Email
        /\ joins[r] = email[i] /\ member[email[i]] = None
    BY <1>0, <1>2, <1>4 DEF AInv, IP!FlightInv, IP!LockInv, IP!JoinInv
  <2>2. i \notin accepted
    BY <2>1 DEF AInv, I!AcceptedHasMember
  <2>3. /\ accepted' = accepted \union {i} /\ invites' = invites
        /\ member' = [member EXCEPT ![email[i]] = org[i]]
    BY <1>0, <1>4, <2>1 DEF I!Commit
  <2>4. Ledger!Accept(i)
    BY <1>1, <2>1, <2>2, <2>3 DEF Ledger!Accept
  <2> QED
    BY <2>1, <2>4 DEF Ledger!Next
<1>5. CASE pc[r] = "revoked"
  <2>1. i \in invites /\ i \notin accepted /\ org[i] \in Org
    BY <1>0, <1>2, <1>5 DEF AInv, IP!FlightInv, IP!LockInv
  <2>2. invites' = invites \ {i} /\ UNCHANGED <<accepted, member>>
    BY <1>0, <1>5 DEF I!Commit
  <2>3. Ledger!Withdraw(i)
    BY <1>1, <2>1, <2>2 DEF Ledger!Withdraw
  <2> QED
    BY <2>1, <2>3 DEF Ledger!Next
<1> QED
  BY <1>3, <1>4, <1>5 DEF I!Commit

\* An id is drawn before its invitation is on record, which nobody sees.
LEMMA RequestStatementStutters ==
  ASSUME AInv, NEW r \in Request, Serve(r), ~I!Commit(r), UNCHANGED organizationVars
  PROVE  UNCHANGED Ledger!vars
<1>1. UNCHANGED <<slug, gstin, founder>>
  BY DEF organizationVars
<1>2. UNCHANGED <<invites, accepted, member, gone>>
  BY DEF Serve, I!StartInvite, I!FindInvite, I!Revoke, I!CheckPending, I!InsertInvite,
         I!CheckEmail, I!InsertUser, I!MarkAccepted, I!Abort, I!rows
<1>3. \A i \in invites : org'[i] = org[i] /\ email'[i] = email[i]
  <2>1. CASE I!InsertInvite(r)
    BY <2>1 DEF I!InsertInvite, AInv, TypeOK, I!TypeOK, IP!RowInv
  <2>2. CASE ~I!InsertInvite(r)
    BY <2>2 DEF Serve, I!StartInvite, I!FindInvite, I!Revoke, I!CheckPending,
                I!CheckEmail, I!InsertUser, I!MarkAccepted, I!Abort, I!rows
  <2> QED
    BY <2>1, <2>2
<1> QED
  BY <1>1, <1>2, <1>3 DEF Ledger!vars

LEMMA LedgerStep == AInv /\ [Next]_vars => [Ledger!Next]_(Ledger!vars)
<1> SUFFICES ASSUME AInv, [Next]_vars
             PROVE  Ledger!Next \/ UNCHANGED Ledger!vars
  OBVIOUS
<1>1. ASSUME NEW c \in Caller, Call(c), UNCHANGED invitationVars
      PROVE  Ledger!Next \/ UNCHANGED Ledger!vars
  <2>1. CASE O!Commit(c)
    BY <1>1, <2>1, CallCommitIsLedgerStep
  <2>2. CASE ~O!Commit(c)
    <3>1. UNCHANGED <<slug, gstin, founder, member, gone>>
      BY <1>1, <2>2
      DEF Call, O!StartRegister, O!StartUpdate, O!CheckEmail, O!InsertOrg, O!InsertUser,
          O!LockRow, O!TakeGstin, O!Abort, O!ours, O!shared
    <3> QED
      BY <1>1, <3>1 DEF invitationVars, Ledger!vars
  <2> QED
    BY <2>1, <2>2
<1>2. ASSUME NEW r \in Request, Serve(r), UNCHANGED organizationVars
      PROVE  Ledger!Next \/ UNCHANGED Ledger!vars
  BY <1>2, RequestCommitIsLedgerStep, RequestStatementStutters
<1>3. ASSUME NEW e \in Email, I!SoftDelete(e), UNCHANGED organizationVars
      PROVE  Ledger!Next \/ UNCHANGED Ledger!vars
  <2>1. Ledger!Deactivate(e)
    BY <1>3 DEF I!SoftDelete, I!Registered, organizationVars, Ledger!Deactivate
  <2> QED
    BY <2>1 DEF Ledger!Next
<1>4. ASSUME NEW i \in Invite, I!Expire(i), UNCHANGED organizationVars
      PROVE  UNCHANGED Ledger!vars
  BY <1>4 DEF I!Expire, organizationVars, Ledger!vars
<1>5. CASE UNCHANGED vars
  BY <1>5 DEF vars, organizationVars, invitationVars, Ledger!vars
<1> QED
  BY <1>1, <1>2, <1>3, <1>4, <1>5 DEF Next, Elsewhere

\* Registration, invitations and deactivation implement the ledger: none of their
\* many interleaved statements shows, and no overlap has to be excepted.
THEOREM AccountsImplementLedger == Spec => ImplementsLedger
<1>1. Init => Ledger!Init
  BY DEF Init, O!Init, I!Init, Ledger!Init
<1>2. AInv /\ [Next]_vars => [Ledger!Next]_(Ledger!vars)
  BY LedgerStep
<1> QED
  BY <1>1, <1>2, AccountsInvariant, PTL DEF Spec, Ledger!Spec, ImplementsLedger

=============================================================================
