-------------------------- MODULE InvitationsProofs -------------------------
(***************************************************************************)
(* Accounts and accepted invitations stay in step, for every set of        *)
(* organizations, addresses, invitations and requests.                     *)
(***************************************************************************)
EXTENDS Invitations, TLAPS

\* Steps at which a request holds the lock of its invitation's row.
Locking == {"joined", "revoked"}

\* A drawn invitation has an organization and an address for good; an accepted
\* one is on record.
RowInv ==
  /\ \A i \in Invite : org[i] = None <=> email[i] = None
  /\ \A i \in invites : org[i] # None
  /\ accepted \subseteq invites

\* What a request has in its hands at each statement.
FlightInv ==
  \A r \in Request :
    /\ pc[r] \in {"check_pending", "insert_invite"} =>
         team[r] \in Org /\ addr[r] \in Email
    /\ pc[r] \in {"invited", "check_email", "insert_user", "mark_accepted",
                  "joined", "revoked"} =>
         inv[r] \in Invite /\ org[inv[r]] # None
    /\ pc[r] \in {"mark_accepted", "joined"} => joins[r] = email[inv[r]]

\* A pending users row belongs to one transaction, and no row has its email.
JoinInv ==
  \A r \in Request : joins[r] # None =>
    /\ pc[r] \in {"mark_accepted", "joined", "raise"}
    /\ member[joins[r]] = None
    /\ \A s \in Request \ {r} : joins[s] # joins[r]

\* A row that a transaction marks or deletes is there and is not accepted, and
\* no other transaction does either.
LockInv ==
  \A r \in Request : pc[r] \in Locking =>
    /\ inv[r] \in invites
    /\ pc[r] = "revoked" => inv[r] \notin accepted
    /\ \A s \in Request \ {r} : pc[s] \in Locking => inv[s] # inv[r]

IInv == TypeOK /\ RowInv /\ FlightInv /\ JoinInv /\ LockInv
               /\ AcceptedHasMember /\ MemberWasInvited /\ AcceptedOncePerEmail

-----------------------------------------------------------------------------
\* There is no invitation, no account and no request yet.
LEMMA IInvInit == Init => IInv
BY InvitationsAssumption
DEF Init, IInv, TypeOK, RowInv, FlightInv, JoinInv, LockInv, Locking,
    AcceptedHasMember, MemberWasInvited, AcceptedOncePerEmail, Steps

\* Every step keeps the types.
LEMMA TypeStep == TypeOK /\ FlightInv /\ JoinInv /\ [Next]_vars => TypeOK'
<1> SUFFICES ASSUME TypeOK, FlightInv, JoinInv, [Next]_vars PROVE TypeOK'
  OBVIOUS
<1> USE InvitationsAssumption DEF TypeOK, Steps
<1>1. ASSUME NEW r \in Request, NEW o \in Org, NEW e \in Email, StartInvite(r, o, e) PROVE TypeOK'
  BY <1>1 DEF StartInvite, Goto, rows
<1>2. ASSUME NEW r \in Request, CheckPending(r) PROVE TypeOK'
  BY <1>2 DEF CheckPending, Goto, rows, locals
<1>3. ASSUME NEW r \in Request, InsertInvite(r) PROVE TypeOK'
  BY <1>3 DEF InsertInvite, Goto, FlightInv
<1>4. ASSUME NEW r \in Request, NEW i \in Invite, FindInvite(r, i) PROVE TypeOK'
  BY <1>4 DEF FindInvite, Goto, rows
<1>5. ASSUME NEW r \in Request, CheckEmail(r) PROVE TypeOK'
  BY <1>5 DEF CheckEmail, Goto, rows, locals
<1>6. ASSUME NEW r \in Request, InsertUser(r) PROVE TypeOK'
  BY <1>6 DEF InsertUser, Goto, rows, FlightInv
<1>7. ASSUME NEW r \in Request, MarkAccepted(r) PROVE TypeOK'
  BY <1>7 DEF MarkAccepted, Goto, Unlocked, rows, locals
<1>8. ASSUME NEW r \in Request, NEW o \in Org, NEW i \in Invite, Revoke(r, o, i) PROVE TypeOK'
  BY <1>8 DEF Revoke, Goto, Unlocked, rows
<1>9. ASSUME NEW r \in Request, Commit(r) PROVE TypeOK'
  BY <1>9 DEF Commit, Release, FlightInv, JoinInv
<1>10. ASSUME NEW r \in Request, Abort(r) PROVE TypeOK'
  BY <1>10 DEF Abort, Release, rows
<1>11. ASSUME NEW e \in Email, SoftDelete(e) PROVE TypeOK'
  BY <1>11 DEF SoftDelete, locals
<1>12. ASSUME NEW i \in Invite, Expire(i) PROVE TypeOK'
  BY <1>12 DEF Expire, locals
<1>13. CASE UNCHANGED vars
  BY <1>13 DEF vars, rows, locals
<1> QED
  BY <1>1, <1>2, <1>3, <1>4, <1>5, <1>6, <1>7, <1>8, <1>9, <1>10, <1>11, <1>12, <1>13
  DEF Next, RequestStep

\* No step breaks a conjunct of IInv: whoever has inserted an account or locked
\* an invitation is alone with it until the transaction ends.
LEMMA IInvStep == IInv /\ [Next]_vars => IInv'
<1> SUFFICES ASSUME IInv, [Next]_vars PROVE IInv'
  OBVIOUS
<1> USE InvitationsAssumption DEF IInv, TypeOK, Steps, Locking
<1>t. TypeOK'
  BY TypeStep
<1>1. ASSUME NEW r \in Request, NEW o \in Org, NEW e \in Email, StartInvite(r, o, e) PROVE IInv'
  <2> USE <1>1 DEF StartInvite, Goto, rows
  <2>1. RowInv'
    BY DEF RowInv
  <2>2. FlightInv'
    BY DEF FlightInv
  <2>3. JoinInv'
    BY DEF JoinInv
  <2>4. LockInv'
    BY DEF LockInv
  <2>5. AcceptedHasMember'
    BY DEF AcceptedHasMember
  <2>6. MemberWasInvited'
    BY DEF MemberWasInvited
  <2>7. AcceptedOncePerEmail'
    BY DEF AcceptedOncePerEmail
  <2> QED BY <1>t, <2>1, <2>2, <2>3, <2>4, <2>5, <2>6, <2>7
<1>2. ASSUME NEW r \in Request, CheckPending(r) PROVE IInv'
  <2> USE <1>2 DEF CheckPending, Goto, rows, locals
  <2>1. RowInv'
    BY DEF RowInv
  <2>2. FlightInv'
    BY DEF FlightInv
  <2>3. JoinInv'
    BY DEF JoinInv
  <2>4. LockInv'
    BY DEF LockInv
  <2>5. AcceptedHasMember'
    BY DEF AcceptedHasMember
  <2>6. MemberWasInvited'
    BY DEF MemberWasInvited
  <2>7. AcceptedOncePerEmail'
    BY DEF AcceptedOncePerEmail
  <2> QED BY <1>t, <2>1, <2>2, <2>3, <2>4, <2>5, <2>6, <2>7
<1>3. ASSUME NEW r \in Request, InsertInvite(r) PROVE IInv'
  <2> USE <1>3 DEF InsertInvite, Goto
  <2>1. RowInv'
    BY DEF RowInv, FlightInv
  <2>2. FlightInv'
    BY DEF FlightInv
  <2>3. JoinInv'
    BY DEF JoinInv
  <2>4. LockInv'
    BY DEF LockInv
  <2>5. AcceptedHasMember'
    BY DEF AcceptedHasMember, RowInv
  <2>6. MemberWasInvited'
    BY DEF MemberWasInvited
  <2>7. AcceptedOncePerEmail'
    BY DEF AcceptedOncePerEmail, RowInv
  <2> QED BY <1>t, <2>1, <2>2, <2>3, <2>4, <2>5, <2>6, <2>7
<1>4. ASSUME NEW r \in Request, NEW i \in Invite, FindInvite(r, i) PROVE IInv'
  <2> USE <1>4 DEF FindInvite, Goto, rows
  <2>1. RowInv'
    BY DEF RowInv
  <2>2. FlightInv'
    BY DEF FlightInv, RowInv
  <2>3. JoinInv'
    BY DEF JoinInv
  <2>4. LockInv'
    BY DEF LockInv
  <2>5. AcceptedHasMember'
    BY DEF AcceptedHasMember
  <2>6. MemberWasInvited'
    BY DEF MemberWasInvited
  <2>7. AcceptedOncePerEmail'
    BY DEF AcceptedOncePerEmail
  <2> QED BY <1>t, <2>1, <2>2, <2>3, <2>4, <2>5, <2>6, <2>7
<1>5. ASSUME NEW r \in Request, CheckEmail(r) PROVE IInv'
  <2> USE <1>5 DEF CheckEmail, Goto, rows, locals
  <2>1. RowInv'
    BY DEF RowInv
  <2>2. FlightInv'
    BY DEF FlightInv
  <2>3. JoinInv'
    BY DEF JoinInv
  <2>4. LockInv'
    BY DEF LockInv
  <2>5. AcceptedHasMember'
    BY DEF AcceptedHasMember
  <2>6. MemberWasInvited'
    BY DEF MemberWasInvited
  <2>7. AcceptedOncePerEmail'
    BY DEF AcceptedOncePerEmail
  <2> QED BY <1>t, <2>1, <2>2, <2>3, <2>4, <2>5, <2>6, <2>7
<1>6. ASSUME NEW r \in Request, InsertUser(r) PROVE IInv'
  <2> USE <1>6 DEF InsertUser, Goto, rows
  <2>1. RowInv'
    BY DEF RowInv
  <2>2. FlightInv'
    BY DEF FlightInv
  <2>3. JoinInv'
    BY DEF JoinInv
  <2>4. LockInv'
    BY DEF LockInv
  <2>5. AcceptedHasMember'
    BY DEF AcceptedHasMember
  <2>6. MemberWasInvited'
    BY DEF MemberWasInvited
  <2>7. AcceptedOncePerEmail'
    BY DEF AcceptedOncePerEmail
  <2> QED BY <1>t, <2>1, <2>2, <2>3, <2>4, <2>5, <2>6, <2>7
<1>7. ASSUME NEW r \in Request, MarkAccepted(r) PROVE IInv'
  <2> USE <1>7 DEF MarkAccepted, Goto, Unlocked, rows, locals
  <2>1. RowInv'
    BY DEF RowInv
  <2>2. FlightInv'
    BY DEF FlightInv
  <2>3. JoinInv'
    BY DEF JoinInv
  <2>4. LockInv'
    BY DEF LockInv
  <2>5. AcceptedHasMember'
    BY DEF AcceptedHasMember
  <2>6. MemberWasInvited'
    BY DEF MemberWasInvited
  <2>7. AcceptedOncePerEmail'
    BY DEF AcceptedOncePerEmail
  <2> QED BY <1>t, <2>1, <2>2, <2>3, <2>4, <2>5, <2>6, <2>7
<1>8. ASSUME NEW r \in Request, NEW o \in Org, NEW i \in Invite, Revoke(r, o, i) PROVE IInv'
  <2> USE <1>8 DEF Revoke, Goto, Unlocked, rows
  <2>1. RowInv'
    BY DEF RowInv
  <2>2. FlightInv'
    BY DEF FlightInv
  <2>3. JoinInv'
    BY DEF JoinInv
  <2>4. LockInv'
    BY DEF LockInv
  <2>5. AcceptedHasMember'
    BY DEF AcceptedHasMember
  <2>6. MemberWasInvited'
    BY DEF MemberWasInvited
  <2>7. AcceptedOncePerEmail'
    BY DEF AcceptedOncePerEmail
  <2> QED BY <1>t, <2>1, <2>2, <2>3, <2>4, <2>5, <2>6, <2>7
<1>9. ASSUME NEW r \in Request, Commit(r) PROVE IInv'
  <2> USE <1>9 DEF Commit, Release
  <2>1. RowInv'
    BY DEF RowInv, FlightInv, LockInv
  <2>2. FlightInv'
    BY DEF FlightInv
  <2>3. JoinInv'
    BY DEF JoinInv
  <2>4. LockInv'
    BY DEF LockInv
  <2>5. AcceptedHasMember'
    BY DEF AcceptedHasMember, RowInv, FlightInv, JoinInv
  <2>6. MemberWasInvited'
    BY DEF MemberWasInvited, FlightInv, LockInv
  <2>7. AcceptedOncePerEmail'
    BY DEF AcceptedOncePerEmail, RowInv, FlightInv, JoinInv, AcceptedHasMember
  <2> QED BY <1>t, <2>1, <2>2, <2>3, <2>4, <2>5, <2>6, <2>7
<1>10. ASSUME NEW r \in Request, Abort(r) PROVE IInv'
  <2> USE <1>10 DEF Abort, Release, rows
  <2>1. RowInv'
    BY DEF RowInv
  <2>2. FlightInv'
    BY DEF FlightInv
  <2>3. JoinInv'
    BY DEF JoinInv
  <2>4. LockInv'
    BY DEF LockInv
  <2>5. AcceptedHasMember'
    BY DEF AcceptedHasMember
  <2>6. MemberWasInvited'
    BY DEF MemberWasInvited
  <2>7. AcceptedOncePerEmail'
    BY DEF AcceptedOncePerEmail
  <2> QED BY <1>t, <2>1, <2>2, <2>3, <2>4, <2>5, <2>6, <2>7
<1>11. ASSUME NEW e \in Email, SoftDelete(e) PROVE IInv'
  <2> USE <1>11 DEF SoftDelete, locals
  <2>1. RowInv'
    BY DEF RowInv
  <2>2. FlightInv'
    BY DEF FlightInv
  <2>3. JoinInv'
    BY DEF JoinInv
  <2>4. LockInv'
    BY DEF LockInv
  <2>5. AcceptedHasMember'
    BY DEF AcceptedHasMember
  <2>6. MemberWasInvited'
    BY DEF MemberWasInvited
  <2>7. AcceptedOncePerEmail'
    BY DEF AcceptedOncePerEmail
  <2> QED BY <1>t, <2>1, <2>2, <2>3, <2>4, <2>5, <2>6, <2>7
<1>12. ASSUME NEW i \in Invite, Expire(i) PROVE IInv'
  <2> USE <1>12 DEF Expire, locals
  <2>1. RowInv'
    BY DEF RowInv
  <2>2. FlightInv'
    BY DEF FlightInv
  <2>3. JoinInv'
    BY DEF JoinInv
  <2>4. LockInv'
    BY DEF LockInv
  <2>5. AcceptedHasMember'
    BY DEF AcceptedHasMember
  <2>6. MemberWasInvited'
    BY DEF MemberWasInvited
  <2>7. AcceptedOncePerEmail'
    BY DEF AcceptedOncePerEmail
  <2> QED BY <1>t, <2>1, <2>2, <2>3, <2>4, <2>5, <2>6, <2>7
<1>13. CASE UNCHANGED vars
  <2> USE <1>13 DEF vars, rows, locals
  <2>1. RowInv' /\ FlightInv' /\ JoinInv' /\ LockInv'
    BY DEF RowInv, FlightInv, JoinInv, LockInv
  <2>2. AcceptedHasMember' /\ MemberWasInvited' /\ AcceptedOncePerEmail'
    BY DEF AcceptedHasMember, MemberWasInvited, AcceptedOncePerEmail
  <2> QED BY <1>t, <2>1, <2>2
<1> QED
  BY <1>1, <1>2, <1>3, <1>4, <1>5, <1>6, <1>7, <1>8, <1>9, <1>10, <1>11, <1>12, <1>13
  DEF Next, RequestStep

\* The inductive invariant of invite, accept and revoke holds in every reachable
\* state.
THEOREM InvitationsInvariant == Spec => []IInv
<1>1. Init => IInv
  BY IInvInit
<1>2. IInv /\ [Next]_vars => IInv'
  BY IInvStep
<1> QED
  BY <1>1, <1>2, PTL DEF Spec

-----------------------------------------------------------------------------
\* Type correctness, for every value of the constants.
THEOREM InvitationsTypeOK == Spec => []TypeOK
<1>1. IInv => TypeOK
  BY DEF IInv
<1> QED
  BY <1>1, InvitationsInvariant, PTL

\* accept is atomic: an invitation is marked as accepted together with an account
\* in the organization that sent it, and with that one only.
THEOREM AcceptedHaveMembers == Spec => []AcceptedHasMember
<1>1. IInv => AcceptedHasMember
  BY DEF IInv
<1> QED
  BY <1>1, InvitationsInvariant, PTL

\* A revoke and an accept of one invitation exclude each other: there is no member
\* whose invitation was revoked.
THEOREM MembersWereInvited == Spec => []MemberWasInvited
<1>1. IInv => MemberWasInvited
  BY DEF IInv
<1> QED
  BY <1>1, InvitationsInvariant, PTL

\* Of all the invitations of an address, one at most is ever accepted.
THEOREM AddressesAcceptOnce == Spec => []AcceptedOncePerEmail
<1>1. IInv => AcceptedOncePerEmail
  BY DEF IInv
<1> QED
  BY <1>1, InvitationsInvariant, PTL

-----------------------------------------------------------------------------
(* One pending invitation *)

\* Steps at which an invite is under way, and those after its check.
Inviting == {"check_pending", "insert_invite", "invited"}
Checked == {"insert_invite", "invited"}

\* Two invites of one address into one organization have been seen together.
TogetherInv ==
  \A r, s \in Request :
    /\ r # s /\ pc[r] \in Inviting /\ pc[s] \in Inviting
    /\ team[r] = team[s] /\ addr[r] = addr[s]
    => <<team[r], addr[r]>> \in crossed

\* What an invite has checked stays true until it commits, if it is alone.
ClearInv ==
  \A r \in Request :
    /\ pc[r] \in Inviting => team[r] \in Org /\ addr[r] \in Email
    /\ pc[r] \in Checked /\ <<team[r], addr[r]>> \notin crossed
         => Pending(team[r], addr[r]) = {}
    /\ pc[r] = "invited" => org[inv[r]] = team[r] /\ email[inv[r]] = addr[r]

OneInv == TogetherInv /\ ClearInv /\ OnePendingUnlessCrossed

\* An invite that starts beside another one of the same pair is crossed; an
\* invite that is alone adds a pending invitation where there is none.
LEMMA OneInvStep == IInv /\ OneInv /\ [Next]_vars => OneInv'
<1> SUFFICES ASSUME IInv, OneInv, [Next]_vars PROVE OneInv'
  OBVIOUS
<1> USE InvitationsAssumption
    DEF IInv, TypeOK, Steps, OneInv, Inviting, Checked, Pending
<1>1. ASSUME NEW r \in Request, NEW o \in Org, NEW e \in Email, StartInvite(r, o, e) PROVE OneInv'
  <2> USE <1>1 DEF StartInvite, Goto, Crosses
  <2>1. TogetherInv'
    BY DEF TogetherInv
  <2>2. ClearInv'
    BY DEF ClearInv, TogetherInv, RowInv
  <2>3. OnePendingUnlessCrossed'
    BY DEF OnePendingUnlessCrossed, ClearInv, RowInv
  <2> QED BY <2>1, <2>2, <2>3
<1>2. ASSUME NEW r \in Request, CheckPending(r) PROVE OneInv'
  <2> USE <1>2 DEF CheckPending, Goto, rows, locals
  <2>1. TogetherInv'
    BY DEF TogetherInv
  <2>2. ClearInv'
    BY DEF ClearInv, TogetherInv, RowInv
  <2>3. OnePendingUnlessCrossed'
    BY DEF OnePendingUnlessCrossed, ClearInv, RowInv
  <2> QED BY <2>1, <2>2, <2>3
<1>3. ASSUME NEW r \in Request, InsertInvite(r) PROVE OneInv'
  <2> USE <1>3 DEF InsertInvite, Goto
  <2>1. TogetherInv'
    BY DEF TogetherInv
  <2>2. ClearInv'
    BY DEF ClearInv, TogetherInv, RowInv
  <2>3. OnePendingUnlessCrossed'
    BY DEF OnePendingUnlessCrossed, ClearInv, RowInv
  <2> QED BY <2>1, <2>2, <2>3
<1>4. ASSUME NEW r \in Request, NEW i \in Invite, FindInvite(r, i) PROVE OneInv'
  <2> USE <1>4 DEF FindInvite, Goto, rows
  <2>1. TogetherInv'
    BY DEF TogetherInv
  <2>2. ClearInv'
    BY DEF ClearInv, TogetherInv, RowInv
  <2>3. OnePendingUnlessCrossed'
    BY DEF OnePendingUnlessCrossed, ClearInv, RowInv
  <2> QED BY <2>1, <2>2, <2>3
<1>5. ASSUME NEW r \in Request, CheckEmail(r) \/ InsertUser(r) \/ MarkAccepted(r) PROVE OneInv'
  <2> USE <1>5 DEF CheckEmail, InsertUser, MarkAccepted, Goto, rows, locals
  <2>1. TogetherInv'
    BY DEF TogetherInv
  <2>2. ClearInv'
    BY DEF ClearInv, TogetherInv, RowInv
  <2>3. OnePendingUnlessCrossed'
    BY DEF OnePendingUnlessCrossed, ClearInv, RowInv
  <2> QED BY <2>1, <2>2, <2>3
<1>6. ASSUME NEW r \in Request, NEW o \in Org, NEW i \in Invite, Revoke(r, o, i) PROVE OneInv'
  <2> USE <1>6 DEF Revoke, Goto, rows
  <2>1. TogetherInv'
    BY DEF TogetherInv
  <2>2. ClearInv'
    BY DEF ClearInv, TogetherInv, RowInv
  <2>3. OnePendingUnlessCrossed'
    BY DEF OnePendingUnlessCrossed, ClearInv, RowInv
  <2> QED BY <2>1, <2>2, <2>3
<1>7. ASSUME NEW r \in Request, Commit(r) PROVE OneInv'
  <2> USE <1>7 DEF Commit, Release
  <2>1. TogetherInv'
    BY DEF TogetherInv
  <2>2. CASE pc[r] \in {"joined", "revoked"}
    <3>1. \A o \in Org, e \in Email : Pending(o, e)' \subseteq Pending(o, e)
      BY <2>2
    <3>2. ClearInv'
      BY <3>1 DEF ClearInv
    <3>3. OnePendingUnlessCrossed'
      BY <3>1 DEF OnePendingUnlessCrossed
    <3> QED BY <2>1, <3>2, <3>3
  <2>3. CASE pc[r] = "invited"
    <3>1. /\ team[r] \in Org /\ addr[r] \in Email
          /\ org[inv[r]] = team[r] /\ email[inv[r]] = addr[r]
          /\ <<team[r], addr[r]>> \notin crossed => Pending(team[r], addr[r]) = {}
      BY <2>3 DEF ClearInv
    <3>2. ASSUME NEW o \in Org, NEW e \in Email
          PROVE  Pending(o, e)' \subseteq Pending(o, e) \union {inv[r]}
      BY <2>3
    <3>3. ASSUME NEW o \in Org, NEW e \in Email, o # team[r] \/ e # addr[r]
          PROVE  Pending(o, e)' = Pending(o, e)
      BY <2>3, <3>1, <3>3
    <3>4. ClearInv'
      <4> SUFFICES ASSUME NEW s \in Request \ {r}, pc[s] \in Checked,
                          <<team[s], addr[s]>> \notin crossed
                   PROVE  Pending(team[s], addr[s])' = {}
        BY DEF ClearInv
      <4>1. team[s] \in Org /\ addr[s] \in Email /\ Pending(team[s], addr[s]) = {}
        BY DEF ClearInv
      <4>2. team[s] # team[r] \/ addr[s] # addr[r]
        BY <2>3 DEF TogetherInv
      <4> QED BY <3>3, <4>1, <4>2
    <3>5. OnePendingUnlessCrossed'
      <4> SUFFICES ASSUME NEW o \in Org, NEW e \in Email, <<o, e>> \notin crossed
                   PROVE  \A i, j \in Pending(o, e)' : i = j
        BY DEF OnePendingUnlessCrossed
      <4>1. CASE o = team[r] /\ e = addr[r]
        BY <3>1, <3>2, <4>1
      <4>2. CASE o # team[r] \/ e # addr[r]
        BY <3>3, <4>2 DEF OnePendingUnlessCrossed
      <4> QED BY <4>1, <4>2
    <3> QED BY <2>1, <3>4, <3>5
  <2> QED BY <2>2, <2>3
<1>8. ASSUME NEW r \in Request, Abort(r) PROVE OneInv'
  <2> USE <1>8 DEF Abort, Release, rows
  <2>1. TogetherInv'
    BY DEF TogetherInv
  <2>2. ClearInv'
    BY DEF ClearInv, TogetherInv, RowInv
  <2>3. OnePendingUnlessCrossed'
    BY DEF OnePendingUnlessCrossed, ClearInv, RowInv
  <2> QED BY <2>1, <2>2, <2>3
<1>9. ASSUME UNCHANGED <<invites, org, email, accepted, crossed, pc, locals>>,
             expired \subseteq expired'
      PROVE  OneInv'
  <2> USE <1>9 DEF locals
  <2>1. TogetherInv' /\ ClearInv'
    BY DEF TogetherInv, ClearInv
  <2>2. OnePendingUnlessCrossed'
    BY DEF OnePendingUnlessCrossed
  <2> QED BY <2>1, <2>2
<1> QED
  BY <1>1, <1>2, <1>3, <1>4, <1>5, <1>6, <1>7, <1>8, <1>9
  DEF Next, RequestStep, SoftDelete, Expire, vars, rows

\* Only invites that are in flight together can leave an address with two pending
\* invitations into one organization.
THEOREM OnePendingUnlessInvitesCross == Spec => []OnePendingUnlessCrossed
<1>1. Init => OneInv
  BY DEF Init, OneInv, TogetherInv, ClearInv, OnePendingUnlessCrossed, Pending, Inviting,
         Checked
<1>2. IInv /\ OneInv /\ [Next]_vars => OneInv'
  BY OneInvStep
<1>3. OneInv => OnePendingUnlessCrossed
  BY DEF OneInv
<1> QED
  BY <1>1, <1>2, <1>3, InvitationsInvariant, PTL DEF Spec

=============================================================================
